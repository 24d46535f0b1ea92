------------------------- MODULE ReviewGraphProps -------------------------
(***************************************************************************)
(* What a review must satisfy, and what the repository says of it that the *)
(* code does not keep.                                                     *)
(***************************************************************************)
EXTENDS ReviewGraph

Reported == report # NoReport

\* A finding that deduplication may replace by a harmless one of the same
\* fingerprint.
Masked(f, F) == \E g \in F : g.id = f.id /\ ~is_blocking(g)

Floor(F) ==
  \A f \in F : is_blocking(f) => ~IsCritical(f) /\ Masked(f, F)

\* A report approves the merge without a human's approval only if the scan it
\* rests on has no genuine critical finding, and no genuine high one except
\* such as deduplication hid (synthesizer floor, routing and apply_decision
\* together, over every path to the report).
ApprovalFloor ==
  Reported /\ report.decision = "APPROVE" /\ report.hitl \notin Approvals =>
    Floor(report.findings)

\* A human is asked only about a genuine critical finding, and the report says
\* what the human decided, whatever the synthesizer had proposed.
HumanDecisionStands ==
  Reported /\ report.hitl # NoDecision =>
    /\ \E f \in report.findings : IsCritical(f)
    /\ report.decision = IF report.hitl \in Approvals
                         THEN "APPROVE" ELSE "BLOCK_MERGE"

\* The working copy is patched only for a finding that was blocking and
\* fixable in its own scan, and never while that scan held a genuine critical
\* ("Criticals are not safely auto-remediable; a human decides", edges.py).
NoCriticalAutoPatched ==
  \A p \in patched_files :
    /\ p.iteration < iteration
    /\ \E f \in Fixable(findings, p.iteration) : f.id = p.id
    /\ \A f \in current_findings(findings, p.iteration) : ~IsCritical(f)

\* The agents that have to look again after a patch.
Rescanners == {"SecurityAgent"} \cup (delegated_agents \cap {"StyleAgent"})

RanAgain(notes, a) ==
  \E m \in notes :
    m.agent = a /\ m.iteration = iteration /\ m.outcome # "skipped"

\* After the last patch the SecurityAgent, and the StyleAgent if it was
\* delegated, ran once more before the report was written, and the scratchpad
\* says whether that run ended in a report or degraded.  A degraded run has
\* looked at nothing and counts here: what is shown is that the rerun is never
\* left out or overtaken, not that the patched code was analysed.
LastPatchRescanned ==
  Reported /\ iteration > 0 =>
    \A a \in Rescanners : RanAgain(scratchpad, a)

\* No agent sees the text of a pull request the input guardrail refused, and
\* its review ends in a report that blocks the merge and still says so.
BlockedNeverAnalysed ==
  hostile /\ GuardrailsEnabled =>
    /\ delegated_agents = {}
    /\ scratchpad = {}
    /\ Reported => status = "blocked" /\ report.decision = "BLOCK_MERGE"

\* An exception of node n, and not the limit, ended the review.
Raised(n) == failed /\ frontier = {n} /\ steps < RecursionLimit

\* The exceptions nobody catches: no working copy, a file that could not be
\* patched, a report that could not be written.
Broken ==
  \/ ~workdirExists /\ Raised("coordinator")
  \/ Raised("apply_fix")
  \/ Raised("persist_report")

\* A review is aborted by the recursion limit only if the limit is less than
\* the supersteps of the passes it took: seven for a clean review and four for
\* each remediation pass, wasted or not.
BudgetSuffices ==
  failed /\ steps = RecursionLimit => RecursionLimit < 7 + 4 * iteration

\* edges.loop_should_terminate, the explanation given beside the routing.
loop_should_terminate(fs, it) ==
  \/ blocking_findings(fs, it) = {}
  \/ it >= MaxIter
  \/ Fixable(fs, it) = {}

\* A review that ends without a human ends for one of the three reasons
\* loop_should_terminate gives: the loop is never left early.
TerminationExplained ==
  Reported /\ status = "reported" /\ report.hitl = NoDecision =>
    loop_should_terminate(findings, iteration)

\* Once a human has decided, the review only proceeds to its report: nothing
\* is scanned or patched again and no second decision replaces the first.
DecisionIsFinal ==
  [][hitl_decision # NoDecision =>
       UNCHANGED <<findings, iteration, patched_files, hitl_decision>>]_vars

\* Every review reaches its report or its pause for a human, or is broken by
\* one of the exceptions nobody catches; the remediation loop always ends, and
\* with this limit no review is cut off.
SettlesOrWaits == <>(Reported \/ paused \/ Broken)

\* A decision, once delivered, always leads to the writing of the report: to the
\* report, or to the exception of a report that could not be written.
DecisionLeadsToReport ==
  (hitl_decision # NoDecision) ~> (Reported \/ Raised("persist_report"))

\* How many nodes are between each node and the end, within a pass.
Distance ==
  [ingest_pr |-> 9, guardrail_input |-> 8, coordinator |-> 7,
   security_agent |-> 6, style_agent |-> 6, coverage_agent |-> 6,
   synthesizer |-> 5, remediation_loop |-> 4, hitl_approval |-> 4,
   apply_fix |-> 3, apply_decision |-> 3, finalize |-> 2, blocked |-> 2,
   persist_report |-> 1]

\* There is no way round the loop's counter: a step fails the review, takes a
\* pass below the ceiling, schedules what is nearer to the report than all that
\* was scheduled, finishes one more task of the superstep, or pauses.  Also a
\* resume, which gets a fresh count of supersteps, goes only forward.
ReviewAdvances ==
  [][\/ ~failed /\ failed'
     \/ UNCHANGED failed /\ iteration' \in (iteration + 1)..MaxIter
     \/ /\ UNCHANGED <<failed, iteration>>
        /\ frontier # {}
        /\ \A n \in frontier, m \in frontier' : Distance[m] < Distance[n]
     \/ /\ UNCHANGED <<failed, iteration, frontier>>
        /\ \/ ~paused /\ paused' /\ UNCHANGED writes
           \/ /\ UNCHANGED paused
              /\ \E n \in frontier \ writes.done :
                   writes'.done = writes.done \cup {n}]_vars

-----------------------------------------------------------------------------
(***************************************************************************)
(* The inductive invariant behind the safety properties.                   *)
(***************************************************************************)

\* A superstep is one node, or specialists, or the end.  Only the superstep of
\* the specialists has tasks that finish apart; their findings are of this pass.
FrontierInv ==
  /\ \/ frontier \subseteq SpecialistNodes
     \/ \E n \in Node \ SpecialistNodes : frontier = {n}
  /\ writes.done \subseteq frontier \cap SpecialistNodes
  /\ writes.done = {} => writes.findings = {} /\ writes.notes = {}
  /\ \A f \in writes.findings : f.iteration = iteration
  /\ paused => frontier = {"hitl_approval"}

\* How many supersteps this invoke() has taken when each node is scheduled.
Position ==
  [ingest_pr |-> 0, guardrail_input |-> 1, blocked |-> 2, coordinator |-> 2,
   security_agent |-> 3, style_agent |-> 3, coverage_agent |-> 3,
   synthesizer |-> 4, remediation_loop |-> 5, hitl_approval |-> 5,
   apply_decision |-> 1, apply_fix |-> 6, finalize |-> 5, persist_report |-> 6]

\* Each remediation pass costs four supersteps and there are at most MaxIter.
BudgetInv ==
  /\ iteration <= MaxIter
  /\ frontier \cap {"remediation_loop", "apply_fix"} # {} => iteration < MaxIter
  /\ \A n \in frontier : steps <= Position[n] + 4 * iteration
  /\ BudgetSuffices

\* A failed review was cut off by the limit, or broken by a node of its own.
FailureInv == failed => ~paused /\ (steps = RecursionLimit \/ Broken)

\* What the synthesizer's floor, the routing and apply_decision establish and
\* the nodes on the way to the report keep.
VerdictInv ==
  /\ frontier \cap {"finalize", "persist_report"} # {}
       /\ verdict = "APPROVE" /\ hitl_decision \notin Approvals
     => Floor(current_findings(findings, iteration))
  /\ frontier = {"hitl_approval"} \/ hitl_decision # NoDecision =>
       \E f \in current_findings(findings, iteration) : IsCritical(f)
  /\ hitl_decision # NoDecision =>
       /\ frontier \subseteq {"apply_decision", "finalize", "persist_report"}
       /\ frontier \cap {"finalize", "persist_report"} # {} =>
            verdict = IF hitl_decision \in Approvals
                      THEN "APPROVE" ELSE "BLOCK_MERGE"
  /\ frontier = {"apply_decision"} => hitl_decision # NoDecision
  /\ Reported => frontier = {}

\* No finding is of a later pass, and a pass that may patch has no critical.
PatchInv ==
  /\ frontier \cap {"remediation_loop", "apply_fix"} # {} =>
       \A f \in current_findings(findings, iteration) : ~IsCritical(f)
  /\ NoCriticalAutoPatched

IInv ==
  /\ TypeOK
  /\ FrontierInv
  /\ BudgetInv
  /\ FailureInv
  /\ VerdictInv
  /\ PatchInv
  /\ ApprovalFloor
  /\ HumanDecisionStands

(***************************************************************************)
(* What holds beside IInv and is inductive relative to it: behind the      *)
(* properties of refusal, rescanning and termination, and the refinement.  *)
(***************************************************************************)

\* A refused review goes from the guardrail straight to its report.
RefusalInv ==
  /\ status = "blocked" \/ frontier = {"blocked"} => hostile /\ GuardrailsEnabled
  /\ frontier \cap {"ingest_pr", "guardrail_input"} # {} => status # "blocked"
  /\ hostile /\ GuardrailsEnabled =>
       /\ frontier \subseteq
            {"ingest_pr", "guardrail_input", "blocked", "persist_report"}
       /\ delegated_agents = {} /\ scratchpad = {} /\ iteration = 0
       /\ hitl_decision = NoDecision
       /\ frontier \cap {"blocked", "persist_report"} # {} \/ Reported =>
            status = "blocked"
       /\ frontier = {"persist_report"} => verdict = "BLOCK_MERGE"
       /\ Reported => report.decision = "BLOCK_MERGE"

\* The nodes on the way to the report hold a decision; if no human was asked,
\* there was nothing critical and no reason to go on.
OutcomeInv ==
  /\ frontier \cap {"finalize", "persist_report"} # {} => verdict \in Decision
  /\ (frontier \cap {"finalize", "persist_report"} # {} \/ Reported)
       /\ status # "blocked" /\ hitl_decision = NoDecision
     => /\ \A f \in current_findings(findings, iteration) : ~IsCritical(f)
        /\ loop_should_terminate(findings, iteration)
  /\ frontier \cap {"remediation_loop", "apply_fix"} # {} =>
       Fixable(findings, iteration) # {}
  /\ Reported => report.hitl = hitl_decision

\* After a patch they are scheduled, then have finished, then are on record.
RescanInv ==
  iteration > 0 =>
    /\ frontier \cap {"ingest_pr", "guardrail_input", "blocked", "coordinator"} = {}
    /\ \A a \in Rescanners :
         IF frontier \cap SpecialistNodes # {}
         THEN /\ NodeOf[a] \in frontier
              /\ NodeOf[a] \in writes.done => RanAgain(writes.notes, a)
         ELSE RanAgain(scratchpad, a)

JInv == RefusalInv /\ OutcomeInv /\ RescanInv /\ ~(paused /\ failed)

-----------------------------------------------------------------------------
(***************************************************************************)
(* What the repository says of a review and the graph does not keep.       *)
(***************************************************************************)

\* edges.py:46 "Security review is never optional on a PR that reached this
\* point.": a review that was not blocked has had the SecurityAgent run on the
\* pull request as submitted.
SecurityNeverOptional ==
  Reported /\ status # "blocked" =>
    \E m \in scratchpad :
      m.agent = "SecurityAgent" /\ m.iteration = 0 /\ m.outcome # "skipped"

\* edges.py:55 re-running coverage after a fix would "re-derive the identical
\* answer": so a blocking coverage finding, which no fix removes, is still
\* blocking in the report.
CoverageFindingsSurvive ==
  Reported /\ report.hitl = NoDecision =>
    \A f \in findings :
      f.agent = "TestCoverageAgent" /\ is_blocking(f) =>
        \E g \in report.findings : g.agent = f.agent /\ g.id = f.id

\* tests/test_resilience.py:93 "Silent success on total outage would be worse
\* than an error.": of a review that approves, some agent's run, the
\* coordinator's, a specialist's or the synthesizer's, ended with an answer.
NoSilentSuccess ==
  Reported /\ report.decision = "APPROVE" => answered

\* nodes.py:407 "nothing applicable - the loop will terminate on the next
\* route": a pass that patched nothing is not followed by another.
UselessPassEndsLoop ==
  frontier = {"remediation_loop"} /\ iteration > 0 =>
    \E p \in patched_files : p.iteration = iteration - 1

\* ARCHITECTURE.md:161 the model "cannot approve over an untriaged critical
\* finding": the synthesizer's verdict is never APPROVE over one.
CannotApproveOverCritical ==
  status = "synthesized" /\ verdict = "APPROVE" =>
    ~ \E f \in current_findings(findings, iteration) : IsCritical(f)

=============================================================================
