---------------------------- MODULE ReviewGraph ----------------------------
(***************************************************************************)
(* One review: the LangGraph state machine that graph/build.py assembles   *)
(* from the nodes of graph/nodes.py.  A node is an action that reads the   *)
(* state and writes the channels its update names; the graph then schedules*)
(* the next superstep.  The specialists of one superstep run in parallel   *)
(* on the same snapshot and their updates are merged when the last is done.*)
(*                                                                         *)
(* What a language model answers, whether a provider call fails, whether a *)
(* suggested line applies to the file and what the human decides are       *)
(* nondeterministic.                                                       *)
(***************************************************************************)
EXTENDS ReviewState

CONSTANTS
  Reports,            \* Reports[a]: the sets of findings agent a may report
  GuardrailsEnabled,  \* settings.guardrails_enabled
  RecursionLimit      \* supersteps one invoke() may take before it is aborted

ASSUME ReportsAssumption ==
  Reports \in [SPECIALISTS -> SUBSET SUBSET ReportedFinding]

ASSUME GuardrailsAssumption == GuardrailsEnabled \in BOOLEAN

\* The service and resume_review pass 60, whatever MaxIter is configured to be.
ASSUME RecursionLimitAssumption == RecursionLimit \in Nat \ {0}

VARIABLES
  \* the pull request
  hostile,           \* the PR text matches an injection pattern
  workdirExists,     \* the working copy is a directory
  \* channels of ReviewState
  status,
  delegated_agents,
  findings,
  scratchpad,        \* what each agent did, as the scratchpad lines record it
  verdict,
  iteration,
  patched_files,
  hitl_decision,
  report,
  \* the runtime
  frontier,          \* nodes of the current superstep; {} at END
  writes,            \* updates of the superstep's tasks that have finished
  paused,            \* interrupt() suspended the run
  failed,            \* a node raised, or the recursion limit was hit
  steps,             \* supersteps of the current invoke()
  \* history
  answered           \* some agent's run has ended with a model's answer

pr == <<hostile, workdirExists>>
channels == <<status, delegated_agents, findings, scratchpad, verdict,
              iteration, patched_files, hitl_decision, report>>
runtime == <<frontier, writes, paused, failed, steps>>
vars == <<pr, channels, runtime, answered>>

NoVerdict == "none"
NoDecision == "none"
NoReport == [decision |-> "none", findings |-> {}, hitl |-> "none"]

Node ==
  {"ingest_pr", "guardrail_input", "blocked", "coordinator", "synthesizer",
   "remediation_loop", "apply_fix", "hitl_approval", "apply_decision",
   "finalize", "persist_report"} \cup SpecialistNodes

Outcome == {"judgment", "degraded", "skipped"}
Note == [agent : SPECIALISTS, iteration : Nat, outcome : Outcome]

-----------------------------------------------------------------------------
Init ==
  /\ hostile \in BOOLEAN
  /\ workdirExists \in BOOLEAN
  /\ status = "ingested"
  /\ delegated_agents = {}
  /\ findings = {}
  /\ scratchpad = {}
  /\ verdict = NoVerdict
  /\ iteration = 0
  /\ patched_files = {}
  /\ hitl_decision = NoDecision
  /\ report = NoReport
  /\ frontier = {"ingest_pr"}
  /\ writes = [done |-> {}, findings |-> {}, notes |-> {}]
  /\ paused = FALSE
  /\ failed = FALSE
  /\ steps = 0
  /\ answered = FALSE

(***************************************************************************)
(* The Pregel loop: a task runs when its node is in the frontier and the   *)
(* invoke has supersteps left; Goto ends a superstep of one task.          *)
(***************************************************************************)
Scheduled(n) ==
  /\ n \in frontier
  /\ ~paused
  /\ ~failed
  /\ steps < RecursionLimit

Goto(nodes) ==
  /\ frontier' = nodes
  /\ steps' = steps + 1
  /\ UNCHANGED <<writes, paused, failed>>

Fail ==
  /\ failed' = TRUE
  /\ UNCHANGED <<frontier, writes, paused, steps>>

\* An exception leaves the node: its update is lost and the review has failed.
Raises(n) ==
  /\ Scheduled(n)
  /\ Fail
  /\ UNCHANGED <<pr, channels, answered>>

RecursionLimitReached ==
  /\ frontier # {}
  /\ ~paused
  /\ ~failed
  /\ steps = RecursionLimit
  /\ Fail
  /\ UNCHANGED <<pr, channels, answered>>

-----------------------------------------------------------------------------
(***************************************************************************)
(* Intake.  A missing working copy only sets the status; the edge to       *)
(* guardrail_input is unconditional.                                       *)
(***************************************************************************)
ingest_pr ==
  /\ Scheduled("ingest_pr")
  /\ status' = IF workdirExists THEN "ingested" ELSE "error"
  /\ Goto({"guardrail_input"})
  /\ UNCHANGED <<pr, delegated_agents, findings, scratchpad, verdict,
                 iteration, patched_files, hitl_decision, report, answered>>

guardrail_input ==
  /\ Scheduled("guardrail_input")
  /\ status' = IF hostile /\ GuardrailsEnabled
               THEN "blocked" ELSE "guardrail_passed"
  /\ Goto({route_after_guardrail(status')})
  /\ UNCHANGED <<pr, delegated_agents, findings, scratchpad, verdict,
                 iteration, patched_files, hitl_decision, report, answered>>

blocked ==
  /\ Scheduled("blocked")
  /\ verdict' = "BLOCK_MERGE"
  /\ status' = "blocked"
  /\ Goto({"persist_report"})
  /\ UNCHANGED <<pr, delegated_agents, findings, scratchpad,
                 iteration, patched_files, hitl_decision, report, answered>>

(***************************************************************************)
(* The coordinator delegates to any agents it names, to all when it names  *)
(* none that exist or is degraded.  review_root() raises when the working  *)
(* copy is missing.                                                        *)
(***************************************************************************)
Planned(delegated) ==
  /\ delegated_agents' = delegated
  /\ status' = "planned"
  /\ Goto(fan_out_to_specialists(delegated))
  /\ UNCHANGED <<pr, findings, scratchpad, verdict, iteration,
                 patched_files, hitl_decision, report>>

coordinator ==
  /\ Scheduled("coordinator")
  /\ workdirExists
  /\ \E named \in SUBSET SPECIALISTS :
       Planned(IF named = {} THEN SPECIALISTS ELSE named)
  /\ answered' = TRUE

coordinator_degraded ==
  /\ Scheduled("coordinator")
  /\ workdirExists
  /\ Planned(SPECIALISTS)
  /\ UNCHANGED answered

coordinator_raises == ~workdirExists /\ Raises("coordinator")

-----------------------------------------------------------------------------
(***************************************************************************)
(* The parallel fan-out.  _run_specialist skips an agent the coordinator   *)
(* did not name on the first pass, whatever the routing scheduled.         *)
(***************************************************************************)
Skips(a) == a \notin delegated_agents /\ iteration = 0

\* One specialist task ends, leaving its update for the superstep's end.
TaskDone(n, outcome, reported) ==
  /\ writes' =
       [done     |-> writes.done \cup {n},
        findings |-> writes.findings
                       \cup {Stamp(r, AgentOf[n], iteration) : r \in reported},
        notes    |-> writes.notes
                       \cup {[agent |-> AgentOf[n], iteration |-> iteration,
                              outcome |-> outcome]}]
  /\ UNCHANGED <<pr, channels, frontier, paused, failed, steps>>

Running(n) == Scheduled(n) /\ n \notin writes.done

specialist_skipped(n) ==
  /\ Running(n)
  /\ Skips(AgentOf[n])
  /\ TaskDone(n, "skipped", {})
  /\ UNCHANGED answered

specialist_reports(n) ==
  /\ Running(n)
  /\ ~Skips(AgentOf[n])
  /\ \E reported \in Reports[AgentOf[n]] : TaskDone(n, "judgment", reported)
  /\ answered' = TRUE

specialist_degraded(n) ==
  /\ Running(n)
  /\ ~Skips(AgentOf[n])
  /\ TaskDone(n, "degraded", {})
  /\ UNCHANGED answered

\* The superstep ends when its last task has: the append-only channels take
\* every task's update, and each specialist's edge leads to the synthesizer.
fan_in ==
  /\ frontier # {}
  /\ \A n \in frontier : Scheduled(n)
  /\ frontier \subseteq SpecialistNodes
  /\ writes.done = frontier
  /\ findings' = findings \cup writes.findings
  /\ scratchpad' = scratchpad \cup writes.notes
  /\ writes' = [done |-> {}, findings |-> {}, notes |-> {}]
  /\ frontier' = {"synthesizer"}
  /\ steps' = steps + 1
  /\ UNCHANGED <<pr, status, delegated_agents, verdict, iteration,
                 patched_files, hitl_decision, report, paused, failed, answered>>

-----------------------------------------------------------------------------
(***************************************************************************)
(* Fan-in.  The model decides freely over the deduplicated findings and    *)
(* the safety floor corrects it; a degraded synthesis decides mechanically *)
(* over all of them.                                                       *)
(***************************************************************************)
Synthesized(decision) ==
  /\ verdict' = decision
  /\ status' = "synthesized"
  /\ Goto({route_after_synthesis(findings, iteration)})
  /\ UNCHANGED <<pr, delegated_agents, findings, scratchpad, iteration,
                 patched_files, hitl_decision, report>>

synthesizer ==
  /\ Scheduled("synthesizer")
  /\ \E kept \in Kept(current_findings(findings, iteration)),
        decision \in Decision :
          Synthesized(Reconcile(decision, kept))
  /\ answered' = TRUE

synthesizer_degraded ==
  /\ Scheduled("synthesizer")
  /\ Synthesized(MechanicalDecision(current_findings(findings, iteration)))
  /\ UNCHANGED answered

(***************************************************************************)
(* The remediation loop.  Of the fixable blocking findings, those whose    *)
(* file and line exist and whose line differs are patched.                 *)
(***************************************************************************)
remediation_loop ==
  /\ Scheduled("remediation_loop")
  /\ status' = "remediating"
  /\ Goto({"apply_fix"})
  /\ UNCHANGED <<pr, delegated_agents, findings, scratchpad, verdict,
                 iteration, patched_files, hitl_decision, report, answered>>

\* Mutant: only a pass that patched something counts.
ApplyFixCountsPatches ==
  /\ Scheduled("apply_fix")
  /\ \E patched \in SUBSET Fixable(findings, iteration) :
       /\ patched_files' = patched_files
            \cup {[id |-> f.id, iteration |-> iteration] : f \in patched}
       /\ iteration' = IF patched = {} THEN iteration ELSE iteration + 1
  /\ status' = "patched"
  /\ Goto(fan_out_after_fix(delegated_agents))
  /\ UNCHANGED <<pr, delegated_agents, findings, scratchpad, verdict,
                 hitl_decision, report, answered>>

apply_fix ==
  /\ Scheduled("apply_fix")
  /\ \E patched \in SUBSET Fixable(findings, iteration) :
       patched_files' = patched_files
         \cup {[id |-> f.id, iteration |-> iteration] : f \in patched}
  /\ iteration' = iteration + 1
  /\ status' = "patched"
  /\ Goto(fan_out_after_fix(delegated_agents))
  /\ UNCHANGED <<pr, delegated_agents, findings, scratchpad, verdict,
                 hitl_decision, report, answered>>

\* read_text() on a file that is not UTF-8, which the scanners do read, or a
\* write_text() that fails: only an OSError of the reading is caught.
apply_fix_raises == Fixable(findings, iteration) # {} /\ Raises("apply_fix")

-----------------------------------------------------------------------------
(***************************************************************************)
(* Human in the loop.  interrupt() suspends the run inside the node; the   *)
(* resume starts a new invoke(), which re-runs the node to its end.        *)
(***************************************************************************)
hitl_approval ==
  /\ Scheduled("hitl_approval")
  /\ paused' = TRUE
  /\ UNCHANGED <<pr, channels, frontier, writes, failed, steps, answered>>

resume_review(choice) ==
  /\ paused
  /\ paused' = FALSE
  /\ hitl_decision' = choice
  /\ status' = "hitl_decided"
  /\ frontier' = {"apply_decision"}
  /\ steps' = 1
  /\ UNCHANGED <<pr, delegated_agents, findings, scratchpad, verdict,
                 iteration, patched_files, report, writes, failed, answered>>

\* Mutant: the decided review goes back to the synthesizer.
ApplyDecisionThenSynthesize ==
  /\ Scheduled("apply_decision")
  /\ verdict' = IF hitl_decision \in Approvals
                THEN "APPROVE" ELSE "BLOCK_MERGE"
  /\ status' = "decided"
  /\ Goto({"synthesizer"})
  /\ UNCHANGED <<pr, delegated_agents, findings, scratchpad, iteration,
                 patched_files, hitl_decision, report, answered>>

apply_decision ==
  /\ Scheduled("apply_decision")
  /\ verdict' = IF hitl_decision \in Approvals
                THEN "APPROVE" ELSE "BLOCK_MERGE"
  /\ status' = "decided"
  /\ Goto({"finalize"})
  /\ UNCHANGED <<pr, delegated_agents, findings, scratchpad, iteration,
                 patched_files, hitl_decision, report, answered>>

(***************************************************************************)
(* Exit.                                                                   *)
(***************************************************************************)
finalize ==
  /\ Scheduled("finalize")
  /\ status' = "finalized"
  /\ Goto({"persist_report"})
  /\ UNCHANGED <<pr, delegated_agents, findings, scratchpad, verdict,
                 iteration, patched_files, hitl_decision, report, answered>>

persist_report ==
  /\ Scheduled("persist_report")
  /\ report' = [decision |-> verdict, hitl |-> hitl_decision,
                findings |-> current_findings(findings, iteration)]
  /\ status' = IF status = "blocked" THEN "blocked" ELSE "reported"
  /\ Goto({})
  /\ UNCHANGED <<pr, delegated_agents, findings, scratchpad, verdict,
                 iteration, patched_files, hitl_decision, answered>>

\* Nothing guards mkdir() and write_text(), and the file's name contains the
\* payload's pr_id.
persist_report_raises == Raises("persist_report")

-----------------------------------------------------------------------------
\* The nodes that let an exception out.
node_raises == coordinator_raises \/ apply_fix_raises \/ persist_report_raises

Specialist ==
  \E n \in SpecialistNodes :
    specialist_skipped(n) \/ specialist_reports(n) \/ specialist_degraded(n)

\* Every step the runtime takes by itself.
System ==
  \/ ingest_pr \/ guardrail_input \/ blocked
  \/ coordinator \/ coordinator_degraded
  \/ Specialist \/ fan_in
  \/ synthesizer \/ synthesizer_degraded
  \/ remediation_loop \/ apply_fix
  \/ hitl_approval \/ apply_decision
  \/ finalize \/ persist_report
  \/ node_raises
  \/ RecursionLimitReached

Human == \E choice \in HumanChoice : resume_review(choice)

\* The run has ended, with a report or with an exception.
Ended == (frontier = {} \/ failed) /\ UNCHANGED vars

Next == System \/ Human \/ Ended

Spec == Init /\ [][Next]_vars

\* Every model call has a timeout and a bounded number of attempts, so the
\* runtime always finishes a task; nothing obliges a human to answer.
FairSpec == Spec /\ WF_vars(System)

-----------------------------------------------------------------------------
\* Every channel of the state and every part of the runtime has its type.
TypeOK ==
  /\ hostile \in BOOLEAN
  /\ workdirExists \in BOOLEAN
  /\ status \in {"ingested", "error", "guardrail_passed", "blocked", "planned",
                 "synthesized", "remediating", "patched", "hitl_decided",
                 "decided", "finalized", "reported"}
  /\ delegated_agents \subseteq SPECIALISTS
  /\ findings \subseteq Finding
  /\ scratchpad \subseteq Note
  /\ verdict \in Decision \cup {NoVerdict}
  /\ iteration \in Nat
  /\ patched_files \subseteq [id : Fingerprints, iteration : Nat]
  /\ hitl_decision \in HumanChoice \cup {NoDecision}
  /\ report \in [decision : Decision \cup {NoVerdict},
                 findings : SUBSET Finding,
                 hitl : HumanChoice \cup {NoDecision}]
  /\ frontier \subseteq Node
  /\ writes \in [done : SUBSET SpecialistNodes, findings : SUBSET Finding,
                 notes : SUBSET Note]
  /\ paused \in BOOLEAN
  /\ failed \in BOOLEAN
  /\ steps \in 0..RecursionLimit
  /\ answered \in BOOLEAN

=============================================================================
