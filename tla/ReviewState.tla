---------------------------- MODULE ReviewState ----------------------------
(***************************************************************************)
(* The shared state object of a review, reduced to what routing and        *)
(* verdicts depend on: findings, their severities, and the pure functions  *)
(* the graph applies to them (codeguard/state.py, codeguard/graph/edges.py *)
(* and the mechanical part of codeguard/agents/synthesizer.py).            *)
(*                                                                         *)
(* A finding's text is its fingerprint, an opaque identity; file contents  *)
(* and messages are not represented.                                       *)
(***************************************************************************)
EXTENDS Integers

CONSTANT
  Fingerprints,  \* identities of findings: category|file|line|message
  MaxIter        \* settings.max_iter, the remediation ceiling

ASSUME MaxIterAssumption == MaxIter \in Nat

(***************************************************************************)
(* Severities, with the order the router and the synthesizer compare by.   *)
(***************************************************************************)
Severity == {"info", "low", "medium", "high", "critical"}

SEVERITY_ORDER ==
  [info |-> 0, low |-> 1, medium |-> 2, high |-> 3, critical |-> 4]

SPECIALISTS == {"SecurityAgent", "StyleAgent", "TestCoverageAgent"}

Decision == {"APPROVE", "REQUEST_CHANGES", "BLOCK_MERGE"}

(***************************************************************************)
(* What an agent reports, before the graph stamps it: fp is                *)
(* is_false_positive, fix says whether suggested_fix is a non-empty line.  *)
(***************************************************************************)
ReportedFinding ==
  [id : Fingerprints, severity : Severity, fp : BOOLEAN, fix : BOOLEAN]

Finding ==
  [agent : SPECIALISTS, iteration : Nat, id : Fingerprints,
   severity : Severity, fp : BOOLEAN, fix : BOOLEAN]

\* The graph, never the model, writes a finding's agent and iteration.
Stamp(r, a, it) ==
  [agent |-> a, iteration |-> it, id |-> r.id,
   severity |-> r.severity, fp |-> r.fp, fix |-> r.fix]

\* The answers that approve; the API sends "approve" or "reject", a caller of
\* resume_review any string, of which only membership here matters.
Approvals == {"approve", "approved", "override"}
HumanChoice == Approvals \cup {"reject"}

is_blocking(f) ==
  ~f.fp /\ SEVERITY_ORDER[f.severity] >= SEVERITY_ORDER["high"]

IsCritical(f) == ~f.fp /\ f.severity = "critical"

current_findings(fs, it) == {f \in fs : f.iteration = it}

blocking_findings(fs, it) == {f \in current_findings(fs, it) : is_blocking(f)}

Fixable(fs, it) == {f \in blocking_findings(fs, it) : f.fix}

-----------------------------------------------------------------------------
(***************************************************************************)
(* Routing (edges.py).                                                     *)
(***************************************************************************)
NodeOf ==
  [SecurityAgent |-> "security_agent", StyleAgent |-> "style_agent",
   TestCoverageAgent |-> "coverage_agent"]

SpecialistNodes == {"security_agent", "style_agent", "coverage_agent"}

AgentOf ==
  [security_agent |-> "SecurityAgent", style_agent |-> "StyleAgent",
   coverage_agent |-> "TestCoverageAgent"]

\* Mutant: the refusal is ignored.
RouteIgnoringGuardrail(status) == "coordinator"

route_after_guardrail(status) ==
  IF status = "blocked" THEN "blocked" ELSE "coordinator"

\* `delegated or all`, and security_agent is appended whatever was delegated.
fan_out_to_specialists(delegated) ==
  {NodeOf[a] : a \in IF delegated = {} THEN SPECIALISTS ELSE delegated}
    \cup {"security_agent"}

\* Mutant: the default is taken for the rule, and a delegated StyleAgent is not
\* run again.
FanOutStyleByDefaultOnly(delegated) ==
  {"security_agent"} \cup {n \in {"style_agent"} : delegated = {}}

fan_out_after_fix(delegated) ==
  {"security_agent"}
    \cup {n \in {"style_agent"} : "StyleAgent" \in delegated \/ delegated = {}}

\* Mutant: any blocking finding is put before a human.
RouteBlockingToHuman(fs, it) ==
  IF blocking_findings(fs, it) # {} THEN "hitl_approval" ELSE "finalize"

\* Mutant: a fixable finding is remediated before criticals are looked for.
RouteFixBeforeCritical(fs, it) ==
  IF it < MaxIter /\ Fixable(fs, it) # {} THEN "remediation_loop"
  ELSE IF \E f \in current_findings(fs, it) : IsCritical(f)
       THEN "hitl_approval" ELSE "finalize"

\* Mutants: the ceiling is one pass too low, or not there.
RouteWithin(fs, it, ceiling) ==
  IF \E f \in current_findings(fs, it) : IsCritical(f) THEN "hitl_approval"
  ELSE IF it < ceiling /\ Fixable(fs, it) # {}
       THEN "remediation_loop" ELSE "finalize"

RouteOnePassLess(fs, it) == RouteWithin(fs, it, MaxIter - 1)
RouteNoCeiling(fs, it) == RouteWithin(fs, it, it + 1)

route_after_synthesis(fs, it) ==
  IF \E f \in current_findings(fs, it) : IsCritical(f)
  THEN "hitl_approval"
  ELSE IF /\ \E f \in current_findings(fs, it) : is_blocking(f)  \* has_high
          /\ it < MaxIter
          /\ Fixable(fs, it) # {}
       THEN "remediation_loop"
       ELSE "finalize"

-----------------------------------------------------------------------------
(***************************************************************************)
(* The mechanical part of synthesis.                                       *)
(***************************************************************************)

\* dedupe(): of the findings with one fingerprint, the first in the list is
\* kept. List order is the model's within a report and the runtime's between
\* the parallel reports, so any one of them may be the first.
Kept(F) ==
  {K \in SUBSET F :
     \A f \in F : \E k \in K :
        k.id = f.id /\ \A j \in K : j.id = f.id => j = k}

\* Mutant: the floor has no rule for high findings.
ReconcileCriticalOnly(decision, F) ==
  IF \E f \in F : IsCritical(f) THEN "BLOCK_MERGE" ELSE decision

\* The safety floor under the model's decision.
Reconcile(decision, F) ==
  IF \E f \in F : IsCritical(f) THEN "BLOCK_MERGE"
  ELSE IF decision = "APPROVE" /\ \E f \in F : is_blocking(f)
       THEN "REQUEST_CHANGES"
       ELSE decision

\* Mutant: a degraded synthesis of nothing leaves the verdict unset.
MechanicalUnset(F) ==
  IF \E f \in F : IsCritical(f) THEN "BLOCK_MERGE"
  ELSE IF F # {} THEN "REQUEST_CHANGES" ELSE "unset"

\* The verdict of a degraded synthesis, derived from severities alone.
MechanicalDecision(F) ==
  IF \E f \in F : IsCritical(f) THEN "BLOCK_MERGE"
  ELSE IF F # {} THEN "REQUEST_CHANGES" ELSE "APPROVE"

=============================================================================
