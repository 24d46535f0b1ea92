--------------------------- MODULE AgentRunProps ---------------------------
(***************************************************************************)
(* What agent runs over one router must satisfy.                           *)
(***************************************************************************)
EXTENDS AgentRun

\* The runs that the cost cap stopped.
CapHit == {r \in Runs : "cost_cap" \in {call[r].error, run[r].error}}

\* The cap is looked at only when an answer has been paid for, by threads that
\* do not know of each other.  Still a process overspends it by no more than
\* one answer for each run that the cap has stopped ("An unbounded agent loop
\* must not be able to spend without limit", tests/test_resilience.py:153).
SpendBounded ==
  _total_cost_usd <= CostCap + MaxCost * Cardinality(CapHit)

\* However often calls are retried, fail over and are repaired, a run makes at
\* most one call per step, one for the report and one for its repair, and each
\* sends at most two requests per attempt.
RequestsBounded ==
  \A r \in Runs :
    /\ run[r].calls <= MaxSteps + 2
    /\ requests[r] <= 2 * RetryAttempts

\* A run ends with a report or with an error, never with both or neither, and
\* leaves no call behind; a run under way has neither.
OutcomeOk(r) ==
  IF run[r].at = "ended"
  THEN (run[r].report <=> run[r].error = NoError) /\ call[r] = Idle
  ELSE ~run[r].report /\ run[r].error = NoError

RunOutcome == \A r \in Runs : OutcomeOk(r)

\* Of an answer that names its model, the metrics say that a fallback was used
\* exactly when the primary failed in that attempt, for each complexity and
\* also where the requested model is the configured fallback.
FallbackReported ==
  \A r \in Runs :
    call[r].phase \in {"metering", "returned"} /\ call[r].actual # Unnamed =>
      (fallback_used(r) <=> call[r].first # NoError)

\* Once the process has spent more than the cap no run gets an answer again,
\* whichever review it belongs to.
CapSticks ==
  [][\A r \in Runs :
       _total_cost_usd > CostCap /\ call[r].phase # "returned" =>
         call'[r].phase # "returned"]_vars

\* Whatever providers and models do, every run ends; that the graph's nodes
\* always finish rests on this.
RunsEnd == <>(\A r \in Runs : run[r].at = "ended")

\* The calls a run may still make, the one it is at included: one per step, one
\* for the report and one for its repair.
CallsLeft(r) ==
  CASE run[r].at = "react"  -> MaxSteps - run[r].step + 3
    [] run[r].at = "final"  -> 2
    [] run[r].at = "repair" -> 1
    [] OTHER -> 0

\* What may still happen to the call it is at: two requests per attempt, the
\* metering, and the answer or the error.
CallSteps(r) ==
  LET attempts == 2 * (RetryAttempts - call[r].attempt)
  IN CASE call[r].phase = "idle"     -> 2 * RetryAttempts + 2
       [] call[r].phase = "primary"  -> attempts + 3
       [] call[r].phase = "fallback" -> attempts + 2
       [] call[r].phase = "metering" -> 1
       [] OTHER -> 0

Nearer(r) ==
  \/ CallsLeft(r)' \in 0..(CallsLeft(r) - 1)
  \/ /\ CallsLeft(r)' = CallsLeft(r)
     /\ CallSteps(r)' \in 0..(CallSteps(r) - 1)

\* There is no way round: whatever fails, is retried or is repaired, a step
\* brings one run nearer its end and takes no other run back.
RunsAdvance ==
  [][\E r \in Runs :
       /\ Nearer(r)
       /\ \A s \in Runs \ {r} : <<call[s], run[s]>>' = <<call[s], run[s]>>]_vars

-----------------------------------------------------------------------------
(***************************************************************************)
(* The inductive invariant.                                                *)
(***************************************************************************)

\* How many calls a run has made, from where it stands: one per step so far,
\* one for the report, one for the repair, less the one not made yet.
CallsOk(r) ==
  LET waiting == IF call[r].phase = "idle" THEN 0 ELSE 1
  IN  /\ run[r].at = "react"  => run[r].calls = run[r].step - 1 + waiting
      /\ run[r].at = "final"  => run[r].calls <= MaxSteps + waiting
      /\ run[r].at = "repair" => run[r].calls <= MaxSteps + 1 + waiting
      /\ run[r].at = "ended"  => run[r].calls <= MaxSteps + 2

CallsInv == \A r \in Runs : CallsOk(r)

\* What the phase of a call says about the rest of it.
PhaseOk(r) ==
  /\ requests[r] <= 2 * RetryAttempts
  /\ call[r].phase = "primary" => requests[r] <= 2 * call[r].attempt - 2
  /\ call[r].phase = "fallback" => requests[r] <= 2 * call[r].attempt - 1
  /\ call[r].phase = "idle" => call[r] = Idle
  /\ call[r].phase # "idle" => run[r].at # "ended"
  /\ call[r].phase \in {"primary", "fallback"} => call[r].attempt >= 1
  /\ call[r].phase \in {"primary", "fallback", "metering", "returned"} =>
       call[r].error = NoError
  /\ call[r].phase = "primary" => call[r].first = NoError
  /\ call[r].phase = "fallback" => call[r].first # NoError
  /\ call[r].phase = "raised" => call[r].error # NoError

PhaseInv == \A r \in Runs : PhaseOk(r)

IInv ==
  /\ TypeOK
  /\ PhaseInv
  /\ CallsInv
  /\ RunOutcome
  /\ SpendBounded
  /\ FallbackReported

=============================================================================
