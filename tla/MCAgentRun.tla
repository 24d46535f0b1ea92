----------------------------- MODULE MCAgentRun -----------------------------
(***************************************************************************)
(* Small instances of AgentRun in the default configuration, where the     *)
(* agents, the synthesis and the fallback share one model, and what the    *)
(* repository says of the cap and the retries and the code does not keep.  *)
(***************************************************************************)
EXTENDS AgentRunProps, FiniteSetsExt

CONSTANTS coordinator, synthesizer, small, large

MCRuns == {coordinator, synthesizer}

MCComplexity == [r \in MCRuns |-> IF r = synthesizer THEN "complex" ELSE "cheap"]

MCSynthesis == {synthesizer}

\* The two runs belong to two reviews.
Review == [r \in MCRuns |-> r]

\* router.py:59 "Raised when a single review run exceeds its configured USD
\* budget.": the cap stops a run only if the answers given to its own review
\* cost more than the cap.
CapIsPerReview ==
  \A r \in CapHit :
    MapThenSumSet(LAMBDA s : spent[s], {s \in Runs : Review[s] = Review[r]})
      > CostCap

\* router.py:10 "tenacity exponential backoff retries transient failures when
\* even the fallback fails.": a call that gives up with attempts left did not
\* have its fallback fail with a transient fault.
TransientRetried ==
  \A r \in Runs :
    call[r].phase = "raised" /\ call[r].attempt < RetryAttempts =>
      call[r].last # "transient"

=============================================================================
