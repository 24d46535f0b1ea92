-------------------------- MODULE MCOfflineReview --------------------------
(***************************************************************************)
(* A small instance: three lines in two files, a scripted review in which  *)
(* the style agent also asks for a tool it may not use and the coordinator *)
(* reads on until its steps are used up, and one that needs a human.       *)
(***************************************************************************)
EXTENDS OfflineReviewProps

MCLines == 1..3
MCFingerprints == 0..3

\* Everything repairable; repairable and not; nothing to repair in what is
\* shown; more findings of one tool than fit.
MCDeliveries ==
  {<<"leak", "leak", "bare">>, <<"fixture", "leak", "bare">>,
   <<"leak", "bare", "pii">>, <<"fixture", "key", "bare">>,
   <<"bare", "long", "long">>}

MCScript ==
  [review |->
     [CoordinatorAgent |-> <<"get_diff">>,
      SecurityAgent |-> <<"scan_secrets", "run_bandit", "conclude">>,
      StyleAgent |-> <<"run_ruff", "scan_secrets", "conclude">>,
      TestCoverageAgent |-> <<"run_pytest_coverage", "conclude">>],
   critical |->
     [CoordinatorAgent |-> <<"get_diff", "conclude">>,
      SecurityAgent |-> <<"run_bandit", "scan_secrets", "conclude">>,
      StyleAgent |-> << >>,
      TestCoverageAgent |-> << >>]]

\* The second line goes on beyond a limit of bandit's excerpts and of the diff,
\* and the test output begins in the middle of the first.
MCWithin ==
  [tool \in TOOLS |->
     [l \in MCLines |->
        IF l = 2 /\ tool \in {"run_bandit", "get_diff"}
        THEN {"user", "begin", "left"}
        ELSE IF l = 1 /\ tool = "run_pytest_coverage"
        THEN {"host", "rest", "end", "right"} ELSE Atoms]]

=============================================================================
