---------------------------- MODULE MCReviewGraph ----------------------------
(***************************************************************************)
(* Small instances of ReviewGraph: what each agent may report.             *)
(***************************************************************************)
EXTENDS ReviewRefinement

CONSTANTS f1, f2

MCFingerprints == {f1, f2}

R(i, sev, isFp, hasFix) == [id |-> i, severity |-> sev, fp |-> isFp, fix |-> hasFix]

\* The SecurityAgent finds nothing, a fixable high, a critical beside it, or a
\* high that shares its fingerprint with one triaged as a false positive.
SecurityReports ==
  { {},
    {R(f1, "high", FALSE, TRUE)},
    {R(f1, "high", FALSE, TRUE), R(f2, "critical", FALSE, TRUE)},
    {R(f1, "high", FALSE, TRUE), R(f1, "high", TRUE, FALSE)} }

\* The StyleAgent finds nothing or a fixable high, which alone starts the
\* remediation loop when no other agent was delegated; the coverage agent
\* never has a fix (its prompt demands suggested_fix null).
MCReports ==
  [SecurityAgent |-> SecurityReports,
   StyleAgent |-> {{}, {R(f1, "high", FALSE, TRUE)}},
   TestCoverageAgent |-> {{}, {R(f2, "high", FALSE, FALSE)}}]

\* A critical whose fingerprint is shared by a triaged finding.
MaskReports ==
  [SecurityAgent |-> {{R(f1, "critical", FALSE, TRUE), R(f1, "critical", TRUE, FALSE)},
                      {R(f1, "high", FALSE, TRUE)}},
   StyleAgent |-> {{}, {R(f2, "medium", FALSE, TRUE)}},
   TestCoverageAgent |-> {{}}]

=============================================================================
