----------------------------- MODULE StubRouter -----------------------------
(***************************************************************************)
(* The deterministic stand-in for the model router (llm/stub.py): scripts  *)
(* that cycle, and the reports its reactive replies derive from what the   *)
(* tools returned.                                                         *)
(***************************************************************************)
EXTENDS ReviewState, ToolRegistry

CONSTANT Script   \* Script[r][a]: the replies of router r to "{a}.react"

\* scripted_review_router drives a whole review, scripted_critical_router one
\* that a human has to end.
Routers == {"review", "critical"}

\* A reply asks for a tool or concludes.
Reply == TOOLS \cup {"conclude"}

ASSUME ScriptAssumption == Script \in [Routers -> [Agents -> Seq(Reply)]]

\* Mutant: the last reply is repeated when the script is used up.
InvokeOnce(r, a, position) ==
  LET script == Script[r][a]
  IN IF script = << >> THEN "conclude"
     ELSE IF position < Len(script) THEN script[position + 1]
          ELSE script[Len(script)]

\* Without a script, the default reply concludes.
invoke(r, a, position) ==
  LET script == Script[r][a]
  IN IF script = << >> THEN "conclude"
     ELSE script[(position % Len(script)) + 1]

\* The plan that is made after the coordinator's script.
Delegated == [review |-> SPECIALISTS, critical |-> {"SecurityAgent"}]

-----------------------------------------------------------------------------
(***************************************************************************)
(* The reports.  A finding is known by its line; 0 is what a report        *)
(* carries whatever the tools returned.                                    *)
(***************************************************************************)
Found(l, severity, fp, fix) ==
  [id |-> l, severity |-> severity, fp |-> fp, fix |-> fix]

\* The tool whose last result a reactive report is derived from.
Evidence == [SecurityAgent |-> "scan_secrets", StyleAgent |-> "run_ruff"]

\* Only an identifier before the value gives a replacement line, and a key
\* block has none.
security_report_from_tools(shown, text) ==
  {Found(l, IF text[l] = "fixture" THEN "low"
            ELSE IF text[l] = "pii" THEN "medium" ELSE "high",
         text[l] = "fixture",
         text[l] \in {"leak", "pii"}) : l \in shown}

\* RANK: of the rules that occur here only the bare except has a fix.
style_report_from_tools(shown, text) ==
  {Found(l, IF text[l] = "bare" THEN "high" ELSE "info",
         FALSE, text[l] = "bare") : l \in shown}

coverage_report == {Found(0, "medium", FALSE, FALSE)}

\* Of the three criticals, none with a fix, one stands for all.
critical_report == {Found(0, "critical", FALSE, FALSE)}

ReportOf(r, a, shown, text) ==
  IF r = "critical" THEN IF a = "SecurityAgent" THEN critical_report ELSE {}
  ELSE CASE a = "SecurityAgent" -> security_report_from_tools(shown, text)
         [] a = "StyleAgent" -> style_report_from_tools(shown, text)
         [] a = "TestCoverageAgent" -> coverage_report
         [] OTHER -> {}

\* Mutant: what was triaged as a false positive is all that is left out.
SynthesisOfCriticals(F) ==
  IF \E f \in F : IsCritical(f) THEN "BLOCK_MERGE" ELSE "APPROVE"

\* The verdict follows the worst finding that was not triaged away.
synthesis_from_findings(F) ==
  LET genuine == {SEVERITY_ORDER[f.severity] : f \in {g \in F : ~g.fp}}
  IN IF SEVERITY_ORDER["critical"] \in genuine THEN "BLOCK_MERGE"
     ELSE IF \E s \in genuine : s >= SEVERITY_ORDER["medium"]
          THEN "REQUEST_CHANGES" ELSE "APPROVE"

\* The critical router's verdict is fixed.
synthesis(r, F) ==
  IF r = "critical" THEN "BLOCK_MERGE" ELSE synthesis_from_findings(F)

=============================================================================
