--------------------------- MODULE OfflineReview ---------------------------
(***************************************************************************)
(* A review without a model: the scripted router (llm/stub.py) drives the  *)
(* ReAct loop of every agent (agents/base.py) against the real tools, the  *)
(* specialists in parallel, and the remediation loop repairs a working     *)
(* copy that the next pass scans, or a human is asked.  Metrics and spans  *)
(* are counted as they are written.  scripts/prove_persistence.py runs the *)
(* same review and kills it: a new process has a new router and redoes     *)
(* what its checkpoint does not hold.                                      *)
(***************************************************************************)
EXTENDS StubRouter

CONSTANTS
  Deliveries,  \* the contents of the working copy a review may start with
  MaxSteps,    \* settings.max_react_steps
  MaxFaults,   \* tools that may fail
  MaxKills     \* times the process may be killed

ASSUME MaxStepsAssumption == MaxSteps \in Nat \ {0}
ASSUME MaxFaultsAssumption == MaxFaults \in Nat
ASSUME MaxKillsAssumption == MaxKills \in Nat
ASSUME DeliveriesAssumption == Deliveries \subseteq [Lines -> Content]
ASSUME FingerprintsAssumption == Fingerprints = Lines \cup {0}

(***************************************************************************)
(* What scripted_review_router scripts: an agent whose report is reactive  *)
(* asks for the tool its report reads, and concludes when its script ends, *)
(* within its steps.                                                       *)
(***************************************************************************)
ASSUME ReviewScriptAssumption ==
  \A a \in DOMAIN Evidence :
    LET script == Script["review"][a]
    IN /\ Len(script) \in 1..MaxSteps
       /\ \A i \in 1..Len(script) : script[i] = "conclude" <=> i = Len(script)
       /\ \E i \in 1..Len(script) : script[i] = Evidence[a]

(***************************************************************************)
(* A result that fits its own limit fits an observation, and so does one   *)
(* whose longest list was cut from two to one.                             *)
(***************************************************************************)
ASSUME ObservationAssumption ==
  /\ MAX_TOOL_OUTPUT_CHARS <= MAX_OBSERVATION_CHARS
  /\ BaseSize + ItemSize + 2 <= MAX_OBSERVATION_CHARS

VARIABLES
  router,     \* the stub that answers for the model
  phase,      \* what the graph is at
  line,       \* the working copy
  iteration,
  findings,
  decision,   \* the verdict's decision
  answer,     \* hitl_decision
  at,         \* where each agent is in its loop
  shown,      \* what its report will be derived from
  heard,      \* what is left of raw values in the messages sent on its behalf
  context,    \* the context variable of metrics.current_agent, per thread
  cursor,     \* the router's place in each script
  log,        \* rows and spans this process has written for each agent
  faults,
  kills

graph == <<router, phase, line, iteration, decision, answer>>
loops == <<at, shown, heard>>
process == <<context, cursor, log>>
vars == <<graph, findings, loops, process, faults, kills>>

Undecided == "none"

Away == [pos |-> "off", step |-> 0, tool |-> "none", out |-> ErrorResult]
Starting == [Away EXCEPT !.pos = "react"]

NothingSeen == [lines |-> {}, whole |-> FALSE]

NoRows == [calls |-> 0, rows |-> 0, errors |-> 0, runs |-> 0, analyser |-> 0]

\* The agents of a superstep begin their runs, with new messages.
Schedule(S) ==
  /\ at' = [a \in Agents |-> IF a \in S THEN Starting ELSE Away]
  /\ shown' = [a \in Agents |-> NothingSeen]
  /\ heard' = [a \in Agents |-> {}]

Init ==
  /\ router \in Routers
  /\ phase = "plan"
  /\ line \in Deliveries
  /\ iteration = 0
  /\ findings = {}
  /\ decision = Undecided
  /\ answer = Undecided
  /\ at = [a \in Agents |-> IF a = "CoordinatorAgent" THEN Starting ELSE Away]
  /\ shown = [a \in Agents |-> NothingSeen]
  /\ heard = [a \in Agents |-> {}]
  /\ context = [a \in Agents |-> "none"]
  /\ cursor = [a \in Agents |-> 0]
  /\ log = [a \in Agents |-> NoRows]
  /\ faults = 0
  /\ kills = 0

-----------------------------------------------------------------------------
(***************************************************************************)
(* The loop of one agent.                                                  *)
(***************************************************************************)
Wrote(a, what) == [log EXCEPT ![a][what] = @ + 1]

\* The run ends with the structured report.
conclude(a) ==
  /\ at' = [at EXCEPT ![a].pos = "done"]
  /\ findings' = findings \cup
       {Stamp(r, a, iteration) : r \in ReportOf(router, a, shown[a].lines, line)}
  /\ UNCHANGED <<graph, shown, heard, context, log, faults, kills>>

budget_exhausted(a) ==
  /\ at[a].pos = "react"
  /\ at[a].step = MaxSteps
  /\ conclude(a)
  /\ UNCHANGED cursor

Asks(a, reply) ==
  /\ at[a].pos = "react"
  /\ at[a].step < MaxSteps
  /\ reply = invoke(router, a, cursor[a])
  /\ cursor' = [cursor EXCEPT ![a] = @ + 1]

no_further_actions(a) == Asks(a, "conclude") /\ conclude(a)

\* The refusal is a row, and the model is told.
dispatch_denied(a, tool) ==
  /\ Asks(a, tool)
  /\ tool \in TOOLS \ allowed_tools(a)
  /\ at' = [at EXCEPT ![a].step = @ + 1]
  /\ log' = [log EXCEPT ![a].calls = @ + 1, ![a].rows = @ + 1]
  /\ UNCHANGED <<graph, findings, shown, heard, context, faults, kills>>

\* Mutant: the current agent is a variable of the process.
EnterForAll(a) == [b \in Agents |-> a]

\* current_agent: set in the thread of this agent only.
current_agent(a) == [context EXCEPT ![a] = a]

dispatch(a, tool) ==
  /\ Asks(a, tool)
  /\ tool \in allowed_tools(a)
  /\ at' = [at EXCEPT ![a].pos = "tool", ![a].step = @ + 1, ![a].tool = tool]
  /\ context' = current_agent(a)
  /\ log' = Wrote(a, "calls")
  /\ UNCHANGED <<graph, findings, shown, heard, faults, kills>>

\* An analyser writes a row of its own, under the name the context gives: runs
\* counts those of an agent's analysers, analyser those under its name.
Analysed(a) ==
  IF at[a].tool \notin Analysers THEN log
  ELSE [b \in Agents |->
          [log[b] EXCEPT !.runs = @ + (IF b = a THEN 1 ELSE 0),
                         !.analyser = @ + (IF b = context[a] THEN 1 ELSE 0)]]

Returns(a, payload) ==
  at' = [at EXCEPT ![a] = [@ EXCEPT !.pos = "trim", !.out = payload]]

run_tool(a) ==
  /\ at[a].pos = "tool"
  /\ LET tool == at[a].tool
     IN Returns(a, Result(tool, Cardinality(FindingsOf(tool, line))))
  /\ log' = Analysed(a)
  /\ UNCHANGED <<graph, findings, shown, heard, context, cursor, faults, kills>>

\* An analyser that was killed by its limit has written nothing.
run_tool_times_out(a) ==
  /\ at[a].pos = "tool"
  /\ at[a].tool \in Analysers
  /\ faults < MaxFaults
  /\ faults' = faults + 1
  /\ Returns(a, EmptyResult)
  /\ log' = Analysed(a)
  /\ UNCHANGED <<graph, findings, shown, heard, context, cursor, kills>>

\* What could not be parsed is quoted, and nothing is found in it.
run_tool_unreadable(a) ==
  /\ at[a].pos = "tool"
  /\ at[a].tool \in Analysers
  /\ faults < MaxFaults
  /\ faults' = faults + 1
  /\ Returns(a, UnreadResult)
  /\ log' = Analysed(a)
  /\ UNCHANGED <<graph, findings, shown, heard, context, cursor, kills>>

\* Without tests nothing is run, and only dispatch() leaves a row.
run_tool_without_tests(a) ==
  /\ at[a].pos = "tool"
  /\ at[a].tool = "run_pytest_coverage"
  /\ faults < MaxFaults
  /\ faults' = faults + 1
  /\ Returns(a, EmptyResult)
  /\ UNCHANGED <<graph, findings, shown, heard, process, kills>>

\* SandboxViolation, TypeError or ValueError becomes the result.
run_tool_refuses(a) ==
  /\ at[a].pos = "tool"
  /\ faults < MaxFaults
  /\ faults' = faults + 1
  /\ Returns(a, ErrorResult)
  /\ UNCHANGED <<graph, findings, shown, heard, process, kills>>

\* Any other exception leaves dispatch() without a row, and marks its span;
\* the agent's loop makes an observation of it.
run_tool_raises(a) ==
  /\ at[a].pos = "tool"
  /\ faults < MaxFaults
  /\ faults' = faults + 1
  /\ at' = [at EXCEPT ![a].pos = "react"]
  /\ context' = [context EXCEPT ![a] = "none"]
  /\ log' = Wrote(a, "errors")
  /\ UNCHANGED <<graph, findings, shown, heard, cursor, kills>>

\* _json(): the excerpts at once, then a quarter of the longest list a time,
\* until the result fits, a list is down to one or there is none.
AtItsLast(p) == ~p.excerpt /\ (p.last \/ p[Longest(p)] = 0)

shrink(a) ==
  /\ at[a].pos = "trim"
  /\ Oversize(at[a].out)
  /\ ~AtItsLast(at[a].out)
  /\ at' = [at EXCEPT ![a].out = IF @.excerpt THEN drop_excerpts(@)
                                 ELSE shortened(@)]
  /\ UNCHANGED <<graph, findings, shown, heard, process, faults, kills>>

FirstOf(S, n) == {l \in S : Cardinality({k \in S : k < l}) < n}

\* The observation is cut at its own limit, which leaves no JSON to read.
Readable(p) == Size(p) <= MAX_OBSERVATION_CHARS

\* What the reactive report will find in the messages: the last result of its
\* tool that names the tool and can be read.
Observed(a) ==
  LET p == at[a].out
      all == FindingsOf(at[a].tool, line)
  IN IF /\ a \in DOMAIN Evidence
        /\ at[a].tool = Evidence[a]
        /\ p.named
        /\ Readable(p)
     THEN [lines |-> FirstOf(all, p.items), whole |-> p.items = Cardinality(all)]
     ELSE shown[a]

\* The result is masked, the row is written and the agent reads on.
observe(a) ==
  /\ at[a].pos = "trim"
  /\ Oversize(at[a].out) => AtItsLast(at[a].out)
  /\ shown' = [shown EXCEPT ![a] = Observed(a)]
  /\ heard' = [heard EXCEPT ![a] = @ \cup
                 {p \in redact(QuotedBy(at[a].tool, line)) : p.raw # {}}]
  /\ log' = Wrote(a, "rows")
  /\ context' = [context EXCEPT ![a] = "none"]
  /\ at' = [at EXCEPT ![a] = [@ EXCEPT !.pos = "react", !.tool = "none",
                                       !.out = ErrorResult]]
  /\ UNCHANGED <<graph, findings, cursor, faults, kills>>

-----------------------------------------------------------------------------
(***************************************************************************)
(* The graph around the agents.                                            *)
(***************************************************************************)
Ready(p) == phase = p /\ \A a \in Agents : at[a].pos \in {"off", "done"}

coordinator_node ==
  /\ Ready("plan")
  /\ phase' = "work"
  /\ Schedule({AgentOf[n] : n \in fan_out_to_specialists(Delegated[router])})
  /\ UNCHANGED <<router, line, iteration, findings, decision, answer, process,
                 faults, kills>>

\* Where each route leads: what finalize does is not seen here.
AfterRoute == [hitl_approval |-> "ask", remediation_loop |-> "fix",
            finalize |-> "report"]

synthesizer_node ==
  /\ Ready("work")
  /\ LET F == current_findings(findings, iteration)
     IN decision' = Reconcile(synthesis(router, F), F)
  /\ phase' = AfterRoute[route_after_synthesis(findings, iteration)]
  /\ UNCHANGED <<router, line, iteration, findings, answer, loops, process,
                 faults, kills>>

Named == {f.id : f \in Fixable(findings, iteration)}

\* The working copy with the lines of S replaced by their fixes.
Patched(S) == [l \in Lines |-> IF l \in S THEN "fixed" ELSE line[l]]

NextPass ==
  /\ iteration' = iteration + 1
  /\ phase' = "work"
  /\ Schedule({AgentOf[n] : n \in fan_out_after_fix(Delegated[router])})

\* Mutant: a fix of two lines, written whole, moves what is below it, and the
\* next fix is written where the scan said.
FixInserting ==
  /\ phase = "fix"
  /\ line' = Patched({l + Cardinality({k \in Named : k < l}) : l \in Named})
  /\ NextPass
  /\ UNCHANGED <<router, findings, decision, answer, process, faults, kills>>

\* Mutant: the patched lines are not written back.
FixUnwritten ==
  /\ phase = "fix"
  /\ NextPass
  /\ UNCHANGED <<router, line, findings, decision, answer, process, faults, kills>>

\* remediation_loop, then apply_fix, one line for each fixable finding.
apply_fix ==
  /\ phase = "fix"
  /\ line' = Patched(Named)
  /\ NextPass
  /\ UNCHANGED <<router, findings, decision, answer, process, faults, kills>>

\* An exception ends the process of an offline review: read_text() meets a file
\* that is not UTF-8, or write_text() fails, after some of the fixes.
apply_fix_raises ==
  /\ phase = "fix"
  /\ \E written \in SUBSET Named : written # Named /\ line' = Patched(written)
  /\ phase' = "aborted"
  /\ UNCHANGED <<router, iteration, findings, decision, answer, loops, process,
                 faults, kills>>

\* What is left of a review once its agents have finished.
Goes(from, to) ==
  /\ phase = from
  /\ phase' = to
  /\ UNCHANGED <<router, line, iteration, findings, loops, process, faults, kills>>

\* The graph is suspended until it is resumed with an answer.
hitl_approval == Goes("ask", "waiting") /\ UNCHANGED <<decision, answer>>

resume_review(choice) ==
  /\ Goes("waiting", "decide")
  /\ answer' = choice
  /\ UNCHANGED decision

\* Mutant: the verdict proposed to the human is what is reported.
DecideByVerdict == Goes("decide", "report") /\ UNCHANGED <<decision, answer>>

apply_decision ==
  /\ Goes("decide", "report")
  /\ decision' = IF answer \in Approvals THEN "APPROVE" ELSE "BLOCK_MERGE"
  /\ UNCHANGED answer

persist_report == Goes("report", "end") /\ UNCHANGED <<decision, answer>>

\* mkdir() or write_text() fails.
persist_report_raises ==
  Goes("report", "aborted") /\ UNCHANGED <<decision, answer>>

node_raises == apply_fix_raises \/ persist_report_raises

-----------------------------------------------------------------------------
(***************************************************************************)
(* SIGKILL, and another process with a router of its own.  A specialist    *)
(* that had finished may or may not have its writes in the checkpoint; an  *)
(* interrupted one starts over, on a working copy that keeps what apply_fix*)
(* had written.                                                            *)
(***************************************************************************)
Kill ==
  /\ phase \notin {"end", "aborted"}
  /\ kills < MaxKills
  /\ kills' = kills + 1
  /\ cursor' = [a \in Agents |-> 0]
  /\ context' = [a \in Agents |-> "none"]
  /\ log' = [a \in Agents |-> NoRows]
  /\ UNCHANGED <<router, phase, iteration, decision, answer, faults>>

killed_in_a_pass ==
  /\ phase \in {"plan", "work"}
  /\ Kill
  /\ \E kept \in SUBSET {a \in Agents : at[a].pos = "done"} :
       LET again == {a \in Agents : at[a].pos # "off"} \ kept
       IN /\ at' = [a \in Agents |-> IF a \in again THEN Starting ELSE at[a]]
          /\ shown' = [a \in Agents |-> IF a \in again THEN NothingSeen
                                        ELSE shown[a]]
          /\ heard' = [a \in Agents |-> IF a \in again THEN {} ELSE heard[a]]
          /\ findings' = {f \in findings :
                            f.iteration = iteration => f.agent \notin again}
  /\ UNCHANGED line

killed_in_apply_fix ==
  /\ phase = "fix"
  /\ Kill
  /\ \E written \in SUBSET Named : line' = Patched(written)
  /\ UNCHANGED <<findings, loops>>

\* Nothing of an agent's is redone; a review that waits is found waiting.
killed_after_the_passes ==
  /\ phase \in {"ask", "waiting", "decide", "report"}
  /\ Kill
  /\ UNCHANGED <<line, findings, loops>>

-----------------------------------------------------------------------------
Agent(a) ==
  \/ budget_exhausted(a) \/ no_further_actions(a)
  \/ \E tool \in TOOLS : dispatch_denied(a, tool) \/ dispatch(a, tool)
  \/ run_tool(a) \/ run_tool_times_out(a) \/ run_tool_unreadable(a)
  \/ run_tool_without_tests(a) \/ run_tool_refuses(a) \/ run_tool_raises(a)
  \/ shrink(a) \/ observe(a)

Graph ==
  \/ coordinator_node \/ synthesizer_node \/ apply_fix
  \/ hitl_approval \/ apply_decision \/ persist_report
  \/ node_raises

Human == \E choice \in HumanChoice : resume_review(choice)

Killed == killed_in_a_pass \/ killed_in_apply_fix \/ killed_after_the_passes

Next == (\E a \in Agents : Agent(a)) \/ Graph \/ Human \/ Killed

Spec == Init /\ [][Next]_vars

\* Every thread of the pool runs, and so does the graph; analysers end, for
\* they run under a time limit.  A human may never answer.
FairSpec == Spec /\ WF_vars(Graph) /\ \A a \in Agents : WF_vars(Agent(a))

=============================================================================
