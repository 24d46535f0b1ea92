------------------------ MODULE OfflineReviewProofs ------------------------
(***************************************************************************)
(* Proofs about the offline review, for any lines and any contents of      *)
(* them, any scripts, limits and budgets, any number of failing tools and  *)
(* of kills.                                                               *)
(***************************************************************************)
EXTENDS OfflineReviewProps, FiniteSetTheorems, WellFoundedInduction, TLAPS

(***************************************************************************)
(* Redaction.                                                              *)
(***************************************************************************)

\* A mask takes its value from a piece, if it stands there whole, and nothing
\* else.
LEMMA ReplacedFacts ==
  ASSUME NEW p \in Piece, NEW value \in Detected
  PROVE  LET r == Replaced(p, value)
         IN /\ r \in Piece /\ r.cut = p.cut /\ r.raw \subseteq p.raw
            /\ ~(value \subseteq r.raw)
            /\ r.raw = IF value \subseteq p.raw THEN p.raw \ value ELSE p.raw
<1>1. value # {}
  BY DEF Detected, Address, Password, PrivateKey, TestPassword
<1>2. QED
  BY <1>1 DEF Replaced, Piece

\* What is quoted is whole, or cut.
LEMMA QuotedPieces ==
  ASSUME NEW tool, NEW text \in [Lines -> Content],
         NEW p \in QuotedBy(tool, text)
  PROVE  /\ p \in Piece
         /\ ~p.cut => p.raw \in {{}, Password, Address, PrivateKey, TestPassword}
<1>1. PICK l \in Lines, within \in SUBSET Atoms : p = Cut(RawOf(text[l]), within)
  <2>1. FindingsOf(tool, text) \subseteq Lines
    BY DEF FindingsOf
  <2>2. tool \in TOOLS => \A l \in Lines : Within[tool][l] \in SUBSET Atoms
    BY WithinAssumption
  <2>3. Atoms \in SUBSET Atoms
    OBVIOUS
  <2>4. QED
    BY <2>1, <2>2, <2>3 DEF QuotedBy, TOOLS
<1>2. RawOf(text[l]) \in {{}, Password, Address, PrivateKey, TestPassword}
  BY <1>1 DEF RawOf
<1>3. p.cut = (~(RawOf(text[l]) \subseteq within)) /\ p.raw = RawOf(text[l]) \cap within
  BY <1>1 DEF Cut
<1>4. p \in Piece
  BY <1>1 DEF Cut, Piece
<1>5. QED
  BY <1>2, <1>3, <1>4

\* Whatever a tool quotes, and however values overlap, redaction leaves no
\* value whole, and nothing of what was not cut before.
LEMMA RedactLeavesFragments ==
  ASSUME NEW tool, NEW text \in [Lines -> Content],
         NEW p \in redact(QuotedBy(tool, text))
  PROVE  /\ p \in Piece
         /\ \A value \in Detected : ~(value \subseteq p.raw)
         /\ p.raw # {} => p.cut
<1>a. /\ Password \in Detected /\ Address \in Detected
      /\ TestPassword \in Detected /\ PrivateKey \in Detected
  BY DEF Detected
<1>1. PICK q \in QuotedBy(tool, text) :
        p = Replaced(Replaced(Replaced(Replaced(q, Password), Address),
                              TestPassword), PrivateKey)
  BY DEF redact, MaskedApart, Masked
<1> DEFINE q1 == Replaced(q, Password)
           q2 == Replaced(q1, Address)
           q3 == Replaced(q2, TestPassword)
<1>2. q \in Piece /\ (~q.cut => q.raw \in {{}, Password, Address, PrivateKey, TestPassword})
  BY QuotedPieces
<1>3. /\ q1 \in Piece /\ q1.cut = q.cut /\ ~(Password \subseteq q1.raw)
      /\ q1.raw = IF Password \subseteq q.raw THEN q.raw \ Password ELSE q.raw
  BY <1>2, <1>a, ReplacedFacts
<1>4. /\ q2 \in Piece /\ q2.cut = q.cut /\ ~(Address \subseteq q2.raw)
      /\ q2.raw = IF Address \subseteq q1.raw THEN q1.raw \ Address ELSE q1.raw
  BY <1>3, <1>a, ReplacedFacts
<1>5. /\ q3 \in Piece /\ q3.cut = q.cut /\ ~(TestPassword \subseteq q3.raw)
      /\ q3.raw = IF TestPassword \subseteq q2.raw THEN q2.raw \ TestPassword ELSE q2.raw
  BY <1>4, <1>a, ReplacedFacts
<1>6. /\ p \in Piece /\ p.cut = q.cut /\ ~(PrivateKey \subseteq p.raw)
      /\ p.raw = IF PrivateKey \subseteq q3.raw THEN q3.raw \ PrivateKey ELSE q3.raw
  BY <1>1, <1>5, <1>a, ReplacedFacts
<1>7. \A value \in Detected : ~(value \subseteq p.raw)
  <2>1. q2.raw \subseteq q1.raw
    BY <1>4
  <2>2. q3.raw \subseteq q2.raw
    BY <1>5
  <2>3. p.raw \subseteq q3.raw
    BY <1>6
  <2>4. ~(Password \subseteq p.raw)
    BY <1>3, <2>1, <2>2, <2>3
  <2>5. ~(Address \subseteq p.raw)
    BY <1>4, <2>2, <2>3
  <2>6. ~(TestPassword \subseteq p.raw)
    BY <1>5, <2>3
  <2>7. QED
    BY <1>6, <2>4, <2>5, <2>6 DEF Detected
<1>8. ASSUME ~q.cut PROVE p.raw = {}
  <2>1. q1.raw \in {{}, Address, PrivateKey, TestPassword}
    BY <1>2, <1>3, <1>8 DEF Password, Address, PrivateKey, TestPassword
  <2>2. q2.raw \in {{}, PrivateKey, TestPassword}
    BY <1>4, <2>1 DEF Address, PrivateKey, TestPassword
  <2>3. q3.raw \in {{}, PrivateKey}
    BY <1>5, <2>2 DEF PrivateKey, TestPassword
  <2>4. QED
    BY <1>6, <2>3
<1>9. QED
  BY <1>6, <1>7, <1>8 DEF Piece

(***************************************************************************)
(* Types.                                                                  *)
(***************************************************************************)

\* The place of an agent in its loop.
AgentAt ==
  [pos : {"off", "react", "tool", "trim", "done"}, step : 0..MaxSteps,
   tool : TOOLS \cup {"none"}, out : Payload]

\* A fixed report of every result, whole or cut, is a payload.
LEMMA PayloadTypes ==
  /\ ErrorResult \in Payload /\ EmptyResult \in Payload /\ UnreadResult \in Payload
  /\ \A tool, n : n \in Nat => Result(tool, n) \in Payload
  /\ \A p \in Payload : drop_excerpts(p) \in Payload /\ shortened(p) \in Payload
<1>1. ErrorResult \in Payload /\ EmptyResult \in Payload /\ UnreadResult \in Payload
  BY DEF ErrorResult, EmptyResult, UnreadResult, Payload
<1>2. ASSUME NEW tool, NEW n \in Nat PROVE Result(tool, n) \in Payload
  <2>1. Files \in Nat /\ DiffSize \in Nat
    BY SizesAssumption
  <2>2. QED
    BY <2>1 DEF Result, Payload
<1>3. ASSUME NEW p \in Payload PROVE drop_excerpts(p) \in Payload
  BY DEF drop_excerpts, Payload
<1>4. ASSUME NEW p \in Payload PROVE shortened(p) \in Payload
  <2>1. p.items \in Nat /\ p.files \in Nat
    BY DEF Payload
  <2>2. \A n \in Nat : keep(n) \in Nat
    BY DEF keep, AtLeastOne
  <2>3. CASE Longest(p) = "items"
    BY <2>1, <2>2, <2>3 DEF shortened, Payload
  <2>4. CASE Longest(p) = "files"
    BY <2>1, <2>2, <2>4 DEF shortened, Payload
  <2>5. QED
    BY <2>3, <2>4 DEF Longest
<1>5. QED
  BY <1>1, <1>2, <1>3, <1>4

\* An agent waits and starts in its type.
LEMMA AwayTypes == Away \in AgentAt /\ Starting \in AgentAt
<1>1. 0 \in 0..MaxSteps
  BY MaxStepsAssumption
<1>2. QED
  BY <1>1, PayloadTypes DEF Away, Starting, AgentAt

\* The tools an agent may call exist, and what they find can be counted.
LEMMA ToolTypes ==
  /\ \A a \in Agents : allowed_tools(a) \subseteq TOOLS
  /\ \A tool, text : /\ FindingsOf(tool, text) \subseteq Lines
                     /\ Cardinality(FindingsOf(tool, text)) \in Nat
<1>1. \A a \in Agents : allowed_tools(a) \subseteq TOOLS
  BY DEF Agents, allowed_tools, AGENT_TOOLS, TOOLS
<1>2. ASSUME NEW tool, NEW text
      PROVE  /\ FindingsOf(tool, text) \subseteq Lines
             /\ Cardinality(FindingsOf(tool, text)) \in Nat
  <2>1. FindingsOf(tool, text) \subseteq Lines
    BY DEF FindingsOf
  <2>2. QED
    BY <2>1, LinesAssumption, FS_Subset, FS_CardinalityType
<1>3. QED
  BY <1>1, <1>2

\* What an agent reports are findings of its own, whichever router answers;
\* the coordinator reports none.
LEMMA ReportTypes ==
  ASSUME NEW stub \in Routers, NEW a \in Agents, NEW S \in SUBSET Lines,
         NEW it \in Nat, NEW r \in ReportOf(stub, a, S, line)
  PROVE  /\ Stamp(r, a, it) \in Finding
         /\ Stamp(r, a, it).iteration = it
<1>1. Lines \cup {0} = Fingerprints
  BY FingerprintsAssumption
<1>2. CASE stub = "critical"
  <2>1. a = "SecurityAgent" /\ r = Found(0, "critical", FALSE, FALSE)
    BY <1>2 DEF ReportOf, critical_report
  <2>2. QED
    BY <1>1, <2>1 DEF Found, Severity, Stamp, Finding, SPECIALISTS
<1>3. CASE stub = "review" /\ a = "SecurityAgent"
  <2>1. PICK l \in S :
          r = Found(l, IF line[l] = "fixture" THEN "low"
                       ELSE IF line[l] = "pii" THEN "medium" ELSE "high",
                    line[l] = "fixture", line[l] \in {"leak", "pii"})
    BY <1>3 DEF ReportOf, security_report_from_tools
  <2>2. r.severity \in Severity /\ r.id \in Fingerprints
        /\ r.fp \in BOOLEAN /\ r.fix \in BOOLEAN
    BY <2>1, <1>1 DEF Found, Severity
  <2>3. QED
    BY <1>3, <2>2 DEF Stamp, Finding, SPECIALISTS
<1>4. CASE stub = "review" /\ a = "StyleAgent"
  <2>1. PICK l \in S :
          r = Found(l, IF line[l] = "bare" THEN "high" ELSE "info",
                    FALSE, line[l] = "bare")
    BY <1>4 DEF ReportOf, style_report_from_tools
  <2>2. r.severity \in Severity /\ r.id \in Fingerprints
        /\ r.fp \in BOOLEAN /\ r.fix \in BOOLEAN
    BY <2>1, <1>1 DEF Found, Severity
  <2>3. QED
    BY <1>4, <2>2 DEF Stamp, Finding, SPECIALISTS
<1>5. CASE stub = "review" /\ a = "TestCoverageAgent"
  <2>1. r = Found(0, "medium", FALSE, FALSE)
    BY <1>5 DEF ReportOf, coverage_report
  <2>2. QED
    BY <1>1, <1>5, <2>1 DEF Found, Severity, Stamp, Finding, SPECIALISTS
<1>6. CASE stub = "review" /\ a = "CoordinatorAgent"
  BY <1>6 DEF ReportOf
<1>7. QED
  BY <1>2, <1>3, <1>4, <1>5, <1>6 DEF Agents, AGENT_TOOLS, Routers

ShownTo == [lines : SUBSET Lines, whole : BOOLEAN]

LogRow == [calls : Nat, rows : Nat, errors : Nat, runs : Nat, analyser : Nat]

\* The beginning of a superstep keeps the types.
LEMMA ScheduleTypes ==
  ASSUME NEW S, Schedule(S)
  PROVE  /\ at' \in [Agents -> AgentAt]
         /\ shown' \in [Agents -> ShownTo]
         /\ heard' \in [Agents -> SUBSET Piece]
BY AwayTypes DEF Schedule, NothingSeen, ShownTo

\* One more row, or one more error, keeps the type of the log.
LEMMA WroteTypes ==
  ASSUME log \in [Agents -> LogRow], NEW a \in Agents,
         NEW what \in {"calls", "rows", "errors"}
  PROVE  Wrote(a, what) \in [Agents -> LogRow]
BY DEF Wrote, LogRow

\* So does the row of an analyser.
LEMMA AnalysedTypes ==
  ASSUME log \in [Agents -> LogRow], NEW a \in Agents
  PROVE  Analysed(a) \in [Agents -> LogRow]
<1>1. CASE at[a].tool \notin Analysers
  BY <1>1 DEF Analysed
<1>2. CASE at[a].tool \in Analysers
  <2>1. ASSUME NEW b \in Agents
        PROVE  [log[b] EXCEPT !.runs = @ + (IF b = a THEN 1 ELSE 0),
                              !.analyser = @ + (IF b = context[a] THEN 1 ELSE 0)]
                 \in LogRow
    <3>1. log[b] \in LogRow
      OBVIOUS
    <3>2. (IF b = a THEN 1 ELSE 0) \in Nat
      OBVIOUS
    <3>3. (IF b = context[a] THEN 1 ELSE 0) \in Nat
      OBVIOUS
    <3>4. ASSUME NEW w \in LogRow, NEW u \in Nat, NEW v \in Nat
          PROVE  [w EXCEPT !.runs = @ + u, !.analyser = @ + v] \in LogRow
      <4>1. w.runs + u \in Nat /\ w.analyser + v \in Nat
        BY DEF LogRow
      <4>2. QED
        BY <4>1 DEF LogRow
    <3>5. QED
      BY <3>1, <3>2, <3>3, <3>4
  <2>2. QED
    BY <1>2, <2>1 DEF Analysed
<1>3. QED
  BY <1>1, <1>2

\* What an agent is shown are lines, and whether it is all of them.
LEMMA ObservedTypes ==
  ASSUME shown \in [Agents -> ShownTo], NEW a \in Agents
  PROVE  Observed(a) \in ShownTo
<1> DEFINE all == FindingsOf(at[a].tool, line)
           n == at[a].out.items
<1>1. FirstOf(all, n) \in SUBSET Lines
  BY ToolTypes DEF FirstOf
<1>2. [lines |-> FirstOf(all, n), whole |-> n = Cardinality(all)] \in ShownTo
  BY <1>1 DEF ShownTo
<1>3. \/ Observed(a) = [lines |-> FirstOf(all, n), whole |-> n = Cardinality(all)]
      \/ Observed(a) = shown[a]
  BY DEF Observed
<1>4. QED
  BY <1>2, <1>3

\* The conclusion of a run keeps the types.
LEMMA ConcludeTypes ==
  ASSUME OfflineTypeOK, NEW a \in Agents, conclude(a)
  PROVE  at' \in [Agents -> AgentAt] /\ findings' \subseteq Finding
<1>1. at' \in [Agents -> AgentAt]
  <2>1. at \in [Agents -> AgentAt]
    BY DEF OfflineTypeOK, AgentAt
  <2>2. at' = [at EXCEPT ![a].pos = "done"]
    BY DEF conclude
  <2>3. [at[a] EXCEPT !.pos = "done"] \in AgentAt
    BY <2>1 DEF AgentAt
  <2>4. QED
    BY <2>1, <2>2, <2>3
<1>2. shown[a].lines \in SUBSET Lines /\ iteration \in Nat
  BY MaxIterAssumption DEF OfflineTypeOK
<1>3. router \in Routers
  BY DEF OfflineTypeOK
<1>4. \A r \in ReportOf(router, a, shown[a].lines, line) :
        Stamp(r, a, iteration) \in Finding
  BY <1>2, <1>3, ReportTypes
<1>5. findings' \subseteq Finding
  BY <1>4 DEF OfflineTypeOK, conclude
<1>6. QED
  BY <1>1, <1>5

(***************************************************************************)
(* The steps of an agent, by what they do to its place in the loop.        *)
(***************************************************************************)

\* A call has ended with a result, good or bad.
Returned(a) ==
  /\ at[a].pos = "tool"
  /\ \E p \in Payload : Returns(a, p)
  /\ log' \in {log, Analysed(a)}
  /\ \/ faults' = faults
     \/ faults < MaxFaults /\ faults' = faults + 1
  /\ UNCHANGED <<graph, findings, shown, heard, context, cursor, kills>>

\* Every exit of a tool but an exception of another kind is a result.
LEMMA ToolReturns ==
  ASSUME NEW a \in Agents,
         \/ run_tool(a) \/ run_tool_times_out(a) \/ run_tool_unreadable(a)
         \/ run_tool_without_tests(a) \/ run_tool_refuses(a)
  PROVE  Returned(a)
<1>1. CASE run_tool(a)
  <2>1. Result(at[a].tool, Cardinality(FindingsOf(at[a].tool, line))) \in Payload
    BY ToolTypes, PayloadTypes
  <2>2. QED
    BY <1>1, <2>1 DEF run_tool, Returned
<1>2. CASE run_tool_times_out(a)
  BY <1>2, PayloadTypes DEF run_tool_times_out, Returned
<1>3. CASE run_tool_unreadable(a)
  BY <1>3, PayloadTypes DEF run_tool_unreadable, Returned
<1>4. CASE run_tool_without_tests(a)
  BY <1>4, PayloadTypes DEF run_tool_without_tests, Returned, process
<1>5. CASE run_tool_refuses(a)
  BY <1>5, PayloadTypes DEF run_tool_refuses, Returned, process
<1>6. QED
  BY <1>1, <1>2, <1>3, <1>4, <1>5

\* So that an agent's step is one of these.
LEMMA AgentSteps ==
  ASSUME NEW a \in Agents, Agent(a)
  PROVE  \/ budget_exhausted(a)
         \/ no_further_actions(a)
         \/ \E tool \in TOOLS : dispatch_denied(a, tool)
         \/ \E tool \in TOOLS : dispatch(a, tool)
         \/ Returned(a)
         \/ run_tool_raises(a)
         \/ shrink(a)
         \/ observe(a)
BY ToolReturns DEF Agent

\* What every step of an agent's loop leaves alone.
LEMMA AgentLeaves ==
  ASSUME NEW a \in Agents, Agent(a)
  PROVE  UNCHANGED <<router, phase, line, iteration, decision, answer, kills>>
BY AgentSteps
DEF graph, conclude, budget_exhausted, no_further_actions, dispatch_denied,
    dispatch, Returned, run_tool_raises, shrink, observe

\* What an agent does is to itself, to what was found and to the failures.
LEMMA OwnPlaceOnly ==
  ASSUME OfflineTypeOK, NEW a \in Agents, Agent(a), NEW b \in Agents \ {a}
  PROVE  /\ at'[b] = at[b] /\ shown'[b] = shown[b] /\ cursor'[b] = cursor[b]
         /\ context'[b] = context[b]
         /\ findings \subseteq findings'
         /\ faults' = 0 => faults = 0
<1> DEFINE Goal == /\ at'[b] = at[b] /\ shown'[b] = shown[b] /\ cursor'[b] = cursor[b]
                   /\ context'[b] = context[b]
                   /\ findings \subseteq findings'
                   /\ faults' = 0 => faults = 0
<1>1. /\ DOMAIN at = Agents /\ at = [c \in Agents |-> at[c]]
      /\ shown = [c \in Agents |-> shown[c]] /\ cursor = [c \in Agents |-> cursor[c]]
      /\ context = [c \in Agents |-> context[c]] /\ faults \in Nat
  BY MaxFaultsAssumption DEF OfflineTypeOK
<1>2. CASE budget_exhausted(a)
  BY <1>1, <1>2 DEF budget_exhausted, conclude
<1>3. CASE no_further_actions(a)
  BY <1>1, <1>3 DEF no_further_actions, conclude, Asks
<1>4. ASSUME NEW tool \in TOOLS, dispatch_denied(a, tool) \/ dispatch(a, tool)
      PROVE  Goal
  BY <1>1, <1>4 DEF dispatch_denied, dispatch, Asks, current_agent
<1>5. CASE Returned(a)
  BY <1>1, <1>5 DEF Returned, Returns
<1>6. CASE run_tool_raises(a)
  BY <1>1, <1>6 DEF run_tool_raises
<1>7. CASE shrink(a)
  BY <1>1, <1>7 DEF shrink, process
<1>8. CASE observe(a)
  BY <1>1, <1>8 DEF observe
<1>9. QED
  BY <1>2, <1>3, <1>4, <1>5, <1>6, <1>7, <1>8, AgentSteps

\* One agent's step keeps every type, whichever step it is.
LEMMA AgentTypes ==
  ASSUME OfflineTypeOK, NEW a \in Agents, Agent(a)
  PROVE  OfflineTypeOK'
<1>1. /\ at \in [Agents -> AgentAt] /\ shown \in [Agents -> ShownTo]
      /\ heard \in [Agents -> SUBSET Piece] /\ log \in [Agents -> LogRow]
      /\ context \in [Agents -> Agents \cup {"none"}]
      /\ cursor \in [Agents -> Nat] /\ findings \subseteq Finding
      /\ faults \in 0..MaxFaults
  BY DEF OfflineTypeOK, AgentAt, ShownTo, LogRow
<1> DEFINE Unmoved ==
      /\ at' \in [Agents -> AgentAt] /\ shown' \in [Agents -> ShownTo]
      /\ heard' \in [Agents -> SUBSET Piece] /\ log' \in [Agents -> LogRow]
      /\ context' \in [Agents -> Agents \cup {"none"}]
      /\ cursor' \in [Agents -> Nat] /\ findings' \subseteq Finding
      /\ faults' \in 0..MaxFaults
<1>2. SUFFICES Unmoved
  BY AgentLeaves DEF OfflineTypeOK, AgentAt, ShownTo, LogRow
<1>3. at[a] \in AgentAt /\ at[a].step \in 0..MaxSteps
  BY <1>1 DEF AgentAt
<1>4. ASSUME faults < MaxFaults PROVE faults + 1 \in 0..MaxFaults
  BY <1>1, <1>4, MaxFaultsAssumption
<1>5. \A p \in Payload :
        /\ [at[a] EXCEPT !.pos = "trim", !.out = p] \in AgentAt
        /\ [at[a] EXCEPT !.pos = "react", !.tool = "none", !.out = p] \in AgentAt
        /\ [at[a] EXCEPT !.out = p] \in AgentAt
  BY <1>3 DEF AgentAt
<1>6. ASSUME NEW reply, Asks(a, reply)
      PROVE  /\ cursor' \in [Agents -> Nat]
             /\ at[a].step + 1 \in 0..MaxSteps
  BY <1>1, <1>3, <1>6, MaxStepsAssumption DEF Asks
<1>7. \A p \in Payload : Returns(a, p) => at' \in [Agents -> AgentAt]
  BY <1>1, <1>5 DEF Returns
<1>8. CASE budget_exhausted(a)
  BY <1>1, <1>8, ConcludeTypes DEF budget_exhausted, conclude
<1>9. CASE no_further_actions(a)
  BY <1>1, <1>6, <1>9, ConcludeTypes DEF no_further_actions, conclude
<1>10. ASSUME NEW tool \in TOOLS, dispatch_denied(a, tool) PROVE Unmoved
  <2>1. Asks(a, tool) /\ at' = [at EXCEPT ![a].step = @ + 1]
        /\ log' = [log EXCEPT ![a].calls = @ + 1, ![a].rows = @ + 1]
        /\ UNCHANGED <<findings, shown, heard, context, faults>>
    BY <1>10 DEF dispatch_denied
  <2>2. [at[a] EXCEPT !.step = @ + 1] \in AgentAt
    BY <1>3, <1>6, <2>1 DEF AgentAt
  <2>3. at' \in [Agents -> AgentAt]
    BY <1>1, <2>1, <2>2
  <2>4. log' \in [Agents -> LogRow]
    BY <1>1, <2>1 DEF LogRow
  <2>5. QED
    BY <1>1, <1>6, <2>1, <2>3, <2>4
<1>11. ASSUME NEW tool \in TOOLS, dispatch(a, tool) PROVE Unmoved
  <2>1. Asks(a, tool)
        /\ at' = [at EXCEPT ![a].pos = "tool", ![a].step = @ + 1,
                            ![a].tool = tool]
        /\ context' = current_agent(a) /\ log' = Wrote(a, "calls")
        /\ UNCHANGED <<findings, shown, heard, faults>>
    BY <1>11 DEF dispatch
  <2>2. [at[a] EXCEPT !.pos = "tool", !.step = @ + 1, !.tool = tool] \in AgentAt
    BY <1>3, <1>6, <2>1 DEF AgentAt
  <2>3. at' \in [Agents -> AgentAt]
    BY <1>1, <2>1, <2>2
  <2>4. context' \in [Agents -> Agents \cup {"none"}]
    BY <1>1, <2>1 DEF current_agent
  <2>5. QED
    BY <1>1, <1>6, <2>1, <2>3, <2>4, WroteTypes
<1>12. CASE Returned(a)
  <2>1. PICK p \in Payload : Returns(a, p)
    BY <1>12 DEF Returned
  <2>2. at' \in [Agents -> AgentAt]
    BY <1>7, <2>1
  <2>3. log' \in [Agents -> LogRow]
    BY <1>1, <1>12, AnalysedTypes DEF Returned
  <2>4. faults' \in 0..MaxFaults
    BY <1>1, <1>4, <1>12 DEF Returned
  <2>5. QED
    BY <1>1, <1>12, <2>2, <2>3, <2>4 DEF Returned
<1>13. CASE run_tool_raises(a)
  <2>1. [at[a] EXCEPT !.pos = "react"] \in AgentAt
    BY <1>3 DEF AgentAt
  <2>2. at' = [at EXCEPT ![a].pos = "react"]
        /\ context' = [context EXCEPT ![a] = "none"] /\ log' = Wrote(a, "errors")
        /\ faults < MaxFaults /\ faults' = faults + 1
        /\ UNCHANGED <<findings, shown, heard, cursor>>
    BY <1>13 DEF run_tool_raises
  <2>3. at' \in [Agents -> AgentAt]
    BY <1>1, <2>1, <2>2
  <2>4. QED
    BY <1>1, <1>4, <2>2, <2>3, WroteTypes
<1>14. CASE shrink(a)
  <2>1. at[a].out \in Payload
    BY <1>3 DEF AgentAt
  <2>2. \E p \in Payload : at' = [at EXCEPT ![a].out = p]
    BY <1>14, <2>1, PayloadTypes DEF shrink
  <2>3. at' \in [Agents -> AgentAt]
    BY <1>1, <1>5, <2>2
  <2>4. QED
    BY <1>1, <1>14, <2>3 DEF shrink, process
<1>15. CASE observe(a)
  <2>1. /\ at' = [at EXCEPT ![a] = [@ EXCEPT !.pos = "react", !.tool = "none",
                                             !.out = ErrorResult]]
        /\ shown' = [shown EXCEPT ![a] = Observed(a)]
        /\ heard' = [heard EXCEPT ![a] = @ \cup
                        {p \in redact(QuotedBy(at[a].tool, line)) : p.raw # {}}]
        /\ context' = [context EXCEPT ![a] = "none"] /\ log' = Wrote(a, "rows")
        /\ UNCHANGED <<findings, cursor, faults>>
    BY <1>15 DEF observe
  <2>2. at' \in [Agents -> AgentAt]
    BY <1>1, <1>5, <2>1, PayloadTypes
  <2>3. line \in [Lines -> Content]
    BY DEF OfflineTypeOK
  <2>4. {p \in redact(QuotedBy(at[a].tool, line)) : p.raw # {}} \subseteq Piece
    BY <2>3, RedactLeavesFragments
  <2>5. QED
    BY <1>1, <2>1, <2>2, <2>4, ObservedTypes, WroteTypes
<1>16. QED
  BY <1>8, <1>9, <1>10, <1>11, <1>12, <1>13, <1>14, <1>15, AgentSteps

\* An exception ends the process where it was, with some of the fixes written.
LEMMA RaiseLeaves ==
  ASSUME node_raises
  PROVE  /\ phase \in {"fix", "report"} /\ phase' = "aborted"
         /\ UNCHANGED <<router, iteration, findings, decision, answer, at, shown,
                        heard, context, cursor, log, faults, kills>>
         /\ UNCHANGED line \/ \E written \in SUBSET Named : line' = Patched(written)
BY DEF node_raises, apply_fix_raises, persist_report_raises, Goes, loops, process

\* A pass is begun only under the ceiling.
RoomForAPass == phase = "fix" => iteration < MaxIter

\* The nodes around the agents, and the human.
LEMMA GraphTypes ==
  ASSUME OfflineTypeOK, RoomForAPass, Graph \/ Human
  PROVE  OfflineTypeOK' /\ RoomForAPass'
<1>1. iteration \in 0..MaxIter /\ MaxIter \in Nat
  BY MaxIterAssumption DEF OfflineTypeOK
<1>2. CASE coordinator_node
  <2>1. /\ phase' = "work"
        /\ UNCHANGED <<router, line, iteration, findings, decision, answer,
                       context, cursor, log, faults, kills>>
    BY <1>2 DEF coordinator_node, process
  <2>2. PICK S : Schedule(S)
    BY <1>2 DEF coordinator_node
  <2>3. QED
    BY <2>1, <2>2, ScheduleTypes DEF OfflineTypeOK, RoomForAPass, AgentAt, ShownTo
<1>3. CASE synthesizer_node
  <2> DEFINE F == current_findings(findings, iteration)
             route == route_after_synthesis(findings, iteration)
  <2>1. /\ decision' = Reconcile(synthesis(router, F), F)
        /\ phase' = AfterRoute[route]
        /\ UNCHANGED <<router, line, iteration, findings, answer, at, shown, heard,
                       context, cursor, log, faults, kills>>
    BY <1>3 DEF synthesizer_node, loops, process
  <2>2. synthesis(router, F) \in Decision
    BY DEF synthesis, synthesis_from_findings, Decision
  <2>3. decision' \in Decision
    BY <2>1, <2>2 DEF Reconcile, Decision
  <2>4. /\ route \in {"hitl_approval", "remediation_loop", "finalize"}
        /\ route = "remediation_loop" => iteration < MaxIter
    BY DEF route_after_synthesis
  <2>5. /\ phase' \in {"ask", "fix", "report"}
        /\ RoomForAPass'
    BY <2>1, <2>4 DEF RoomForAPass, AfterRoute
  <2>6. QED
    BY <2>1, <2>3, <2>5 DEF OfflineTypeOK
<1>4. CASE apply_fix
  <2>1. /\ phase' = "work" /\ iteration' = iteration + 1
        /\ line' = Patched(Named) /\ iteration < MaxIter
        /\ UNCHANGED <<router, findings, decision, answer, context, cursor, log,
                       faults, kills>>
    BY <1>4 DEF apply_fix, NextPass, RoomForAPass, process
  <2>2. PICK S : Schedule(S)
    BY <1>4 DEF apply_fix, NextPass
  <2>3. line' \in [Lines -> Content]
    BY <2>1 DEF OfflineTypeOK, Patched, Content
  <2>4. iteration' \in 0..MaxIter
    BY <1>1, <2>1
  <2>5. QED
    BY <2>1, <2>2, <2>3, <2>4, ScheduleTypes
    DEF OfflineTypeOK, RoomForAPass, AgentAt, ShownTo
<1>5. CASE hitl_approval \/ apply_decision \/ persist_report \/ Human
  <2>1. /\ UNCHANGED <<router, line, iteration, findings, at, shown, heard,
                       context, cursor, log, faults, kills>>
        /\ phase' \in {"waiting", "decide", "report", "end"}
    BY <1>5 DEF hitl_approval, apply_decision, persist_report, Human,
         resume_review, Goes, loops, process
  <2>2. /\ answer' \in HumanChoice \cup {Undecided}
        /\ decision' \in Decision \cup {Undecided}
    BY <1>5 DEF hitl_approval, apply_decision, persist_report, Human,
         resume_review, Decision, OfflineTypeOK
  <2>3. QED
    BY <2>1, <2>2 DEF OfflineTypeOK, RoomForAPass
<1>6. CASE node_raises
  <2>1. line' \in [Lines -> Content]
    BY <1>6, RaiseLeaves DEF OfflineTypeOK, Patched, Content
  <2>2. QED
    BY <1>6, <2>1, RaiseLeaves DEF OfflineTypeOK, RoomForAPass
<1>7. QED
  BY <1>2, <1>3, <1>4, <1>5, <1>6 DEF Graph

\* So is what a kill leaves.
LEMMA KillTypes ==
  ASSUME OfflineTypeOK, RoomForAPass, Killed
  PROVE  OfflineTypeOK' /\ RoomForAPass'
<1>1. /\ kills' \in 0..MaxKills
      /\ cursor' \in [Agents -> Nat]
      /\ context' \in [Agents -> Agents \cup {"none"}]
      /\ log' \in [Agents -> LogRow]
      /\ UNCHANGED <<router, phase, iteration, decision, answer, faults>>
  BY MaxKillsAssumption
  DEF Killed, killed_in_a_pass, killed_in_apply_fix, killed_after_the_passes, Kill,
      OfflineTypeOK, LogRow, NoRows
<1>2. /\ at \in [Agents -> AgentAt] /\ shown \in [Agents -> ShownTo]
      /\ heard \in [Agents -> SUBSET Piece] /\ findings \subseteq Finding
      /\ line \in [Lines -> Content]
  BY DEF OfflineTypeOK, AgentAt, ShownTo
<1>3. SUFFICES /\ at' \in [Agents -> AgentAt] /\ shown' \in [Agents -> ShownTo]
               /\ heard' \in [Agents -> SUBSET Piece] /\ findings' \subseteq Finding
               /\ line' \in [Lines -> Content]
  BY <1>1 DEF OfflineTypeOK, RoomForAPass, AgentAt, ShownTo, LogRow
<1>4. CASE killed_in_a_pass
  BY <1>2, <1>4, AwayTypes DEF killed_in_a_pass, ShownTo, NothingSeen
<1>5. CASE killed_in_apply_fix
  BY <1>2, <1>5 DEF killed_in_apply_fix, Patched, Content, loops
<1>6. CASE killed_after_the_passes
  BY <1>2, <1>6 DEF killed_after_the_passes, loops
<1>7. QED
  BY <1>4, <1>5, <1>6 DEF Killed

\* The types hold from the start and through every step.
THEOREM OfflineTypes == Spec => [](OfflineTypeOK /\ RoomForAPass)
<1>1. Init => OfflineTypeOK /\ RoomForAPass
  <2>1. ASSUME Init PROVE OfflineTypeOK /\ RoomForAPass
    <3>1. at \in [Agents -> AgentAt]
      BY <2>1, AwayTypes DEF Init
    <3>2. log \in [Agents -> LogRow] /\ shown \in [Agents -> ShownTo]
      BY <2>1 DEF Init, LogRow, NoRows, ShownTo, NothingSeen
    <3>3. line \in [Lines -> Content]
      BY <2>1, DeliveriesAssumption DEF Init
    <3>4. QED
      BY <2>1, <3>1, <3>2, <3>3, MaxIterAssumption, MaxFaultsAssumption,
         MaxKillsAssumption
      DEF Init, OfflineTypeOK, RoomForAPass, AgentAt, LogRow, ShownTo
  <2>2. QED
    BY <2>1
<1>2. OfflineTypeOK /\ RoomForAPass /\ [Next]_vars
        => (OfflineTypeOK /\ RoomForAPass)'
  <2> SUFFICES ASSUME OfflineTypeOK, RoomForAPass, [Next]_vars
               PROVE  OfflineTypeOK' /\ RoomForAPass'
    OBVIOUS
  <2>1. ASSUME NEW a \in Agents, Agent(a) PROVE OfflineTypeOK' /\ RoomForAPass'
    BY <2>1, AgentTypes, AgentLeaves DEF RoomForAPass
  <2>2. CASE UNCHANGED vars
    BY <2>2 DEF vars, graph, loops, process, OfflineTypeOK, RoomForAPass
  <2>3. QED
    BY <2>1, <2>2, GraphTypes, KillTypes DEF Next
<1>3. QED
  BY <1>1, <1>2, PTL DEF Spec

(***************************************************************************)
(* Redaction and repairs: one step at a time.                              *)
(***************************************************************************)

\* No value a redaction rule matches reaches a model whole, whatever is quoted
\* to whom and whatever values contain each other; nor does any part of it, but
\* from a tool that had cut the value before it was redacted.
THEOREM NoValueHeard == Spec => []NoDetectedValueIsHeard
<1>1. Init => NoDetectedValueIsHeard
  BY DEF Init, NoDetectedValueIsHeard
<1>2. OfflineTypeOK /\ NoDetectedValueIsHeard /\ [Next]_vars => NoDetectedValueIsHeard'
  <2> SUFFICES ASSUME OfflineTypeOK, NoDetectedValueIsHeard, [Next]_vars
               PROVE  NoDetectedValueIsHeard'
    OBVIOUS
  <2>1. ASSUME NEW a \in Agents, observe(a) PROVE NoDetectedValueIsHeard'
    <3> DEFINE left == {p \in redact(QuotedBy(at[a].tool, line)) : p.raw # {}}
    <3>1. line \in [Lines -> Content]
      BY DEF OfflineTypeOK
    <3>2. \A p \in left : p.cut /\ \A value \in Detected : ~(value \subseteq p.raw)
      BY <3>1, RedactLeavesFragments
    <3>3. heard' = [heard EXCEPT ![a] = @ \cup left]
      BY <2>1 DEF observe
    <3>4. heard \in [Agents -> SUBSET Piece]
      BY DEF OfflineTypeOK
    <3>5. \A b \in Agents : \A p \in heard'[b] : p \in heard[b] \/ p \in left
      BY <3>3, <3>4
    <3>6. QED
      BY <3>2, <3>5 DEF NoDetectedValueIsHeard
  <2>2. ASSUME NEW a \in Agents, Agent(a), ~observe(a) PROVE UNCHANGED heard
    BY <2>2, AgentSteps DEF conclude, budget_exhausted, no_further_actions,
         dispatch_denied, dispatch, Returned, run_tool_raises, shrink
  <2>3. ASSUME UNCHANGED heard PROVE NoDetectedValueIsHeard'
    BY <2>3 DEF NoDetectedValueIsHeard
  <2>4. ASSUME Graph PROVE NoDetectedValueIsHeard'
    BY <2>3, <2>4, RaiseLeaves
    DEF Graph, coordinator_node, synthesizer_node, apply_fix, hitl_approval,
        apply_decision, persist_report, Goes, NextPass, Schedule, loops,
        NoDetectedValueIsHeard
  <2>5. ASSUME Killed PROVE NoDetectedValueIsHeard'
    BY <2>3, <2>5
    DEF Killed, killed_in_a_pass, killed_in_apply_fix, killed_after_the_passes,
        loops, NoDetectedValueIsHeard
  <2>6. ASSUME Human PROVE NoDetectedValueIsHeard'
    BY <2>3, <2>6 DEF Human, resume_review, Goes, loops
  <2>7. QED
    BY <2>1, <2>2, <2>3, <2>4, <2>5, <2>6 DEF Next, vars, loops
<1>3. QED
  BY <1>1, <1>2, OfflineTypes, PTL DEF Spec

\* What a pass patches is named by genuine findings of that pass.
LEMMA NamedIsFound ==
  ASSUME NEW l \in Named
  PROVE  \E f \in findings : f.id = l /\ is_blocking(f) /\ f.iteration = iteration
BY DEF Named, Fixable, blocking_findings, current_findings

\* The lines a step rewrites are among those, also when the process is killed
\* half-way.
THEOREM RepairsOnlyFindings == Spec => FixesOnlyWhatWasFound
<1> DEFINE Step ==
      \A l \in Lines :
        line'[l] # line[l] =>
          \E f \in findings : f.id = l /\ is_blocking(f) /\ f.iteration = iteration
<1>1. OfflineTypeOK /\ [Next]_vars => Step
  <2> SUFFICES ASSUME OfflineTypeOK, [Next]_vars, NEW l \in Lines,
                      line'[l] # line[l]
               PROVE  l \in Named
    BY NamedIsFound
  <2>1. ASSUME NEW a \in Agents, Agent(a) PROVE FALSE
    BY <2>1, AgentLeaves
  <2>2. ASSUME NEW S, line' = Patched(S) PROVE l \in S
    BY <2>2 DEF Patched
  <2>3. CASE Graph \/ Human
    BY <2>2, <2>3, RaiseLeaves
    DEF Graph, coordinator_node, synthesizer_node, apply_fix, hitl_approval,
        apply_decision, persist_report, Human, resume_review, Goes
  <2>4. CASE Killed
    BY <2>2, <2>4
    DEF Killed, killed_in_a_pass, killed_in_apply_fix, killed_after_the_passes
  <2>5. QED
    BY <2>1, <2>3, <2>4 DEF Next, vars, graph
<1>2. QED
  BY <1>1, OfflineTypes, PTL DEF Spec, FixesOnlyWhatWasFound

(***************************************************************************)
(* Calls and rows.                                                         *)
(***************************************************************************)
UnderWay(a) == at[a].pos \in {"tool", "trim"}

\* The account of one agent: the call under way is the one that has no row and
\* no error yet, and its thread names the agent.
Balanced(a) ==
  /\ UnderWay(a) => /\ log[a].calls = log[a].rows + log[a].errors + 1
                    /\ context[a] = a
  /\ ~UnderWay(a) => log[a].calls = log[a].rows + log[a].errors
  /\ log[a].analyser = log[a].runs

\* Agents run in a pass only.
Quiet == phase \notin {"plan", "work"} => \A a \in Agents : at[a].pos \in {"off", "done"}

CallsInv == Quiet /\ \A a \in Agents : Balanced(a)

\* An agent takes a step in a pass only, and a step of its own.
LEMMA OthersWait ==
  ASSUME OfflineTypeOK, CallsInv, NEW a \in Agents, Agent(a)
  PROVE  /\ phase \in {"plan", "work"}
         /\ \A b \in Agents \ {a} : Balanced(b)'
<1>1. at[a].pos \in {"react", "tool", "trim"}
  BY AgentSteps DEF budget_exhausted, no_further_actions, Asks, dispatch_denied,
       dispatch, Returned, run_tool_raises, shrink, observe
<1>2. phase \in {"plan", "work"}
  BY <1>1 DEF CallsInv, Quiet
<1>3. ASSUME NEW b \in Agents \ {a} PROVE Balanced(b)'
  <2>1. at'[b] = at[b]
    BY <1>3, OwnPlaceOnly
  <2>2. context'[b] = context[b]
    BY <1>3, OwnPlaceOnly
  <2>3. log'[b] = log[b]
    <3>1. log \in [Agents -> LogRow] /\ log[b] \in LogRow
      BY <1>3 DEF OfflineTypeOK, LogRow
    <3>2. at[a].pos = "tool" => Analysed(a)[b] = log[b]
      <4>1. SUFFICES ASSUME at[a].pos = "tool", at[a].tool \in Analysers
                     PROVE  Analysed(a)[b] = log[b]
        BY DEF Analysed
      <4>2. context[a] = a
        BY <4>1 DEF CallsInv, Balanced, UnderWay
      <4>3. Analysed(a)[b] = [log[b] EXCEPT !.runs = @ + 0, !.analyser = @ + 0]
        BY <1>3, <4>1, <4>2 DEF Analysed
      <4>4. ASSUME NEW w \in LogRow
            PROVE  [w EXCEPT !.runs = @ + 0, !.analyser = @ + 0] = w
        <5>1. w.runs + 0 = w.runs /\ w.analyser + 0 = w.analyser
          BY DEF LogRow
        <5>2. QED
          BY <5>1 DEF LogRow
      <4>5. QED
        BY <3>1, <4>3, <4>4
    <3>3. \/ log' = log
          \/ log' = Analysed(a) /\ at[a].pos = "tool"
          \/ \E what \in {"calls", "rows", "errors"} : log' = Wrote(a, what)
          \/ log' = [log EXCEPT ![a].calls = @ + 1, ![a].rows = @ + 1]
      BY AgentSteps
      DEF budget_exhausted, no_further_actions, conclude, dispatch_denied, dispatch,
          Returned, run_tool_raises, shrink, observe, process
    <3>4. QED
      BY <1>3, <3>1, <3>2, <3>3 DEF Wrote
  <2>4. QED
    BY <2>1, <2>2, <2>3 DEF CallsInv, Balanced, UnderWay
<1>4. QED
  BY <1>2, <1>3

\* The analyser's row of an agent under way is its own.
LEMMA OwnAnalyserRow ==
  ASSUME OfflineTypeOK, CallsInv, NEW a \in Agents, at[a].pos = "tool"
  PROVE  /\ Analysed(a)[a].calls = log[a].calls
         /\ Analysed(a)[a].rows = log[a].rows
         /\ Analysed(a)[a].errors = log[a].errors
         /\ Analysed(a)[a].analyser = Analysed(a)[a].runs
<1>1. log[a] \in LogRow
  BY DEF OfflineTypeOK, LogRow
<1>2. context[a] = a /\ log[a].analyser = log[a].runs
  BY DEF CallsInv, Balanced, UnderWay
<1>3. CASE at[a].tool \notin Analysers
  BY <1>2, <1>3 DEF Analysed
<1>4. CASE at[a].tool \in Analysers
  <2>1. Analysed(a)[a] = [log[a] EXCEPT !.runs = @ + 1, !.analyser = @ + 1]
    BY <1>2, <1>4 DEF Analysed
  <2>2. QED
    BY <1>1, <1>2, <2>1 DEF LogRow
<1>5. QED
  BY <1>3, <1>4

\* A step of an agent keeps its own account.
LEMMA OwnAccount ==
  ASSUME OfflineTypeOK, CallsInv, NEW a \in Agents, Agent(a)
  PROVE  Balanced(a)'
<1>1. /\ at \in [Agents -> AgentAt] /\ log \in [Agents -> LogRow]
      /\ context \in [Agents -> Agents \cup {"none"}]
  BY DEF OfflineTypeOK, AgentAt, LogRow
<1>2. at[a] \in AgentAt /\ log[a] \in LogRow /\ Balanced(a)
  BY <1>1 DEF CallsInv
<1>3. /\ log[a].calls \in Nat /\ log[a].rows \in Nat /\ log[a].errors \in Nat
  BY <1>2 DEF LogRow
<1>4. CASE budget_exhausted(a) \/ no_further_actions(a)
  <2>1. at[a].pos = "react" /\ at' = [at EXCEPT ![a].pos = "done"]
        /\ UNCHANGED <<context, log>>
    BY <1>4 DEF budget_exhausted, no_further_actions, Asks, conclude
  <2>2. at'[a].pos = "done"
    BY <1>1, <2>1 DEF AgentAt
  <2>3. QED
    BY <1>2, <2>1, <2>2 DEF Balanced, UnderWay
<1>5. ASSUME NEW tool \in TOOLS, dispatch_denied(a, tool) PROVE Balanced(a)'
  <2>1. /\ at[a].pos = "react" /\ at' = [at EXCEPT ![a].step = @ + 1]
        /\ log' = [log EXCEPT ![a].calls = @ + 1, ![a].rows = @ + 1]
        /\ UNCHANGED context
    BY <1>5 DEF dispatch_denied, Asks
  <2>2. at'[a].pos = "react"
    BY <1>1, <2>1 DEF AgentAt
  <2>3. /\ log'[a].calls = log[a].calls + 1 /\ log'[a].rows = log[a].rows + 1
        /\ log'[a].errors = log[a].errors /\ log'[a].runs = log[a].runs
        /\ log'[a].analyser = log[a].analyser
    BY <1>1, <2>1 DEF LogRow
  <2>4. QED
    BY <1>2, <1>3, <2>1, <2>2, <2>3 DEF Balanced, UnderWay
<1>6. ASSUME NEW tool \in TOOLS, dispatch(a, tool) PROVE Balanced(a)'
  <2>1. /\ at[a].pos = "react"
        /\ at' = [at EXCEPT ![a].pos = "tool", ![a].step = @ + 1,
                            ![a].tool = tool]
        /\ context' = [context EXCEPT ![a] = a] /\ log' = Wrote(a, "calls")
    BY <1>6 DEF dispatch, Asks, current_agent
  <2>2. at'[a].pos = "tool" /\ context'[a] = a
    BY <1>1, <2>1 DEF AgentAt
  <2>3. /\ log'[a].calls = log[a].calls + 1 /\ log'[a].rows = log[a].rows
        /\ log'[a].errors = log[a].errors /\ log'[a].runs = log[a].runs
        /\ log'[a].analyser = log[a].analyser
    BY <1>1, <2>1 DEF LogRow, Wrote
  <2>4. QED
    BY <1>2, <1>3, <2>1, <2>2, <2>3 DEF Balanced, UnderWay
<1>7. CASE Returned(a)
  <2>1. at'[a].pos = "trim"
    BY <1>1, <1>7 DEF Returned, Returns, AgentAt
  <2>2. /\ log'[a].calls = log[a].calls /\ log'[a].rows = log[a].rows
        /\ log'[a].errors = log[a].errors /\ log'[a].analyser = log'[a].runs
    BY <1>2, <1>7, OwnAnalyserRow DEF Balanced, Returned
  <2>3. QED
    BY <1>2, <1>7, <2>1, <2>2 DEF Balanced, UnderWay, Returned
<1>8. CASE run_tool_raises(a)
  <2>1. at[a].pos = "tool" /\ at' = [at EXCEPT ![a].pos = "react"]
        /\ log' = Wrote(a, "errors")
    BY <1>8 DEF run_tool_raises
  <2>2. at'[a].pos = "react"
    BY <1>1, <2>1 DEF AgentAt
  <2>3. /\ log'[a].calls = log[a].calls /\ log'[a].rows = log[a].rows
        /\ log'[a].errors = log[a].errors + 1 /\ log'[a].runs = log[a].runs
        /\ log'[a].analyser = log[a].analyser
    BY <1>1, <2>1 DEF LogRow, Wrote
  <2>4. QED
    BY <1>2, <1>3, <2>1, <2>2, <2>3 DEF Balanced, UnderWay
<1>9. CASE shrink(a)
  <2>1. at[a].out \in Payload
    BY <1>2 DEF AgentAt
  <2>2. at[a].pos = "trim" /\ (\E p \in Payload : at' = [at EXCEPT ![a].out = p])
        /\ UNCHANGED <<context, log>>
    BY <1>9, <2>1, PayloadTypes DEF shrink, process
  <2>3. at'[a].pos = "trim"
    BY <1>1, <2>2 DEF AgentAt
  <2>4. QED
    BY <1>2, <2>2, <2>3 DEF Balanced, UnderWay
<1>10. CASE observe(a)
  <2>1. at[a].pos = "trim"
        /\ at' = [at EXCEPT ![a] = [@ EXCEPT !.pos = "react", !.tool = "none",
                                             !.out = ErrorResult]]
        /\ log' = Wrote(a, "rows")
    BY <1>10 DEF observe
  <2>2. at'[a].pos = "react"
    BY <1>1, <2>1 DEF AgentAt
  <2>3. /\ log'[a].calls = log[a].calls /\ log'[a].rows = log[a].rows + 1
        /\ log'[a].errors = log[a].errors /\ log'[a].runs = log[a].runs
        /\ log'[a].analyser = log[a].analyser
    BY <1>1, <2>1 DEF LogRow, Wrote
  <2>4. QED
    BY <1>2, <1>3, <2>1, <2>2, <2>3 DEF Balanced, UnderWay
<1>11. QED
  BY <1>4, <1>5, <1>6, <1>7, <1>8, <1>9, <1>10, AgentSteps

\* Between the passes no call is under way, and none is made.
LEMMA GraphKeepsAccounts ==
  ASSUME OfflineTypeOK, CallsInv, Graph \/ Human
  PROVE  CallsInv'
<1>1. \A a \in Agents : at[a].pos \in {"off", "done"}
  BY RaiseLeaves
  DEF Graph, coordinator_node, synthesizer_node, apply_fix, hitl_approval,
      apply_decision, persist_report, Human, resume_review, Goes, Ready,
      CallsInv, Quiet
<1>2. UNCHANGED log
  BY RaiseLeaves
  DEF Graph, coordinator_node, synthesizer_node, apply_fix, hitl_approval,
      apply_decision, persist_report, Human, resume_review, Goes, process
<1>3. \A a \in Agents : /\ log[a].calls = log[a].rows + log[a].errors
                        /\ log[a].analyser = log[a].runs
  BY <1>1 DEF CallsInv, Balanced, UnderWay
<1>4. ASSUME NEW S, Schedule(S), NEW a \in Agents PROVE at'[a].pos \in {"off", "react"}
  BY <1>4 DEF Schedule, Starting, Away
<1>5. CASE coordinator_node \/ apply_fix
  <2>1. phase' = "work"
    BY <1>5 DEF coordinator_node, apply_fix, NextPass
  <2>2. \A a \in Agents : at'[a].pos \in {"off", "react"}
    BY <1>4, <1>5 DEF coordinator_node, apply_fix, NextPass
  <2>3. QED
    BY <1>2, <1>3, <2>1, <2>2 DEF CallsInv, Quiet, Balanced, UnderWay
<1>6. CASE synthesizer_node \/ hitl_approval \/ apply_decision \/ persist_report
           \/ node_raises \/ Human
  <2>1. UNCHANGED at
    BY <1>6, RaiseLeaves DEF synthesizer_node, hitl_approval, apply_decision, persist_report,
         Human, resume_review, Goes, loops
  <2>2. QED
    BY <1>1, <1>2, <1>3, <2>1 DEF CallsInv, Quiet, Balanced, UnderWay
<1>7. QED
  BY <1>5, <1>6 DEF Graph

\* A new process has nothing to account for: the agents that had not finished
\* begin again.
LEMMA KillKeepsAccounts ==
  ASSUME OfflineTypeOK, CallsInv, Killed
  PROVE  CallsInv'
<1>1. log' = [a \in Agents |-> NoRows] /\ UNCHANGED phase
  BY DEF Killed, killed_in_a_pass, killed_in_apply_fix, killed_after_the_passes,
         Kill
<1>2. \A a \in Agents : /\ log'[a].calls = log'[a].rows + log'[a].errors
                        /\ log'[a].analyser = log'[a].runs
  BY <1>1 DEF NoRows
<1>3. SUFFICES /\ \A a \in Agents : ~UnderWay(a)'
               /\ Quiet'
  BY <1>2 DEF CallsInv, Balanced
<1>4. CASE killed_in_a_pass
  <2>1. phase' \in {"plan", "work"}
    BY <1>1, <1>4 DEF killed_in_a_pass
  <2>2. ASSUME NEW a \in Agents
        PROVE  \/ at'[a] = Starting
               \/ at'[a] = at[a] /\ at[a].pos \in {"off", "done"}
    BY <1>4 DEF killed_in_a_pass
  <2>3. QED
    BY <2>1, <2>2 DEF Starting, Away, UnderWay, Quiet
<1>5. CASE killed_in_apply_fix \/ killed_after_the_passes
  <2>1. UNCHANGED at /\ phase \notin {"plan", "work"}
    BY <1>5 DEF killed_in_apply_fix, killed_after_the_passes, loops
  <2>2. QED
    BY <1>1, <2>1 DEF CallsInv, Quiet, UnderWay
<1>6. QED
  BY <1>4, <1>5 DEF Killed

\* The accounts balance from the start and through every step.
LEMMA AccountsBalance == Spec => []CallsInv
<1>1. Init => CallsInv
  <2>1. ASSUME Init, NEW a \in Agents
        PROVE  /\ at[a].pos \in {"off", "react"} /\ log[a] = NoRows
               /\ phase = "plan"
    BY <2>1 DEF Init, Starting, Away
  <2>2. QED
    BY <2>1 DEF Init, CallsInv, Quiet, Balanced, UnderWay, NoRows
<1>2. OfflineTypeOK /\ CallsInv /\ [Next]_vars => CallsInv'
  <2> SUFFICES ASSUME OfflineTypeOK, CallsInv, [Next]_vars PROVE CallsInv'
    OBVIOUS
  <2>1. ASSUME NEW a \in Agents, Agent(a) PROVE CallsInv'
    <3>1. Quiet'
      BY <2>1, OthersWait, AgentLeaves DEF Quiet
    <3>2. QED
      BY <2>1, <3>1, OthersWait, OwnAccount DEF CallsInv
  <2>2. CASE UNCHANGED vars
    BY <2>2 DEF vars, graph, loops, process, CallsInv, Quiet, Balanced, UnderWay
  <2>3. QED
    BY <2>1, <2>2, GraphKeepsAccounts, KillKeepsAccounts DEF Next
<1>3. QED
  BY <1>1, <1>2, OfflineTypes, PTL DEF Spec

\* Between steps every call but the one under way has left a row or an error,
\* and every analyser's row is under the name of the agent that ran it.
THEOREM NoCallIsLost == Spec => []NoCallVanishes
<1>1. OfflineTypeOK /\ CallsInv => NoCallVanishes
  <2> SUFFICES ASSUME OfflineTypeOK, CallsInv, NEW a \in Agents
               PROVE  LET w == log[a]
                          under_way == IF at[a].pos \in {"tool", "trim"} THEN 1 ELSE 0
                      IN /\ w.calls = w.rows + w.errors + under_way
                         /\ w.analyser = w.runs
    BY DEF NoCallVanishes
  <2>1. log[a].rows \in Nat /\ log[a].errors \in Nat
    BY DEF OfflineTypeOK
  <2>2. QED
    BY <2>1 DEF CallsInv, Balanced, UnderWay
<1>2. QED
  BY <1>1, OfflineTypes, AccountsBalance, PTL

(***************************************************************************)
(* Passes and repairs.                                                     *)
(***************************************************************************)
Repaired == {l \in Lines : line[l] = "fixed"}

\* Why no pass is for nothing: the fixable findings of a pass are lines not yet
\* repaired, so that the passes made, and the one begun, are outnumbered by the
\* lines that are repaired or about to be.
RepairInv ==
  /\ \A f \in findings : f.iteration <= iteration /\ (f.fix => f.id \in Lines)
  /\ iteration <= Cardinality(Repaired)
  /\ phase \in {"plan", "work"} =>
       \A f \in Fixable(findings, iteration) : line[f.id] # "fixed"
  /\ phase = "fix" => iteration + 1 <= Cardinality(Repaired \cup Named)

\* A finding is reported with a fix only for a line that is not repaired.
LEMMA FixesAreForBadLines ==
  ASSUME NEW stub \in Routers, NEW a \in Agents, NEW S \in SUBSET Lines,
         NEW r \in ReportOf(stub, a, S, line), r.fix
  PROVE  r.id \in Lines /\ line[r.id] # "fixed"
<1>1. CASE stub = "review" /\ a = "SecurityAgent"
  <2>1. PICK l \in S :
          r = Found(l, IF line[l] = "fixture" THEN "low"
                       ELSE IF line[l] = "pii" THEN "medium" ELSE "high",
                    line[l] = "fixture", line[l] \in {"leak", "pii"})
    BY <1>1 DEF ReportOf, security_report_from_tools
  <2>2. r.id = l /\ line[l] \in {"leak", "pii"}
    BY <2>1 DEF Found
  <2>3. QED
    BY <2>2
<1>2. CASE stub = "review" /\ a = "StyleAgent"
  <2>1. PICK l \in S :
          r = Found(l, IF line[l] = "bare" THEN "high" ELSE "info",
                    FALSE, line[l] = "bare")
    BY <1>2 DEF ReportOf, style_report_from_tools
  <2>2. r.id = l /\ line[l] = "bare"
    BY <2>1 DEF Found
  <2>3. QED
    BY <2>2
<1>3. CASE stub = "critical" \/ a \notin {"SecurityAgent", "StyleAgent"}
  BY <1>3 DEF ReportOf, coverage_report, critical_report, Found
<1>4. QED
  BY <1>1, <1>2, <1>3 DEF Routers

\* The repaired lines can be counted, also with those a pass names.
LEMMA RepairedIsFinite ==
  ASSUME NEW S, NEW T, S \subseteq T, T \subseteq Lines
  PROVE  /\ IsFiniteSet(S) /\ IsFiniteSet(T)
         /\ Cardinality(S) \in Nat /\ Cardinality(T) \in Nat
         /\ Cardinality(S) <= Cardinality(T)
<1>1. IsFiniteSet(T)
  BY LinesAssumption, FS_Subset
<1>2. QED
  BY <1>1, FS_Subset, FS_CardinalityType

\* An agent reports fixes for the current pass and for bad lines.
LEMMA AgentKeepsRepairs ==
  ASSUME OfflineTypeOK, CallsInv, RepairInv, NEW a \in Agents, Agent(a)
  PROVE  RepairInv'
<1>1. /\ UNCHANGED <<phase, line, iteration>> /\ phase \in {"plan", "work"}
      /\ iteration \in Nat
  BY AgentLeaves, OthersWait, MaxIterAssumption DEF OfflineTypeOK
<1>2. CASE findings' = findings
  BY <1>1, <1>2 DEF RepairInv, Repaired
<1>3. CASE conclude(a)
  <2>1. findings' = findings \cup
          {Stamp(r, a, iteration) : r \in ReportOf(router, a, shown[a].lines, line)}
    BY <1>3 DEF conclude
  <2>2. shown[a].lines \in SUBSET Lines /\ router \in Routers
    BY DEF OfflineTypeOK
  <2>3. ASSUME NEW r \in ReportOf(router, a, shown[a].lines, line)
        PROVE  LET f == Stamp(r, a, iteration)
               IN /\ f.iteration = iteration
                  /\ f.fix => f.id \in Lines /\ line[f.id] # "fixed"
    BY <2>2, FixesAreForBadLines DEF Stamp
  <2>4. \A f \in findings' :
          \/ f \in findings
          \/ f.iteration = iteration /\ (f.fix => f.id \in Lines /\ line[f.id] # "fixed")
    BY <2>1, <2>3
  <2>5. \A f \in findings' : f.iteration <= iteration /\ (f.fix => f.id \in Lines)
    BY <1>1, <2>4 DEF RepairInv
  <2>6. \A f \in Fixable(findings', iteration) : line[f.id] # "fixed"
    BY <1>1, <2>4
    DEF RepairInv, Fixable, blocking_findings, current_findings
  <2>7. QED
    BY <1>1, <2>5, <2>6 DEF RepairInv, Repaired
<1>4. QED
  BY <1>2, <1>3, AgentSteps
  DEF budget_exhausted, no_further_actions, dispatch_denied, dispatch, Returned,
      run_tool_raises, shrink, observe

\* What a pass names are lines.
LEMMA NamedAreLines ==
  ASSUME RepairInv
  PROVE  Named \subseteq Lines
BY DEF RepairInv, Named, Fixable, blocking_findings, current_findings

\* The graph begins a pass for a line that is not repaired yet, and repairs
\* all that the pass names.
LEMMA GraphKeepsRepairs ==
  ASSUME OfflineTypeOK, CallsInv, RepairInv, Graph \/ Human
  PROVE  RepairInv'
<1>1. iteration \in Nat /\ line \in [Lines -> Content]
  BY MaxIterAssumption DEF OfflineTypeOK
<1>2. Repaired \subseteq Lines
  BY DEF Repaired
<1>3. CASE coordinator_node
  BY <1>3 DEF coordinator_node, Ready, RepairInv, Repaired
<1>4. CASE synthesizer_node
  <2>1. /\ phase = "work" /\ UNCHANGED <<line, iteration, findings>>
        /\ phase' \notin {"plan", "work"}
        /\ phase' = "fix" =>
             route_after_synthesis(findings, iteration) = "remediation_loop"
    BY <1>4 DEF synthesizer_node, Ready, AfterRoute, route_after_synthesis
  <2>2. ASSUME phase' = "fix"
        PROVE  iteration + 1 <= Cardinality(Repaired \cup Named)
    <3>1. PICK f \in Fixable(findings, iteration) : TRUE
      BY <2>1, <2>2 DEF route_after_synthesis
    <3>2. f.id \in Named /\ f.id \notin Repaired /\ f.id \in Lines
      BY <2>1, <3>1, NamedAreLines DEF Named, RepairInv, Repaired
    <3>3. Repaired \cup {f.id} \subseteq Repaired \cup Named
      BY <3>2
    <3>4. Cardinality(Repaired \cup {f.id}) = Cardinality(Repaired) + 1
      BY <1>2, <3>2, RepairedIsFinite, FS_AddElement
    <3>5. Cardinality(Repaired \cup {f.id}) <= Cardinality(Repaired \cup Named)
      BY <1>2, <3>3, NamedAreLines, RepairedIsFinite
    <3>6. Cardinality(Repaired) \in Nat /\ Cardinality(Repaired \cup Named) \in Nat
      BY <1>2, NamedAreLines, RepairedIsFinite
    <3>7. QED
      BY <1>1, <3>4, <3>5, <3>6 DEF RepairInv
  <2>3. QED
    BY <2>1, <2>2 DEF RepairInv, Repaired, Named
<1>5. CASE apply_fix
  <2>1. /\ phase = "fix" /\ phase' = "work" /\ UNCHANGED findings
        /\ line' = Patched(Named) /\ iteration' = iteration + 1
    BY <1>5 DEF apply_fix, NextPass
  <2>2. Repaired' = Repaired \cup Named
    BY <1>1, <2>1, NamedAreLines DEF Repaired, Patched
  <2>3. iteration' <= Cardinality(Repaired')
    BY <2>1, <2>2 DEF RepairInv
  <2>4. \A f \in findings' : f.iteration \in Nat /\ f.iteration <= iteration
    BY <2>1 DEF RepairInv, OfflineTypeOK, Finding
  <2>5. Fixable(findings', iteration') = {}
    BY <1>1, <2>1, <2>4 DEF Fixable, blocking_findings, current_findings
  <2>6. QED
    BY <1>1, <2>1, <2>3, <2>4, <2>5 DEF RepairInv
<1>6. CASE hitl_approval \/ apply_decision \/ persist_report \/ Human
  BY <1>6 DEF hitl_approval, apply_decision, persist_report, Human, resume_review,
       Goes, RepairInv, Repaired
<1>7. CASE node_raises
  <2>1. /\ phase' = "aborted" /\ UNCHANGED <<iteration, findings>>
        /\ UNCHANGED line \/ \E written \in SUBSET Named : line' = Patched(written)
    BY <1>7, RaiseLeaves
  <2>2. PICK written \in SUBSET Named : Repaired' = Repaired \cup written
    <3>1. CASE UNCHANGED line
      <4>1. Repaired' = Repaired \cup {}
        BY <3>1 DEF Repaired
      <4>2. QED
        BY <4>1
    <3>2. CASE \E written \in SUBSET Named : line' = Patched(written)
      <4>1. PICK written \in SUBSET Named : line' = Patched(written)
        BY <3>2
      <4>2. Repaired' = Repaired \cup written
        BY <1>1, <4>1, NamedAreLines DEF Repaired, Patched
      <4>3. QED
        BY <4>2
    <3>3. QED
      BY <2>1, <3>1, <3>2
  <2>3. Cardinality(Repaired) <= Cardinality(Repaired')
        /\ Cardinality(Repaired) \in Nat /\ Cardinality(Repaired') \in Nat
    BY <2>2, NamedAreLines, RepairedIsFinite DEF Repaired
  <2>4. iteration' <= Cardinality(Repaired')
    BY <1>1, <2>1, <2>3 DEF RepairInv
  <2>5. QED
    BY <2>1, <2>4 DEF RepairInv
<1>8. QED
  BY <1>3, <1>4, <1>5, <1>6, <1>7 DEF Graph

\* A killed pass may keep some of its repairs, and names the same lines when it
\* is redone.
LEMMA KillKeepsRepairs ==
  ASSUME OfflineTypeOK, RepairInv, Killed
  PROVE  RepairInv'
<1>1. UNCHANGED <<phase, iteration>> /\ iteration \in Nat
      /\ line \in [Lines -> Content]
  BY MaxIterAssumption
  DEF Killed, killed_in_a_pass, killed_in_apply_fix, killed_after_the_passes, Kill,
      OfflineTypeOK
<1>2. CASE killed_in_a_pass
  <2>1. findings' \subseteq findings /\ UNCHANGED line
    BY <1>2 DEF killed_in_a_pass
  <2>2. Fixable(findings', iteration) \subseteq Fixable(findings, iteration)
    BY <2>1 DEF Fixable, blocking_findings, current_findings
  <2>3. phase # "fix"
    BY <1>2 DEF killed_in_a_pass
  <2>4. QED
    BY <1>1, <2>1, <2>2, <2>3 DEF RepairInv, Repaired
<1>3. CASE killed_in_apply_fix
  <2>1. PICK written \in SUBSET Named : line' = Patched(written)
    BY <1>3 DEF killed_in_apply_fix
  <2>2. UNCHANGED findings /\ phase = "fix"
    BY <1>3 DEF killed_in_apply_fix
  <2>3. Repaired' = Repaired \cup written
    BY <1>1, <2>1, NamedAreLines DEF Repaired, Patched
  <2>4. Named' = Named
    BY <1>1, <2>2 DEF Named
  <2>5. Repaired' \cup Named' = Repaired \cup Named
    BY <2>1, <2>3, <2>4
  <2>6. Cardinality(Repaired) <= Cardinality(Repaired')
        /\ Cardinality(Repaired) \in Nat /\ Cardinality(Repaired') \in Nat
    BY <2>1, <2>3, NamedAreLines, RepairedIsFinite DEF Repaired
  <2>7. iteration' <= Cardinality(Repaired')
    BY <1>1, <2>6 DEF RepairInv
  <2>8. QED
    BY <1>1, <2>2, <2>5, <2>7 DEF RepairInv
<1>4. CASE killed_after_the_passes
  BY <1>1, <1>4 DEF killed_after_the_passes, RepairInv, Repaired
<1>5. QED
  BY <1>2, <1>3, <1>4 DEF Killed

\* A review makes no more passes than it repairs lines, whatever the agents
\* report, the tools lose or a kill interrupts.
THEOREM NoPassForNothing == Spec => []EveryPassRepairs
<1>1. Init => RepairInv
  <2>1. ASSUME Init PROVE RepairInv
    <3>1. findings = {} /\ iteration = 0 /\ phase = "plan"
      BY <2>1 DEF Init
    <3>2. Cardinality(Repaired) \in Nat
      BY RepairedIsFinite DEF Repaired
    <3>3. QED
      BY <3>1, <3>2 DEF RepairInv, Fixable, blocking_findings, current_findings
  <2>2. QED
    BY <2>1
<1>2. OfflineTypeOK /\ CallsInv /\ RepairInv /\ [Next]_vars => RepairInv'
  <2> SUFFICES ASSUME OfflineTypeOK, CallsInv, RepairInv, [Next]_vars
               PROVE  RepairInv'
    OBVIOUS
  <2>1. ASSUME NEW a \in Agents, Agent(a) PROVE RepairInv'
    BY <2>1, AgentKeepsRepairs
  <2>2. CASE UNCHANGED vars
    BY <2>2 DEF vars, graph, RepairInv, Repaired, Named
  <2>3. QED
    BY <2>1, <2>2, GraphKeepsRepairs, KillKeepsRepairs DEF Next
<1>3. RepairInv => EveryPassRepairs
  BY DEF RepairInv, EveryPassRepairs, Repaired
<1>4. QED
  BY <1>1, <1>2, <1>3, OfflineTypes, AccountsBalance, PTL DEF Spec

(***************************************************************************)
(* The contract.                                                           *)
(***************************************************************************)

\* What a node can rely on: a human has been asked exactly if the assessment
\* was critical, and the verdict that goes into the report is theirs or one the
\* assessment allows.
VerdictInv ==
  /\ phase \in {"plan", "work", "fix", "ask", "waiting"} => answer = Undecided
  /\ phase = "fix" => riskOf = "high"
  /\ phase \in {"ask", "waiting", "decide"} => riskOf = "critical"
  /\ phase = "decide" => answer # Undecided
  /\ phase \in {"report", "end"} =>
       IF answer = Undecided
       THEN /\ decision \in Decision
            /\ riskOf # "critical"
            /\ decision = "APPROVE" => riskOf = "clean"
       ELSE decision = IF answer \in Approvals THEN "APPROVE" ELSE "BLOCK_MERGE"

\* The route and the floor under the verdict follow the worst finding in scope.
LEMMA SynthesisFollowsWorst ==
  ASSUME synthesizer_node
  PROVE  LET W == WorstOf(current_findings(findings, iteration))
         IN /\ phase' \in {"ask", "fix", "report"}
            /\ riskOf' = W
            /\ phase' = "ask" <=> W = "critical"
            /\ phase' = "fix" => W = "high"
            /\ decision' \in Decision
            /\ decision' = "APPROVE" => W = "clean"
<1> DEFINE F == current_findings(findings, iteration)
           route == route_after_synthesis(findings, iteration)
<1>1. /\ decision' = Reconcile(synthesis(router, F), F)
      /\ phase' = AfterRoute[route]
      /\ UNCHANGED <<findings, iteration>>
  BY DEF synthesizer_node
<1>2. synthesis(router, F) \in Decision
  BY DEF synthesis, synthesis_from_findings, Decision
<1>3. /\ decision' \in Decision
      /\ decision' = "APPROVE" => WorstOf(F) = "clean"
  BY <1>1, <1>2 DEF Reconcile, Decision, WorstOf
<1>4. /\ route = "hitl_approval" <=> WorstOf(F) = "critical"
      /\ route = "remediation_loop" => WorstOf(F) = "high"
      /\ route \in {"hitl_approval", "remediation_loop", "finalize"}
  BY DEF route_after_synthesis, WorstOf
<1>5. phase' \in {"ask", "fix", "report"}
      /\ (phase' = "ask" <=> route = "hitl_approval")
      /\ (phase' = "fix" <=> route = "remediation_loop")
  BY <1>1, <1>4 DEF AfterRoute
<1>6. riskOf' = WorstOf(F)
  BY <1>1, <1>5 DEF riskOf
<1>7. QED
  BY <1>3, <1>4, <1>5, <1>6

\* Nothing is known of the code before a synthesis.
LEMMA Unassessed ==
  ASSUME phase \in {"plan", "work"}
  PROVE  riskOf = "unknown"
BY DEF riskOf

\* A node after it leaves the findings in scope alone.
LEMMA RiskKept ==
  ASSUME UNCHANGED <<findings, iteration>>,
         phase \notin {"plan", "work"}, phase' \notin {"plan", "work"}
  PROVE  riskOf' = riskOf
BY DEF riskOf

\* The steps after the synthesis, for the two proofs that go through them.
LEMMA AfterTheSynthesis ==
  ASSUME hitl_approval \/ Human \/ apply_decision \/ persist_report
         \/ node_raises \/ killed_in_apply_fix \/ killed_after_the_passes
  PROVE  /\ UNCHANGED <<iteration, findings>>
         /\ riskOf' = riskOf
<1>1. /\ UNCHANGED <<iteration, findings>>
      /\ phase \notin {"plan", "work"} /\ phase' \notin {"plan", "work"}
  BY RaiseLeaves
  DEF hitl_approval, Human, resume_review, apply_decision, persist_report, Goes,
      killed_in_apply_fix, killed_after_the_passes, Kill
<1>2. QED
  BY <1>1, RiskKept

\* The verdict and the answer are what the node at hand relies on.
LEMMA VerdictsHold == Spec => []VerdictInv
<1>1. Init => VerdictInv
  BY DEF Init, VerdictInv
<1>2. OfflineTypeOK /\ CallsInv /\ VerdictInv /\ [Next]_vars => VerdictInv'
  <2> SUFFICES ASSUME OfflineTypeOK, CallsInv, VerdictInv, [Next]_vars
               PROVE  VerdictInv'
    OBVIOUS
  <2>1. ASSUME NEW a \in Agents, Agent(a) PROVE VerdictInv'
    <3>1. phase \in {"plan", "work"} /\ UNCHANGED <<phase, answer>>
      BY <2>1, AgentLeaves, OthersWait
    <3>2. QED
      BY <3>1 DEF VerdictInv
  <2>2. CASE coordinator_node \/ apply_fix
    <3>1. phase' = "work" /\ UNCHANGED answer /\ phase \in {"plan", "fix"}
      BY <2>2 DEF coordinator_node, apply_fix, NextPass, Ready
    <3>2. QED
      BY <3>1 DEF VerdictInv
  <2>3. CASE synthesizer_node
    <3>1. phase = "work" /\ UNCHANGED answer
      BY <2>3 DEF synthesizer_node, Ready
    <3>2. QED
      BY <2>3, <3>1, SynthesisFollowsWorst DEF VerdictInv
  <2>4. CASE hitl_approval
    <3>1. phase = "ask" /\ phase' = "waiting" /\ UNCHANGED <<answer, decision>>
      BY <2>4 DEF hitl_approval, Goes
    <3>2. QED
      BY <2>4, <3>1, AfterTheSynthesis DEF VerdictInv
  <2>5. CASE Human
    <3>1. phase = "waiting" /\ phase' = "decide" /\ answer' \in HumanChoice
      BY <2>5 DEF Human, resume_review, Goes
    <3>2. answer' # Undecided
      BY <3>1 DEF HumanChoice, Approvals, Undecided
    <3>3. QED
      BY <2>5, <3>1, <3>2, AfterTheSynthesis DEF VerdictInv
  <2>6. CASE apply_decision
    <3>1. /\ phase = "decide" /\ phase' = "report" /\ UNCHANGED answer
          /\ decision' = IF answer \in Approvals THEN "APPROVE" ELSE "BLOCK_MERGE"
      BY <2>6 DEF apply_decision, Goes
    <3>2. QED
      BY <3>1 DEF VerdictInv
  <2>7. CASE persist_report
    <3>1. phase = "report" /\ phase' = "end" /\ UNCHANGED <<answer, decision>>
      BY <2>7 DEF persist_report, Goes
    <3>2. QED
      BY <2>7, <3>1, AfterTheSynthesis DEF VerdictInv
  <2>8. CASE killed_in_a_pass
    <3>1. phase \in {"plan", "work"} /\ UNCHANGED <<phase, answer>>
      BY <2>8 DEF killed_in_a_pass, Kill
    <3>2. QED
      BY <3>1 DEF VerdictInv
  <2>9. CASE killed_in_apply_fix \/ killed_after_the_passes
    <3>1. UNCHANGED <<phase, answer, decision>>
      BY <2>9 DEF killed_in_apply_fix, killed_after_the_passes, Kill
    <3>2. QED
      BY <2>9, <3>1, AfterTheSynthesis DEF VerdictInv
  <2>10. CASE node_raises
    BY <2>10, RaiseLeaves DEF VerdictInv
  <2>11. CASE UNCHANGED vars
    BY <2>11 DEF vars, graph, VerdictInv, riskOf
  <2>12. QED
    BY <2>1, <2>2, <2>3, <2>4, <2>5, <2>6, <2>7, <2>8, <2>9, <2>10, <2>11
    DEF Next, Graph, Killed
<1>3. QED
  BY <1>1, <1>2, OfflineTypes, AccountsBalance, PTL DEF Spec

\* What the contract sees of a step that changes nothing it speaks of.
LEMMA Stutter ==
  ASSUME UNCHANGED <<phaseOf, riskOf, iteration, answer>>,
         phase # "end", phase' # "end"
  PROVE  [Contract!Next]_(Contract!vars)
BY DEF Contract!vars

\* Every step of an offline review is a step of the contract or leaves what it
\* speaks of alone.
LEMMA ContractStep ==
  OfflineTypeOK /\ RoomForAPass /\ CallsInv /\ VerdictInv /\ [Next]_vars
    => [Contract!Next]_(Contract!vars)
<1> SUFFICES ASSUME OfflineTypeOK, RoomForAPass, CallsInv, VerdictInv, [Next]_vars
             PROVE  [Contract!Next]_(Contract!vars)
  OBVIOUS
<1>1. ASSUME phase \in {"plan", "work"}, phase' \in {"plan", "work"},
             UNCHANGED <<iteration, answer>>
      PROVE  [Contract!Next]_(Contract!vars)
  <2>1. riskOf = "unknown" /\ riskOf' = "unknown"
    BY <1>1 DEF riskOf
  <2>2. phaseOf = "working" /\ phaseOf' = "working"
    BY <1>1 DEF phaseOf
  <2>3. QED
    BY <1>1, <2>1, <2>2, Stutter
<1>2. ASSUME NEW a \in Agents, Agent(a) PROVE [Contract!Next]_(Contract!vars)
  BY <1>1, <1>2, AgentLeaves, OthersWait
<1>3. CASE coordinator_node
  BY <1>1, <1>3 DEF coordinator_node, Ready
<1>4. CASE synthesizer_node
  <2>1. phase = "work" /\ phase' \in {"ask", "fix", "report"}
        /\ UNCHANGED <<iteration, answer>>
    BY <1>4, SynthesisFollowsWorst DEF synthesizer_node, Ready
  <2>2. riskOf = "unknown" /\ phaseOf = "working" /\ phaseOf' = "working"
    BY <2>1, Unassessed DEF phaseOf
  <2>3. riskOf' \in {"critical", "high", "clean"}
    BY <1>4, SynthesisFollowsWorst DEF WorstOf
  <2>4. Contract!Assess
    BY <2>1, <2>2, <2>3 DEF Contract!Assess, Contract!Risks
  <2>5. QED
    BY <2>4 DEF Contract!Next
<1>5. CASE apply_fix
  <2>1. /\ phase = "fix" /\ phase' = "work" /\ iteration' = iteration + 1
        /\ iteration < MaxIter /\ UNCHANGED answer
    BY <1>5 DEF apply_fix, NextPass, RoomForAPass
  <2>2. riskOf = "high" /\ riskOf' = "unknown"
        /\ phaseOf = "working" /\ phaseOf' = "working"
    BY <2>1 DEF VerdictInv, riskOf, phaseOf
  <2>3. Contract!Patch
    BY <2>1, <2>2 DEF Contract!Patch
  <2>4. QED
    BY <2>3 DEF Contract!Next
<1>6. CASE hitl_approval
  <2>1. /\ phase = "ask" /\ phase' = "waiting" /\ UNCHANGED <<iteration, answer>>
        /\ riskOf = "critical" /\ riskOf' = riskOf /\ answer = Undecided
    BY <1>6, AfterTheSynthesis DEF hitl_approval, Goes, VerdictInv
  <2>2. Contract!Ask
    BY <2>1 DEF Contract!Ask, phaseOf, Undecided
  <2>3. QED
    BY <2>2 DEF Contract!Next
<1>7. CASE Human
  <2>1. PICK choice \in HumanChoice : resume_review(choice)
    BY <1>7 DEF Human
  <2>2. /\ phase = "waiting" /\ phase' = "decide" /\ answer' = choice
        /\ riskOf' = riskOf /\ UNCHANGED iteration
    BY <1>7, <2>1, AfterTheSynthesis DEF resume_review, Goes
  <2>3. Contract!Answer(choice)
    BY <2>2 DEF Contract!Answer, phaseOf
  <2>4. QED
    BY <2>3 DEF Contract!Next
<1>8. CASE apply_decision
  <2>1. phase = "decide" /\ phase' = "report" /\ UNCHANGED <<iteration, answer>>
        /\ riskOf' = riskOf
    BY <1>8, AfterTheSynthesis DEF apply_decision, Goes
  <2>2. QED
    BY <2>1, Stutter DEF phaseOf
<1>9. CASE persist_report
  <2>1. /\ phase = "report" /\ phase' = "end"
        /\ UNCHANGED <<iteration, answer, decision>> /\ riskOf' = riskOf
    BY <1>9, AfterTheSynthesis DEF persist_report, Goes
  <2>2. riskOf \in {"critical", "high", "clean"}
    BY <2>1 DEF riskOf, WorstOf
  <2>3. decision \in Contract!Allowed
    <3>1. CASE answer # Undecided
      BY <2>1, <3>1 DEF VerdictInv, Contract!Allowed, Undecided
    <3>2. CASE answer = Undecided
      BY <2>1, <2>2, <3>2
      DEF VerdictInv, Contract!Allowed, Contract!Decisions, Decision, Undecided
    <3>3. QED
      BY <3>1, <3>2
  <2>4. Contract!Publish
    BY <2>1, <2>3 DEF Contract!Publish, phaseOf
  <2>5. QED
    BY <2>4 DEF Contract!Next
<1>10. CASE killed_in_a_pass
  BY <1>1, <1>10 DEF killed_in_a_pass, Kill
<1>11. CASE killed_in_apply_fix \/ killed_after_the_passes
  <2>1. phase # "end" /\ UNCHANGED <<phase, iteration, answer>> /\ riskOf' = riskOf
    BY <1>11, AfterTheSynthesis
    DEF killed_in_apply_fix, killed_after_the_passes, Kill
  <2>2. QED
    BY <2>1, Stutter DEF phaseOf
<1>12. CASE node_raises
  <2>1. /\ phase \in {"fix", "report"} /\ phase' = "aborted"
        /\ UNCHANGED <<iteration, answer>> /\ riskOf' = riskOf
    BY <1>12, RaiseLeaves, AfterTheSynthesis
  <2>2. Contract!Abort
    BY <2>1 DEF Contract!Abort, phaseOf
  <2>3. QED
    BY <2>2 DEF Contract!Next
<1>13. CASE UNCHANGED vars
  BY <1>13 DEF vars, graph, Contract!vars, phaseOf, riskOf
<1>14. QED
  BY <1>2, <1>3, <1>4, <1>5, <1>6, <1>7, <1>8, <1>9, <1>10, <1>11, <1>12, <1>13
  DEF Next, Graph, Killed

\* The scripted review implements the contract of the review with a model, for
\* any scripts, contents and limits, and wherever it is killed.
THEOREM OfflineImplementsContract == Spec => OfflineKeepsContract
<1>1. Init => Contract!Init
  BY DEF Init, Contract!Init, phaseOf, riskOf, Undecided
<1>2. QED
  BY <1>1, ContractStep, OfflineTypes, AccountsBalance, VerdictsHold, PTL
  DEF Spec, OfflineKeepsContract, Contract!Spec

(***************************************************************************)
(* Arithmetic of a script that is replayed, and of results that are cut.   *)
(***************************************************************************)

\* Of two decompositions of a number by L the remainders agree.
LEMMA OneRemainder ==
  ASSUME NEW L \in Nat \ {0}, NEW p \in Int, NEW q \in Int,
         NEW r \in 0..(L - 1), NEW s \in 0..(L - 1), p * L + r = q * L + s
  PROVE  r = s
<1>1. (p - q) * L = s - r
  OBVIOUS
<1>2. CASE p - q >= 1
  <2>1. (p - q) * L >= L
    BY <1>2
  <2>2. QED
    BY <1>1, <2>1
<1>3. CASE p - q <= -1
  <2>1. (p - q) * L <= -L
    BY <1>3
  <2>2. QED
    BY <1>1, <2>1
<1>4. CASE p - q = 0
  BY <1>4
<1>5. QED
  BY <1>2, <1>3, <1>4

\* Division as the provers know it.
LEMMA Divided ==
  ASSUME NEW L \in Nat \ {0}, NEW c \in Nat
  PROVE  /\ c \div L \in Nat
         /\ (c % L) \in 0..(L - 1)
         /\ c = (c \div L) * L + (c % L)
OBVIOUS

\* The cursor of a script of L replies goes on to the next, or to the top.
LEMMA NextReply ==
  ASSUME NEW L \in Nat \ {0}, NEW c \in Nat, NEW s \in Nat, s < L, c % L = s
  PROVE  (c + 1) % L = IF s + 1 = L THEN 0 ELSE s + 1
<1> DEFINE p == c \div L
           q == (c + 1) \div L
           t == (c + 1) % L
<1>1. c = p * L + s /\ p \in Nat
  BY Divided
<1>2. c + 1 = q * L + t /\ q \in Nat /\ t \in 0..(L - 1)
  <2>1. c + 1 \in Nat
    OBVIOUS
  <2> HIDE DEF q, t
  <2>2. QED
    BY <2>1, Divided DEF q, t
<1> HIDE DEF p, q, t
<1>3. CASE s + 1 = L
  <2>1. (p + 1) * L + 0 = q * L + t
    BY <1>1, <1>2, <1>3
  <2>2. t = 0
    BY <1>1, <1>2, <2>1, OneRemainder
  <2>3. QED
    BY <1>3, <2>2 DEF t
<1>4. CASE s + 1 < L
  <2>1. p * L + (s + 1) = q * L + t
    BY <1>1, <1>2, <1>4
  <2>2. t = s + 1
    BY <1>1, <1>2, <1>4, <2>1, OneRemainder
  <2>3. QED
    BY <1>4, <2>2 DEF t
<1>5. QED
  BY <1>3, <1>4

\* A list is never cut to nothing, and cut to one it had two at most.
LEMMA KeepSome ==
  ASSUME NEW n \in Nat
  PROVE  /\ keep(n) \in Nat /\ keep(n) >= 1
         /\ keep(n) = 1 => n <= 2
BY DEF keep, AtLeastOne

\* A set of lines that is not empty has a first one.
LEMMA FirstLine ==
  ASSUME NEW S, S \subseteq Nat, S # {}
  PROVE  \E l \in S : \A k \in S : ~(k < l)
<1>1. PICK l \in S : \A k \in S : ~(<<k, l>> \in OpToRel(<, Nat))
  BY NatLessThanWellFounded, WFMin, Zenon
<1>2. \A k \in S : k < l => <<k, l>> \in OpToRel(<, Nat)
  BY Zenon DEF OpToRel
<1>3. QED
  BY <1>1, <1>2

\* Of n findings shown, one at least is shown unless n is none, and all are
\* unless n is less than there are.
LEMMA FirstOfSome ==
  ASSUME NEW S, S \subseteq Lines, NEW n \in Nat
  PROVE  /\ FirstOf(S, n) \subseteq S
         /\ n >= 1 /\ S # {} => FirstOf(S, n) # {}
         /\ n = Cardinality(S) => FirstOf(S, n) = S
<1>1. S \subseteq Nat /\ IsFiniteSet(S)
  BY LinesAssumption, FS_Subset
<1>2. ASSUME n >= 1, S # {} PROVE FirstOf(S, n) # {}
  <2>1. PICK l \in S : \A k \in S : ~(k < l)
    BY <1>1, <1>2, FirstLine
  <2>2. {k \in S : k < l} = {}
    BY <2>1
  <2>3. Cardinality({k \in S : k < l}) = 0
    BY <2>2, FS_EmptySet
  <2>4. l \in FirstOf(S, n)
    BY <1>2, <2>3 DEF FirstOf
  <2>5. QED
    BY <2>4
<1>3. ASSUME n = Cardinality(S), NEW l \in S PROVE l \in FirstOf(S, n)
  <2>1. {k \in S : k < l} \subseteq S \ {l}
    BY <1>1
  <2>2. /\ Cardinality(S \ {l}) = Cardinality(S) - 1
        /\ IsFiniteSet(S \ {l})
    BY <1>1, FS_RemoveElement
  <2>3. Cardinality({k \in S : k < l}) <= Cardinality(S \ {l})
    BY <2>1, <2>2, FS_Subset
  <2>4. /\ Cardinality({k \in S : k < l}) \in Nat
        /\ Cardinality(S) \in Nat
    BY <1>1, <2>1, <2>2, FS_Subset, FS_CardinalityType
  <2>5. QED
    BY <1>3, <2>2, <2>3, <2>4 DEF FirstOf
<1>4. QED
  BY <1>2, <1>3 DEF FirstOf

(***************************************************************************)
(* Earned approvals.  The agents whose reports are reactive replay their   *)
(* scripts from the top in every pass, so that each has called the tool it *)
(* reports on when it concludes; what it was shown is of the working copy  *)
(* it reports on, and is reported; an approval follows from the reports.   *)
(***************************************************************************)
Lookers == DOMAIN Evidence

ScriptOf(a) == Script["review"][a]

Running(a) == at[a].pos \in {"react", "tool", "trim"}

\* The cursor is at the top of the script, or as far on as the run has taken
\* steps.
OnScript(a) ==
  /\ Running(a) => at[a].step < Len(ScriptOf(a))
  /\ cursor[a] % Len(ScriptOf(a)) = IF Running(a) THEN at[a].step ELSE 0

Sought(a) == FindingsOf(Evidence[a], line)

\* What it was shown is there, and is all there is if it says so.
ShownTruly(a) ==
  /\ shown[a].lines \subseteq Sought(a)
  /\ shown[a].whole => shown[a].lines = Sought(a)

ReportsShown(a) ==
  at[a].pos = "done" =>
    \A r \in ReportOf("review", a, shown[a].lines, line) :
      Stamp(r, a, iteration) \in findings

HasAsked(a) == \E i \in 1..at[a].step : ScriptOf(a)[i] = Evidence[a]

Looked(a) == shown[a].whole \/ shown[a].lines # {}

\* A result on its way that will show something, if there is something.
WillShow(p, S) ==
  /\ p.named
  /\ p.fixed = 0
  /\ p.items = Cardinality(S) \/ (p.items >= 1 /\ S # {})
  /\ p.last => p.items <= 1 /\ p.files <= 2

\* As long as no tool has failed.
Attentive(a) ==
  /\ at[a].pos = "done" => Looked(a)
  /\ Running(a) /\ HasAsked(a) =>
       Looked(a) \/ (at[a].pos # "react" /\ at[a].tool = Evidence[a])
  /\ at[a].pos = "trim" /\ at[a].tool = Evidence[a] => WillShow(at[a].out, Sought(a))

LookInv(a) ==
  /\ OnScript(a)
  /\ phase # "plan" => at[a].pos # "off"
  /\ phase \notin {"fix", "aborted"} => ShownTruly(a) /\ ReportsShown(a) /\ (faults = 0 => Attentive(a))

\* Nothing genuine above low.
Approvable(F) == \A f \in F : f.fp \/ f.severity \in {"info", "low"}

EarnedInv ==
  /\ router = "review" => \A a \in Lookers : LookInv(a)
  /\ phase \in {"report", "end"} /\ decision = "APPROVE" /\ answer = Undecided =>
       router = "review" /\ Approvable(current_findings(findings, iteration))

\* Who looks, and with what.
LEMMA LookerFacts ==
  /\ Lookers = {"SecurityAgent", "StyleAgent"}
  /\ Lookers \subseteq Agents
  /\ Evidence["SecurityAgent"] = "scan_secrets"
  /\ Evidence["StyleAgent"] = "run_ruff"
  /\ \A a \in Lookers : Evidence[a] \in TOOLS /\ Evidence[a] # "conclude"
BY DEF Lookers, Evidence, Agents, AGENT_TOOLS, TOOLS

\* Their scripts, as they are assumed to be.
LEMMA ScriptFacts ==
  ASSUME NEW a \in Lookers
  PROVE  /\ Len(ScriptOf(a)) \in Nat \ {0}
         /\ Len(ScriptOf(a)) <= MaxSteps
         /\ \A i \in 1..Len(ScriptOf(a)) :
              ScriptOf(a)[i] = "conclude" <=> i = Len(ScriptOf(a))
         /\ \E i \in 1..(Len(ScriptOf(a)) - 1) : ScriptOf(a)[i] = Evidence[a]
<1>1. /\ Len(ScriptOf(a)) \in 1..MaxSteps
      /\ \A i \in 1..Len(ScriptOf(a)) :
           ScriptOf(a)[i] = "conclude" <=> i = Len(ScriptOf(a))
      /\ \E i \in 1..Len(ScriptOf(a)) : ScriptOf(a)[i] = Evidence[a]
  BY ReviewScriptAssumption DEF ScriptOf, Lookers
<1>2. PICK i \in 1..Len(ScriptOf(a)) : ScriptOf(a)[i] = Evidence[a]
  BY <1>1
<1>3. i # Len(ScriptOf(a))
  BY <1>1, <1>2, LookerFacts
<1>4. i \in 1..(Len(ScriptOf(a)) - 1)
  BY <1>1, <1>3
<1>5. QED
  BY <1>1, <1>2, <1>4, MaxStepsAssumption

\* The reply to a run of so many steps is the next in the script.
LEMMA ScriptedReply ==
  ASSUME OfflineTypeOK, router = "review", NEW a \in Lookers, OnScript(a),
         NEW reply, Asks(a, reply)
  PROVE  /\ reply = ScriptOf(a)[at[a].step + 1]
         /\ at[a].step + 1 \in 1..Len(ScriptOf(a))
         /\ cursor'[a] % Len(ScriptOf(a)) =
              IF reply = "conclude" THEN 0 ELSE at[a].step + 1
         /\ reply = "conclude" <=> at[a].step + 1 = Len(ScriptOf(a))
<1> DEFINE L == Len(ScriptOf(a))
           s == at[a].step
<1>1. a \in Agents /\ at[a].pos = "react" /\ reply = invoke(router, a, cursor[a])
      /\ cursor' = [cursor EXCEPT ![a] = @ + 1]
  BY LookerFacts DEF Asks
<1>2. cursor[a] \in Nat /\ cursor'[a] = cursor[a] + 1 /\ s \in Nat
  BY <1>1, MaxStepsAssumption DEF OfflineTypeOK
<1>3. s < L /\ cursor[a] % L = s
  BY <1>1 DEF OnScript, Running
<1>4. L \in Nat \ {0} /\ \A i \in 1..L : ScriptOf(a)[i] = "conclude" <=> i = L
  BY ScriptFacts
<1>5. s + 1 \in 1..L
  BY <1>2, <1>3, <1>4
<1>6. reply = ScriptOf(a)[s + 1]
  <2>1. Script["review"][a] # << >>
    BY <1>4 DEF ScriptOf
  <2>2. reply = ScriptOf(a)[(cursor[a] % L) + 1]
    BY <1>1, <2>1 DEF invoke, ScriptOf
  <2>3. QED
    BY <1>3, <2>2
<1> HIDE DEF L, s
<1>7. (cursor[a] + 1) % L = IF s + 1 = L THEN 0 ELSE s + 1
  BY <1>2, <1>3, <1>4, NextReply
<1>8. reply = "conclude" <=> s + 1 = L
  BY <1>4, <1>5, <1>6
<1>9. QED
  BY <1>2, <1>5, <1>6, <1>7, <1>8 DEF L, s

(***************************************************************************)
(* What becomes of a result on its way.                                    *)
(***************************************************************************)

\* The tool that is reported on names itself and returns all it found.
LEMMA ResultShows ==
  ASSUME NEW a \in Lookers
  PROVE  WillShow(Result(Evidence[a], Cardinality(Sought(a))), Sought(a))
BY LookerFacts DEF WillShow, Result, Analysers

\* Shortening takes no list away, and a list cut to one was the longest.
LEMMA ShorteningShows ==
  ASSUME NEW p \in Payload, NEW S, Cardinality(S) \in Nat, WillShow(p, S),
         ~p.excerpt, p[Longest(p)] # 0
  PROVE  WillShow(shortened(p), S)
<1>1. p.items \in Nat /\ p.files \in Nat
  BY DEF Payload
<1>2. CASE Longest(p) = "items"
  <2>1. p.items >= p.files /\ p.items >= 1
    BY <1>1, <1>2 DEF Longest
  <2>2. S # {}
    BY <1>1, <2>1, FS_EmptySet DEF WillShow
  <2>3. /\ keep(p.items) \in Nat /\ keep(p.items) >= 1
        /\ keep(p.items) = 1 => p.files <= 2
    BY <1>1, <2>1, KeepSome
  <2>4. /\ shortened(p).items = keep(p.items) /\ shortened(p).files = p.files
        /\ shortened(p).last = (keep(p.items) = 1)
        /\ shortened(p).named = p.named /\ shortened(p).fixed = p.fixed
    BY <1>2 DEF shortened, Payload
  <2>5. QED
    BY <2>2, <2>3, <2>4 DEF WillShow
<1>3. CASE Longest(p) = "files"
  <2>1. p.items < p.files
    BY <1>1, <1>3 DEF Longest
  <2>2. keep(p.files) = 1 => p.items <= 1
    BY <1>1, <2>1, KeepSome
  <2> DEFINE q == [p EXCEPT !["files"] = keep(p["files"]),
                            !.last = keep(p["files"]) = 1]
  <2>3. shortened(p) = q
    BY <1>3, Zenon DEF shortened
  <2>4. q.items = p.items
    BY DEF Payload
  <2>5. q.files = keep(p.files)
    BY DEF Payload
  <2>6. q.last => keep(p.files) = 1
    BY DEF Payload
  <2>7. q.named = p.named /\ q.fixed = p.fixed
    BY DEF Payload
  <2> HIDE DEF q
  <2>8. WillShow(q, S)
    <3>1. q.last => q.items <= 1 /\ q.files <= 2
      BY <1>1, <2>2, <2>4, <2>5, <2>6
    <3>2. QED
      BY <2>4, <2>7, <3>1 DEF WillShow
  <2>9. QED
    BY <2>3, <2>8
<1>4. QED
  BY <1>2, <1>3 DEF Longest

\* Excerpts are not what is looked for.
LEMMA DroppingShows ==
  ASSUME NEW p \in Payload, NEW S, WillShow(p, S)
  PROVE  WillShow(drop_excerpts(p), S)
BY DEF WillShow, drop_excerpts, Payload

\* A result that fits, or cannot be shortened, is read whole.
LEMMA WillBeRead ==
  ASSUME NEW p \in Payload, NEW S, WillShow(p, S), Oversize(p) => AtItsLast(p)
  PROVE  Readable(p)
<1>1. /\ p.items \in Nat /\ p.files \in Nat /\ p.fixed = 0
      /\ BaseSize \in Nat /\ ItemSize \in Nat /\ ExcerptSize \in Nat
      /\ MAX_TOOL_OUTPUT_CHARS \in Nat /\ MAX_OBSERVATION_CHARS \in Nat
  BY SizesAssumption DEF Payload, WillShow
<1>2. CASE ~Oversize(p)
  <2>1. Size(p) \in Nat
    BY <1>1 DEF Size
  <2>2. Size(p) <= MAX_TOOL_OUTPUT_CHARS
    BY <1>1, <1>2, <2>1 DEF Oversize
  <2>3. QED
    BY <1>1, <2>1, <2>2, ObservationAssumption DEF Readable
<1>3. CASE AtItsLast(p)
  <2>1. ~p.excerpt
    BY <1>3 DEF AtItsLast
  <2>2. p.items \in {0, 1} /\ p.files <= 2
    <3>1. CASE p.last
      BY <1>1, <3>1 DEF WillShow
    <3>2. CASE p[Longest(p)] = 0
      BY <1>1, <3>2 DEF Longest
    <3>3. QED
      BY <1>3, <3>1, <3>2 DEF AtItsLast
  <2>3. ItemSize * p.items <= ItemSize /\ ItemSize * p.items \in Nat
    <3>1. CASE p.items = 0
      BY <1>1, <3>1
    <3>2. CASE p.items = 1
      BY <1>1, <3>2
    <3>3. QED
      BY <2>2, <3>1, <3>2
  <2>4. Size(p) <= BaseSize + ItemSize + 2
    BY <1>1, <2>1, <2>2, <2>3 DEF Size
  <2>5. Size(p) \in Nat
    BY <1>1, <2>1, <2>3 DEF Size
  <2>6. QED
    BY <1>1, <2>4, <2>5, ObservationAssumption DEF Readable
<1>4. QED
  BY <1>2, <1>3

(***************************************************************************)
(* The steps of a pass.                                                    *)
(***************************************************************************)

\* Whatever leaves an agent and what it looks at alone keeps its part.
LEMMA LookKept ==
  ASSUME NEW a \in Lookers, LookInv(a),
         at'[a] = at[a], shown'[a] = shown[a],
         cursor'[a] % Len(ScriptOf(a)) = cursor[a] % Len(ScriptOf(a)),
         iteration' = iteration, phase' \notin {"fix", "aborted"} => line' = line,
         \A r : Stamp(r, a, iteration) \in findings
                  => Stamp(r, a, iteration) \in findings',
         faults' = 0 => faults = 0,
         phase' # "plan" => phase # "plan", phase' \notin {"fix", "aborted"} => phase \notin {"fix", "aborted"}
  PROVE  LookInv(a)'
<1>1. OnScript(a)'
  BY DEF LookInv, OnScript, Running, ScriptOf
<1>2. phase' # "plan" => at'[a].pos # "off"
  BY DEF LookInv
<1>3. Looked(a)' = Looked(a) /\ HasAsked(a)' = HasAsked(a)
  BY DEF Looked, HasAsked, ScriptOf
<1>4. ASSUME phase' \notin {"fix", "aborted"} PROVE line' = line /\ Sought(a)' = Sought(a)
  BY <1>4 DEF Sought, FindingsOf
<1>5. ASSUME phase' \notin {"fix", "aborted"} PROVE ShownTruly(a)' /\ ReportsShown(a)'
  BY <1>4, <1>5 DEF LookInv, ShownTruly, ReportsShown
<1>6. ASSUME phase' \notin {"fix", "aborted"}, faults' = 0 PROVE Attentive(a)'
  BY <1>3, <1>4, <1>6 DEF LookInv, Attentive, Running
<1>7. QED
  BY <1>1, <1>2, <1>5, <1>6 DEF LookInv

\* The top of any script.
LEMMA Top ==
  ASSUME NEW L \in Nat \ {0}
  PROVE  0 % L = 0
<1> DEFINE q == 0 \div L
           r == 0 % L
<1>1. 0 = q * L + r /\ q \in Nat /\ r \in 0..(L - 1)
  BY Divided
<1> HIDE DEF q, r
<1>2. 0 * L + 0 = q * L + r
  BY <1>1
<1>3. r = 0
  BY <1>1, <1>2, OneRemainder
<1>4. QED
  BY <1>3 DEF r

\* An agent that starts has its script before it.
LEMMA StartsAttentive ==
  ASSUME NEW a \in Lookers, at'[a] = Starting, shown'[a] = NothingSeen,
         cursor'[a] % Len(ScriptOf(a)) = 0
  PROVE  LookInv(a)'
<1>1. at'[a].pos = "react" /\ at'[a].step = 0
  BY DEF Starting, Away
<1>2. OnScript(a)'
  BY <1>1, ScriptFacts DEF OnScript, Running, ScriptOf
<1>3. ShownTruly(a)' /\ ReportsShown(a)'
  BY <1>1 DEF ShownTruly, ReportsShown, NothingSeen
<1>4. Attentive(a)'
  <2>1. ~HasAsked(a)'
    BY <1>1 DEF HasAsked
  <2>2. QED
    BY <1>1, <2>1 DEF Attentive
<1>5. QED
  BY <1>1, <1>2, <1>3, <1>4 DEF LookInv

\* A view read field by field.
LEMMA ViewFields ==
  ASSUME NEW r, NEW X, NEW B \in BOOLEAN, r = [lines |-> X, whole |-> B]
  PROVE  r.lines = X /\ (r.whole <=> B)
OBVIOUS

\* What an agent is shown is there, and a result that will show something does.
LEMMA ObservedShows ==
  ASSUME OfflineTypeOK, NEW a \in Lookers, ShownTruly(a),
         Oversize(at[a].out) => AtItsLast(at[a].out),
         shown' = [shown EXCEPT ![a] = Observed(a)], UNCHANGED line
  PROVE  /\ ShownTruly(a)'
         /\ at[a].tool # Evidence[a] => shown'[a] = shown[a]
         /\ at[a].tool = Evidence[a] /\ WillShow(at[a].out, Sought(a)) => Looked(a)'
<1> DEFINE p == at[a].out
           S == Sought(a)
           X == FirstOf(S, p.items)
           B == p.items = Cardinality(S)
           seen == [lines |-> X, whole |-> B]
<1>1. a \in Agents /\ p \in Payload /\ p.items \in Nat
  BY LookerFacts DEF OfflineTypeOK, Payload
<1>2. shown'[a] = Observed(a) /\ Sought(a)' = S
  BY <1>1 DEF OfflineTypeOK, Sought, FindingsOf
<1>3. S \subseteq Lines /\ Cardinality(S) \in Nat
  BY ToolTypes DEF Sought
<1>4. /\ FirstOf(S, p.items) \subseteq S
      /\ p.items >= 1 /\ S # {} => FirstOf(S, p.items) # {}
      /\ p.items = Cardinality(S) => FirstOf(S, p.items) = S
  BY <1>1, <1>3, FirstOfSome
<1>5. shown'[a] = seen => /\ shown'[a].lines = X
                          /\ shown'[a].whole <=> p.items = Cardinality(S)
  <2> DEFINE r == shown'[a]
  <2>1. B \in BOOLEAN
    OBVIOUS
  <2> HIDE DEF X, B, r
  <2>2. r = seen => r.lines = X /\ (r.whole <=> B)
    BY <2>1, ViewFields
  <2>3. QED
    BY <2>2 DEF r, B
<1>6. CASE at[a].tool # Evidence[a]
  <2>1. Observed(a) = shown[a]
    BY <1>6 DEF Observed
  <2>2. QED
    BY <1>2, <1>6, <2>1 DEF ShownTruly
<1>7. CASE at[a].tool = Evidence[a]
  <2>1. Observed(a) = IF p.named /\ Readable(p) THEN seen ELSE shown[a]
    BY <1>7 DEF Observed, Sought, Lookers
  <2>2. ShownTruly(a)'
    <3>1. CASE shown'[a] = shown[a]
      BY <1>2, <3>1 DEF ShownTruly
    <3>2. CASE shown'[a] = seen
      BY <1>2, <1>4, <1>5, <3>2 DEF ShownTruly
    <3>3. QED
      BY <1>2, <2>1, <3>1, <3>2
  <2>3. ASSUME WillShow(p, S) PROVE Looked(a)'
    <3>1. p.named /\ Readable(p)
      BY <1>1, <2>3, WillBeRead DEF WillShow
    <3>2. shown'[a] = seen
      BY <1>2, <2>1, <3>1
    <3>3. QED
      BY <1>4, <1>5, <2>3, <3>2 DEF WillShow, Looked
  <2>4. QED
    BY <1>7, <2>2, <2>3
<1>8. QED
  BY <1>6, <1>7

\* A looker concludes when its script ends, with what it was shown.
LEMMA LookerConcludes ==
  ASSUME OfflineTypeOK, router = "review", NEW a \in Lookers, LookInv(a),
         phase \notin {"fix", "aborted"}, no_further_actions(a)
  PROVE  LookInv(a)'
<1>1. a \in Agents /\ at[a].pos = "react" /\ Asks(a, "conclude") /\ conclude(a)
  BY LookerFacts DEF no_further_actions, Asks
<1>2. /\ at'[a] = [at[a] EXCEPT !.pos = "done"]
      /\ UNCHANGED <<phase, line, iteration, shown, faults>>
  BY <1>1 DEF OfflineTypeOK, conclude, graph
<1>3. at'[a].pos = "done"
  BY <1>1, <1>2 DEF OfflineTypeOK
<1>4. OnScript(a) /\ ShownTruly(a)
  BY DEF LookInv
<1>5. /\ at[a].step + 1 = Len(ScriptOf(a))
      /\ cursor'[a] % Len(ScriptOf(a)) = 0
  BY <1>1, <1>4, ScriptedReply
<1>6. OnScript(a)'
  BY <1>3, <1>5 DEF OnScript, Running, ScriptOf
<1>7. ShownTruly(a)'
  BY <1>2, <1>4 DEF ShownTruly, Sought, FindingsOf
<1>8. ReportsShown(a)'
  BY <1>1, <1>2 DEF ReportsShown, conclude
<1>9. ASSUME faults' = 0 PROVE Attentive(a)'
  <2>1. at[a].step \in Nat /\ Len(ScriptOf(a)) \in Nat
    BY <1>1, MaxStepsAssumption, ScriptFacts DEF OfflineTypeOK
  <2>2. at[a].step = Len(ScriptOf(a)) - 1
    BY <1>5, <2>1
  <2>3. HasAsked(a)
    BY <2>2, ScriptFacts DEF HasAsked
  <2>4. Looked(a)
    BY <1>1, <1>2, <1>9, <2>3 DEF LookInv, Attentive, Running
  <2>5. QED
    BY <1>2, <1>3, <2>4 DEF Attentive, Looked, Running
<1>10. QED
  BY <1>3, <1>6, <1>7, <1>8, <1>9 DEF LookInv

\* A looker asks for the next tool of its script, and once for its own.
LEMMA LookerAsks ==
  ASSUME OfflineTypeOK, router = "review", NEW a \in Lookers, LookInv(a),
         phase \notin {"fix", "aborted"}, NEW tool \in TOOLS, dispatch_denied(a, tool) \/ dispatch(a, tool)
  PROVE  LookInv(a)'
<1>1. a \in Agents /\ at[a].pos = "react" /\ Asks(a, tool) /\ tool # "conclude"
  BY LookerFacts DEF dispatch_denied, dispatch, Asks, TOOLS
<1>2. UNCHANGED <<phase, line, iteration, shown, findings, faults>>
  BY DEF dispatch_denied, dispatch, graph
<1>3. OnScript(a) /\ ShownTruly(a) /\ (faults = 0 => Attentive(a))
  BY DEF LookInv
<1>4. /\ tool = ScriptOf(a)[at[a].step + 1]
      /\ at[a].step + 1 \in 1..Len(ScriptOf(a))
      /\ cursor'[a] % Len(ScriptOf(a)) = at[a].step + 1
      /\ at[a].step + 1 # Len(ScriptOf(a))
  BY <1>1, <1>3, ScriptedReply
<1>5. at[a].step \in Nat /\ Len(ScriptOf(a)) \in Nat
  BY <1>1, MaxStepsAssumption, ScriptFacts DEF OfflineTypeOK
<1>6. /\ at'[a].step = at[a].step + 1
      /\ \/ at'[a].pos = "react" /\ tool \notin allowed_tools(a)
         \/ at'[a].pos = "tool" /\ at'[a].tool = tool
  BY <1>1 DEF OfflineTypeOK, dispatch_denied, dispatch
<1>7. OnScript(a)'
  BY <1>4, <1>5, <1>6 DEF OnScript, Running, ScriptOf
<1>8. ShownTruly(a)' /\ ReportsShown(a)'
  BY <1>2, <1>3, <1>6 DEF ShownTruly, ReportsShown, Sought, FindingsOf
<1>9. ASSUME faults' = 0 PROVE Attentive(a)'
  <2>1. Looked(a)' = Looked(a) /\ (HasAsked(a) => Looked(a))
    BY <1>1, <1>2, <1>3, <1>9 DEF Attentive, Running, Looked
  <2>2. HasAsked(a)' => HasAsked(a) \/ tool = Evidence[a]
    BY <1>4, <1>5, <1>6 DEF HasAsked, ScriptOf
  <2>3. Evidence[a] \in allowed_tools(a)
    BY LookerFacts DEF allowed_tools, AGENT_TOOLS
  <2>4. QED
    BY <1>6, <2>1, <2>2, <2>3 DEF Attentive
<1>10. QED
  BY <1>6, <1>7, <1>8, <1>9 DEF LookInv

\* What its tool returned is on its way, or it is told that the tool failed.
LEMMA LookerHears ==
  ASSUME OfflineTypeOK, router = "review", NEW a \in Lookers, LookInv(a),
         phase \notin {"fix", "aborted"}, Agent(a), Returned(a) \/ run_tool_raises(a)
  PROVE  LookInv(a)'
<1>1. a \in Agents /\ at[a].pos = "tool" /\ faults \in Nat
  BY LookerFacts, MaxFaultsAssumption DEF Returned, run_tool_raises, OfflineTypeOK
<1>2. UNCHANGED <<phase, line, iteration, shown, findings, cursor>>
  BY DEF Returned, run_tool_raises, graph
<1>3. /\ at'[a].pos \in {"trim", "react"}
      /\ at'[a].step = at[a].step /\ at'[a].tool = at[a].tool
  <2>1. at \in [Agents -> AgentAt] /\ at[a] \in AgentAt
    BY <1>1 DEF OfflineTypeOK, AgentAt
  <2>2. CASE Returned(a)
    <3>1. PICK payload \in Payload : Returns(a, payload)
      BY <2>2 DEF Returned
    <3>2. at'[a] = [at[a] EXCEPT !.pos = "trim", !.out = payload]
      BY <1>1, <2>1, <3>1 DEF Returns
    <3>3. QED
      BY <2>1, <3>2 DEF AgentAt
  <2>3. CASE run_tool_raises(a)
    BY <1>1, <2>1, <2>3 DEF run_tool_raises, AgentAt
  <2>4. QED
    BY <2>2, <2>3
<1>4. OnScript(a)'
  BY <1>1, <1>2, <1>3 DEF LookInv, OnScript, Running, ScriptOf
<1>5. ShownTruly(a)' /\ ReportsShown(a)'
  BY <1>2, <1>3 DEF LookInv, ShownTruly, ReportsShown, Sought, FindingsOf
<1>6. ASSUME faults' = 0 PROVE Attentive(a)'
  <2>1. run_tool(a)
    BY <1>1, <1>6
    DEF Agent, budget_exhausted, no_further_actions, dispatch_denied, dispatch, Asks,
        run_tool_times_out, run_tool_unreadable, run_tool_without_tests,
        run_tool_refuses, run_tool_raises, shrink, observe
  <2>2. /\ faults = 0
        /\ at'[a].pos = "trim"
        /\ at'[a].out = Result(at[a].tool, Cardinality(FindingsOf(at[a].tool, line)))
    BY <1>1, <1>6, <2>1 DEF OfflineTypeOK, run_tool, Returns
  <2>3. Attentive(a)
    BY <2>2 DEF LookInv
  <2>4. Looked(a)' = Looked(a) /\ HasAsked(a)' = HasAsked(a) /\ Sought(a)' = Sought(a)
    BY <1>2, <1>3 DEF Looked, HasAsked, Sought, FindingsOf, ScriptOf
  <2>5. at[a].tool = Evidence[a] => WillShow(at'[a].out, Sought(a))
    BY <2>2, ResultShows DEF Sought
  <2>6. QED
    BY <1>1, <1>3, <2>2, <2>3, <2>4, <2>5 DEF Attentive, Running
<1>7. QED
  BY <1>3, <1>4, <1>5, <1>6 DEF LookInv

\* However it is shortened it shows something.
LEMMA LookerShrinks ==
  ASSUME OfflineTypeOK, router = "review", NEW a \in Lookers, LookInv(a),
         phase \notin {"fix", "aborted"}, shrink(a)
  PROVE  LookInv(a)'
<1> DEFINE p == at[a].out
<1>1. a \in Agents /\ at[a].pos = "trim" /\ ~AtItsLast(p) /\ p \in Payload
  BY LookerFacts DEF shrink, OfflineTypeOK
<1>2. UNCHANGED <<phase, line, iteration, shown, findings, cursor, faults>>
  BY DEF shrink, graph, process
<1>3. /\ at'[a].pos = "trim" /\ at'[a].step = at[a].step
      /\ at'[a].tool = at[a].tool
      /\ at'[a].out = IF p.excerpt THEN drop_excerpts(p) ELSE shortened(p)
  BY <1>1 DEF OfflineTypeOK, shrink
<1>4. OnScript(a)'
  BY <1>1, <1>2, <1>3 DEF LookInv, OnScript, Running, ScriptOf
<1>5. ShownTruly(a)' /\ ReportsShown(a)'
  BY <1>2, <1>3 DEF LookInv, ShownTruly, ReportsShown, Sought, FindingsOf
<1>6. ASSUME faults' = 0 PROVE Attentive(a)'
  <2>1. Attentive(a)
    BY <1>2, <1>6 DEF LookInv
  <2>2. Looked(a)' = Looked(a) /\ HasAsked(a)' = HasAsked(a) /\ Sought(a)' = Sought(a)
    BY <1>2, <1>3 DEF Looked, HasAsked, Sought, FindingsOf, ScriptOf
  <2>3. Cardinality(Sought(a)) \in Nat
    BY ToolTypes DEF Sought
  <2>4. WillShow(p, Sought(a)) => WillShow(at'[a].out, Sought(a))
    <3>1. CASE p.excerpt
      BY <1>1, <1>3, <3>1, DroppingShows
    <3>2. CASE ~p.excerpt
      <4>1. p[Longest(p)] # 0
        BY <1>1, <3>2 DEF AtItsLast
      <4>2. QED
        BY <1>1, <1>3, <2>3, <3>2, <4>1, ShorteningShows
    <3>3. QED
      BY <3>1, <3>2
  <2>5. QED
    BY <1>1, <1>3, <2>1, <2>2, <2>4 DEF Attentive, Running
<1>7. QED
  BY <1>3, <1>4, <1>5, <1>6 DEF LookInv

\* And when it is observed it has.
LEMMA LookerObserves ==
  ASSUME OfflineTypeOK, router = "review", NEW a \in Lookers, LookInv(a),
         phase \notin {"fix", "aborted"}, observe(a)
  PROVE  LookInv(a)'
<1>1. a \in Agents /\ at[a].pos = "trim" /\ (Oversize(at[a].out) => AtItsLast(at[a].out))
  BY LookerFacts DEF observe
<1>2. /\ UNCHANGED <<phase, line, iteration, findings, cursor, faults>>
      /\ shown' = [shown EXCEPT ![a] = Observed(a)]
  BY DEF observe, graph
<1>3. at'[a].pos = "react" /\ at'[a].step = at[a].step
  BY <1>1 DEF OfflineTypeOK, observe
<1>4. OnScript(a)'
  BY <1>1, <1>2, <1>3 DEF LookInv, OnScript, Running, ScriptOf
<1>5. /\ ShownTruly(a)'
      /\ at[a].tool # Evidence[a] => shown'[a] = shown[a]
      /\ at[a].tool = Evidence[a] /\ WillShow(at[a].out, Sought(a)) => Looked(a)'
  BY <1>1, <1>2, ObservedShows DEF LookInv
<1>6. ReportsShown(a)'
  BY <1>3 DEF ReportsShown
<1>7. ASSUME faults' = 0 PROVE Attentive(a)'
  <2>1. Attentive(a) /\ (HasAsked(a)' <=> HasAsked(a))
    BY <1>2, <1>3, <1>7 DEF LookInv, HasAsked, ScriptOf
  <2>2. HasAsked(a) => Looked(a)'
    <3>1. CASE at[a].tool = Evidence[a]
      BY <1>1, <1>5, <2>1, <3>1 DEF Attentive
    <3>2. CASE at[a].tool # Evidence[a]
      BY <1>1, <1>5, <2>1, <3>2 DEF Attentive, Looked, Running
    <3>3. QED
      BY <3>1, <3>2
  <2>3. QED
    BY <1>3, <2>1, <2>2 DEF Attentive
<1>8. QED
  BY <1>3, <1>4, <1>5, <1>6, <1>7 DEF LookInv

\* So that every step of its loop keeps a looker attentive.
LEMMA LookerSteps ==
  ASSUME OfflineTypeOK, router = "review", NEW a \in Lookers, LookInv(a),
         phase \notin {"fix", "aborted"}, Agent(a)
  PROVE  LookInv(a)'
<1>1. a \in Agents
  BY LookerFacts
<1>2. CASE budget_exhausted(a)
  <2>1. at[a].step < Len(ScriptOf(a)) /\ at[a].step = MaxSteps
    BY <1>2 DEF budget_exhausted, LookInv, OnScript, Running
  <2>2. Len(ScriptOf(a)) \in Nat /\ Len(ScriptOf(a)) <= MaxSteps
    BY ScriptFacts
  <2>3. QED
    BY <2>1, <2>2, MaxStepsAssumption
<1>3. QED
  BY <1>1, <1>2, AgentSteps, LookerConcludes, LookerAsks, LookerHears, LookerShrinks,
     LookerObserves

\* So that the others keep their part.
LEMMA OthersLook ==
  ASSUME OfflineTypeOK, NEW a \in Agents, Agent(a), NEW b \in Lookers \ {a}, LookInv(b)
  PROVE  LookInv(b)'
<1>1. b \in Agents \ {a}
  BY LookerFacts
<1>2. UNCHANGED <<phase, line, iteration>>
  BY AgentLeaves
<1>3. QED
  BY <1>1, <1>2, OwnPlaceOnly, LookKept

\* An agent that is at rest has its script before it.
LEMMA AtRest ==
  ASSUME NEW a \in Lookers, LookInv(a), at[a].pos \in {"off", "done"}
  PROVE  /\ cursor[a] % Len(ScriptOf(a)) = 0
         /\ 0 % Len(ScriptOf(a)) = 0
BY Top, ScriptFacts DEF LookInv, OnScript, Running

\* Both who look are sent out in every pass.
LEMMA LookersScheduled ==
  ASSUME router = "review", NEW S, Schedule(S),
         \/ S = {AgentOf[n] : n \in fan_out_to_specialists(Delegated[router])}
         \/ S = {AgentOf[n] : n \in fan_out_after_fix(Delegated[router])},
         UNCHANGED cursor, NEW a \in Lookers, LookInv(a), at[a].pos \in {"off", "done"}
  PROVE  LookInv(a)'
<1>1. Delegated[router] = {"SecurityAgent", "StyleAgent", "TestCoverageAgent"}
  BY DEF Delegated, SPECIALISTS
<1>2. /\ {"security_agent", "style_agent"} \subseteq
           fan_out_to_specialists(Delegated[router])
      /\ {"security_agent", "style_agent"} \subseteq fan_out_after_fix(Delegated[router])
  BY <1>1 DEF fan_out_to_specialists, fan_out_after_fix, NodeOf, SPECIALISTS
<1>3. AgentOf["security_agent"] = "SecurityAgent" /\ AgentOf["style_agent"] = "StyleAgent"
  BY DEF AgentOf
<1>4. {AgentOf["security_agent"], AgentOf["style_agent"]} \subseteq S
  BY <1>2
<1>5. a \in S /\ a \in Agents
  BY <1>3, <1>4, LookerFacts
<1>6. at'[a] = Starting /\ shown'[a] = NothingSeen
  BY <1>5 DEF Schedule
<1>7. cursor'[a] % Len(ScriptOf(a)) = 0
  BY AtRest
<1>8. QED
  BY <1>6, <1>7, StartsAttentive

\* An approval has nothing genuine above low behind it, and is not the critical
\* router's.
LEMMA ApprovalFromReports ==
  ASSUME OfflineTypeOK, synthesizer_node, decision' = "APPROVE"
  PROVE  router = "review" /\ Approvable(current_findings(findings, iteration))
<1> DEFINE F == current_findings(findings, iteration)
<1>1. decision' = Reconcile(synthesis(router, F), F)
  BY DEF synthesizer_node
<1>2. synthesis(router, F) = "APPROVE"
  BY <1>1 DEF Reconcile
<1>3. router # "critical"
  BY <1>2 DEF synthesis
<1>4. router = "review" /\ synthesis_from_findings(F) = "APPROVE"
  BY <1>2, <1>3 DEF synthesis, OfflineTypeOK, Routers
<1>5. ASSUME NEW f \in F, ~f.fp PROVE f.severity \in {"info", "low"}
  <2> DEFINE genuine == {SEVERITY_ORDER[g.severity] : g \in {h \in F : ~h.fp}}
  <2>1. SEVERITY_ORDER[f.severity] \in genuine
    BY <1>5
  <2>2. ~(SEVERITY_ORDER[f.severity] >= SEVERITY_ORDER["medium"])
    BY <1>4, <2>1 DEF synthesis_from_findings
  <2>3. f.severity \in Severity
    BY <1>5 DEF OfflineTypeOK, current_findings, Finding
  <2>4. QED
    BY <2>2, <2>3 DEF Severity, SEVERITY_ORDER
<1>6. QED
  BY <1>4, <1>5 DEF Approvable

\* A new process finds a looker at rest, or starts it over.
LEMMA LookerRestarted ==
  ASSUME OfflineTypeOK, CallsInv, NEW a \in Lookers, LookInv(a), Killed
  PROVE  LookInv(a)'
<1>1. a \in Agents /\ cursor'[a] = 0 /\ UNCHANGED <<phase, iteration, faults>>
  BY LookerFacts
  DEF Killed, killed_in_a_pass, killed_in_apply_fix, killed_after_the_passes, Kill
<1>2. CASE killed_in_a_pass
  <2>1. PICK kept \in SUBSET {b \in Agents : at[b].pos = "done"} :
          LET again == {b \in Agents : at[b].pos # "off"} \ kept
          IN /\ at' = [b \in Agents |-> IF b \in again THEN Starting ELSE at[b]]
             /\ shown' = [b \in Agents |-> IF b \in again THEN NothingSeen
                                           ELSE shown[b]]
             /\ findings' = {f \in findings :
                               f.iteration = iteration => f.agent \notin again}
    BY <1>2 DEF killed_in_a_pass
  <2> DEFINE again == {b \in Agents : at[b].pos # "off"} \ kept
  <2>2. CASE a \in again
    <3>1. at'[a] = Starting /\ shown'[a] = NothingSeen
      BY <1>1, <2>1, <2>2
    <3>2. cursor'[a] % Len(ScriptOf(a)) = 0
      BY <1>1, Top, ScriptFacts
    <3>3. QED
      BY <3>1, <3>2, StartsAttentive
  <2>3. CASE a \notin again
    <3>1. at'[a] = at[a] /\ shown'[a] = shown[a] /\ at[a].pos \in {"off", "done"}
      BY <1>1, <2>1, <2>3
    <3>2. cursor'[a] % Len(ScriptOf(a)) = cursor[a] % Len(ScriptOf(a))
      BY <1>1, <3>1, AtRest
    <3>3. \A r : Stamp(r, a, iteration) \in findings
                   => Stamp(r, a, iteration) \in findings'
      BY <2>1, <2>3 DEF Stamp
    <3>4. line' = line
      BY <1>2 DEF killed_in_a_pass
    <3>5. QED
      BY <1>1, <3>1, <3>2, <3>3, <3>4, LookKept
  <2>4. QED
    BY <2>2, <2>3
<1>3. CASE killed_in_apply_fix \/ killed_after_the_passes
  <2>1. /\ phase \in {"fix", "ask", "waiting", "decide", "report"}
        /\ UNCHANGED <<findings, at, shown>>
        /\ phase' \notin {"fix", "aborted"} => line' = line
    BY <1>1, <1>3 DEF killed_in_apply_fix, killed_after_the_passes, loops
  <2>2. at[a].pos \in {"off", "done"}
    BY <1>1, <2>1 DEF CallsInv, Quiet
  <2>3. cursor'[a] % Len(ScriptOf(a)) = cursor[a] % Len(ScriptOf(a))
    BY <1>1, <2>2, AtRest
  <2>4. QED
    BY <1>1, <2>1, <2>3, LookKept
<1>4. QED
  BY <1>2, <1>3 DEF Killed

\* In every step those who look keep their part.
LEMMA LookersStep ==
  ASSUME OfflineTypeOK, CallsInv, router = "review", NEW a \in Lookers, LookInv(a), Next
  PROVE  LookInv(a)'
<1>1. a \in Agents
  BY LookerFacts
<1>2. ASSUME NEW b \in Agents, Agent(b) PROVE LookInv(a)'
  <2>1. phase \notin {"fix", "aborted"}
    BY <1>2, OthersWait
  <2>2. QED
    BY <1>1, <1>2, <2>1, LookerSteps, OthersLook
<1>3. CASE coordinator_node
  <2>1. /\ at[a].pos \in {"off", "done"} /\ UNCHANGED cursor
        /\ Schedule({AgentOf[n] : n \in fan_out_to_specialists(Delegated[router])})
    BY <1>1, <1>3 DEF coordinator_node, Ready, process
  <2>2. QED
    BY <2>1, LookersScheduled
<1>4. CASE apply_fix
  <2>1. phase = "fix" /\ UNCHANGED cursor
        /\ Schedule({AgentOf[n] : n \in fan_out_after_fix(Delegated[router])})
    BY <1>4 DEF apply_fix, NextPass, process
  <2>2. at[a].pos \in {"off", "done"}
    BY <1>1, <2>1 DEF CallsInv, Quiet
  <2>3. QED
    BY <2>1, <2>2, LookersScheduled
<1>5. CASE synthesizer_node \/ hitl_approval \/ apply_decision \/ persist_report \/ Human
  <2>1. /\ phase \in {"work", "ask", "waiting", "decide", "report"}
        /\ UNCHANGED <<line, iteration, findings, at, shown, cursor, faults>>
    BY <1>5 DEF synthesizer_node, Ready, hitl_approval, apply_decision, persist_report,
                Human, resume_review, Goes, loops, process
  <2>2. QED
    BY <2>1, LookKept
<1>6. CASE node_raises
  <2>1. /\ phase' = "aborted" /\ phase # "plan"
        /\ UNCHANGED <<iteration, findings, at, shown, cursor, faults>>
    BY <1>6, RaiseLeaves
  <2>2. QED
    BY <2>1, LookKept
<1>7. CASE Killed
  BY <1>7, LookerRestarted
<1>8. QED
  BY <1>2, <1>3, <1>4, <1>5, <1>6, <1>7 DEF Next, Graph

\* What an approval follows from is decided by the synthesis, and stays.
LEMMA ApprovalStays ==
  ASSUME OfflineTypeOK, CallsInv, VerdictInv, EarnedInv, Next,
         phase' \in {"report", "end"}, decision' = "APPROVE", answer' = Undecided
  PROVE  router' = "review" /\ Approvable(current_findings(findings', iteration'))
<1>1. ASSUME NEW a \in Agents, Agent(a) PROVE FALSE
  BY <1>1, AgentLeaves, OthersWait
<1>2. CASE synthesizer_node
  <2>1. UNCHANGED <<router, findings, iteration>>
    BY <1>2 DEF synthesizer_node
  <2>2. QED
    BY <1>2, <2>1, ApprovalFromReports
<1>3. CASE persist_report
  <2>1. phase = "report" /\ UNCHANGED <<router, findings, iteration, decision, answer>>
    BY <1>3 DEF persist_report, Goes
  <2>2. QED
    BY <2>1 DEF EarnedInv
<1>4. CASE killed_after_the_passes
  <2>1. UNCHANGED <<phase, router, findings, iteration, decision, answer>>
    BY <1>4 DEF killed_after_the_passes, Kill
  <2>2. QED
    BY <2>1 DEF EarnedInv
<1>5. CASE apply_decision
  <2>1. phase = "decide" /\ UNCHANGED answer
    BY <1>5 DEF apply_decision, Goes
  <2>2. QED
    BY <2>1 DEF VerdictInv
<1>6. ~(coordinator_node \/ apply_fix \/ hitl_approval \/ Human \/ killed_in_a_pass
        \/ killed_in_apply_fix \/ node_raises)
  BY RaiseLeaves DEF coordinator_node, apply_fix, NextPass, hitl_approval, Human, resume_review,
         Goes, killed_in_a_pass, killed_in_apply_fix, Kill
<1>7. QED
  BY <1>1, <1>2, <1>3, <1>4, <1>5, <1>6 DEF Next, Graph, Killed

\* The invariant the approvals rest on.
LEMMA EarnedHolds == Spec => []EarnedInv
<1>1. Init => EarnedInv
  <2> SUFFICES ASSUME Init PROVE EarnedInv
    OBVIOUS
  <2>1. ASSUME NEW a \in Lookers PROVE LookInv(a)
    <3>1. /\ at[a].pos = "off" /\ shown[a] = NothingSeen /\ cursor[a] = 0
          /\ phase = "plan"
      BY LookerFacts DEF Init, Away
    <3>2. OnScript(a)
      BY <3>1, Top, ScriptFacts DEF OnScript, Running
    <3>3. ShownTruly(a) /\ ReportsShown(a) /\ Attentive(a)
      BY <3>1 DEF ShownTruly, ReportsShown, Attentive, Running, NothingSeen
    <3>4. QED
      BY <3>1, <3>2, <3>3 DEF LookInv
  <2>2. phase = "plan"
    BY DEF Init
  <2>3. QED
    BY <2>1, <2>2 DEF EarnedInv
<1>2. OfflineTypeOK /\ CallsInv /\ VerdictInv /\ EarnedInv /\ [Next]_vars => EarnedInv'
  <2> SUFFICES ASSUME OfflineTypeOK, CallsInv, VerdictInv, EarnedInv, [Next]_vars
               PROVE  EarnedInv'
    OBVIOUS
  <2>1. CASE Next
    <3>1. router' = router
      <4>1. ASSUME NEW a \in Agents, Agent(a) PROVE router' = router
        BY <4>1, AgentLeaves
      <4>2. CASE Graph \/ Human \/ Killed
        BY <4>2, RaiseLeaves
        DEF Graph, coordinator_node, synthesizer_node, apply_fix, hitl_approval,
            apply_decision, persist_report, Goes, Human, resume_review, Killed,
            killed_in_a_pass, killed_in_apply_fix, killed_after_the_passes, Kill
      <4>3. QED
        BY <2>1, <4>1, <4>2 DEF Next
    <3>2. router' = "review" => \A a \in Lookers : LookInv(a)'
      BY <2>1, <3>1, LookersStep DEF EarnedInv
    <3>3. QED
      BY <2>1, <3>2, ApprovalStays DEF EarnedInv, Lookers
  <2>2. CASE UNCHANGED vars
    <3>1. \A a \in Lookers : LookInv(a) => LookInv(a)'
      BY <2>2, LookKept DEF vars, graph, loops, process
    <3>2. QED
      BY <2>2, <3>1 DEF vars, graph, EarnedInv, Lookers
  <2>3. QED
    BY <2>1, <2>2
<1>3. QED
  BY <1>1, <1>2, OfflineTypes, AccountsBalance, VerdictsHold, PTL DEF Spec

\* What a report approves was looked at, in this pass and on this working copy.
THEOREM ApprovalsAreEarned == Spec => []ApprovalIsEarned
<1>1. OfflineTypeOK /\ CallsInv /\ EarnedInv => ApprovalIsEarned
  <2> SUFFICES ASSUME OfflineTypeOK, CallsInv, EarnedInv,
                      phase = "end", decision = "APPROVE", answer = Undecided
               PROVE  /\ shown["SecurityAgent"].whole =>
                           \A l \in Lines : line[l] \notin {"leak", "key", "pii"}
                      /\ shown["StyleAgent"].whole => \A l \in Lines : line[l] # "bare"
                      /\ faults = 0 => \A a \in {"SecurityAgent", "StyleAgent"} :
                                         ~shown[a].whole => shown[a].lines # {}
    BY DEF ApprovalIsEarned
  <2>1. /\ \A f \in current_findings(findings, iteration) :
             f.fp \/ f.severity \in {"info", "low"}
        /\ \A a \in Lookers : LookInv(a)
    BY DEF EarnedInv, Approvable
  <2>2. ASSUME NEW a \in Lookers
        PROVE  /\ ShownTruly(a) /\ (faults = 0 => Looked(a))
               /\ \A r \in ReportOf("review", a, shown[a].lines, line) :
                    r.fp \/ r.severity \in {"info", "low"}
    <3>1. at[a].pos = "done"
      BY <2>1, LookerFacts DEF LookInv, CallsInv, Quiet
    <3>2. ShownTruly(a) /\ ReportsShown(a) /\ (faults = 0 => Attentive(a))
      BY <2>1 DEF LookInv
    <3>3. ASSUME NEW r \in ReportOf("review", a, shown[a].lines, line)
          PROVE  r.fp \/ r.severity \in {"info", "low"}
      <4>1. Stamp(r, a, iteration) \in current_findings(findings, iteration)
        BY <3>1, <3>2 DEF ReportsShown, current_findings, Stamp
      <4>2. QED
        BY <2>1, <4>1 DEF Stamp
    <3>4. QED
      BY <3>1, <3>2, <3>3 DEF Attentive
  <2>3. ASSUME shown["SecurityAgent"].whole, NEW l \in Lines,
               line[l] \in {"leak", "key", "pii"}
        PROVE  FALSE
    <3>1. l \in shown["SecurityAgent"].lines
      BY <2>2, <2>3, LookerFacts DEF ShownTruly, Sought, FindingsOf, scan_text
    <3>2. Found(l, IF line[l] = "fixture" THEN "low"
                   ELSE IF line[l] = "pii" THEN "medium" ELSE "high",
                line[l] = "fixture", line[l] \in {"leak", "pii"})
            \in ReportOf("review", "SecurityAgent", shown["SecurityAgent"].lines, line)
      BY <3>1 DEF ReportOf, security_report_from_tools
    <3>3. QED
      BY <2>2, <2>3, <3>2, LookerFacts DEF Found
  <2>4. ASSUME shown["StyleAgent"].whole, NEW l \in Lines, line[l] = "bare"
        PROVE  FALSE
    <3>1. l \in shown["StyleAgent"].lines
      BY <2>2, <2>4, LookerFacts DEF ShownTruly, Sought, FindingsOf, ruff_violations
    <3>2. Found(l, IF line[l] = "bare" THEN "high" ELSE "info",
                FALSE, line[l] = "bare")
            \in ReportOf("review", "StyleAgent", shown["StyleAgent"].lines, line)
      BY <3>1 DEF ReportOf, style_report_from_tools
    <3>3. QED
      BY <2>2, <2>4, <3>2, LookerFacts DEF Found
  <2>5. QED
    BY <2>2, <2>3, <2>4, LookerFacts DEF Looked
<1>2. QED
  BY <1>1, OfflineTypes, AccountsBalance, EarnedHolds, PTL

-----------------------------------------------------------------------------
(***************************************************************************)
(* That no step goes round.                                                *)
(***************************************************************************)

\* What is left of a list is not more than it was, and less if it was two or
\* more.
LEMMA KeptIsLess ==
  ASSUME NEW n \in Nat \ {0}
  PROVE  keep(n) \in 1..n /\ (n > 1 => keep(n) \in 1..(n - 1))
<1>1. n \div 4 \in Nat
  OBVIOUS
<1>2. AtLeastOne(n \div 4) \in Nat \ {0}
  BY <1>1 DEF AtLeastOne
<1>3. n - AtLeastOne(n \div 4) \in Int /\ n - AtLeastOne(n \div 4) <= n - 1
  BY <1>2
<1>4. QED
  BY <1>3 DEF keep, AtLeastOne

\* Every round of _json() takes something from the result.
LEMMA ShrinkingLightens ==
  ASSUME NEW p \in Payload, ~AtItsLast(p)
  PROVE  Weight(IF p.excerpt THEN drop_excerpts(p) ELSE shortened(p))
           \in 0..(Weight(p) - 1)
<1>1. /\ p.items \in Nat /\ p.files \in Nat /\ p.excerpt \in BOOLEAN
      /\ p.last \in BOOLEAN
  BY DEF Payload
<1>2. CASE p.excerpt
  <2> DEFINE q == drop_excerpts(p)
  <2>1. q.items = p.items /\ q.files = p.files /\ ~q.excerpt /\ q.last = p.last
    BY DEF drop_excerpts, Payload
  <2>2. Weight(q) = p.items + p.files + (IF p.last THEN 0 ELSE 1)
    BY <1>1, <2>1 DEF Weight
  <2>3. Weight(p) = p.items + p.files + 1 + (IF p.last THEN 0 ELSE 1)
    BY <1>1, <1>2 DEF Weight
  <2>4. Weight(q) \in 0..(Weight(p) - 1)
    BY <1>1, <2>2, <2>3
  <2>5. QED
    BY <1>2, <2>4
<1>3. CASE ~p.excerpt
  <2> DEFINE q == shortened(p)
             n == p[Longest(p)]
  <2>1. n \in Nat \ {0} /\ ~p.last
    BY <1>1, <1>3 DEF AtItsLast, Longest
  <2>2. keep(n) \in 1..n /\ (n > 1 => keep(n) \in 1..(n - 1))
    BY <2>1, KeptIsLess
  <2>3. /\ q.excerpt = FALSE /\ q.last = (keep(n) = 1)
        /\ \/ q.items = keep(n) /\ n = p.items /\ q.files = p.files
           \/ q.files = keep(n) /\ n = p.files /\ q.items = p.items
    BY <1>3 DEF shortened, Longest, Payload
  <2>4. Weight(p) = p.items + p.files + 1
    BY <1>1, <1>3, <2>1 DEF Weight
  <2>5. Weight(q) = q.items + q.files + (IF keep(n) = 1 THEN 0 ELSE 1)
    <3>1. q.items \in Nat /\ q.files \in Nat
      BY <1>1, <2>2, <2>3
    <3>2. q.excerpt = FALSE /\ (q.last <=> keep(n) = 1)
      BY <2>3
    <3>3. ASSUME NEW w, w.items \in Nat, w.files \in Nat, w.excerpt = FALSE
          PROVE  Weight(w) = w.items + w.files + (IF w.last THEN 0 ELSE 1)
      BY <3>3 DEF Weight
    <3>4. QED
      BY <3>1, <3>2, <3>3
  <2>6. Weight(q) \in 0..(Weight(p) - 1)
    <3>1. CASE n = 1
      BY <1>1, <2>2, <2>3, <2>4, <2>5, <3>1
    <3>2. CASE n > 1
      BY <1>1, <2>2, <2>3, <2>4, <2>5, <3>2
    <3>3. QED
      BY <2>1, <3>1, <3>2
  <2>7. QED
    BY <1>3, <2>6
<1>4. QED
  BY <1>1, <1>2, <1>3

\* Every step of an agent takes one of its budget, or a stage, or something of
\* a result.
LEMMA AgentAdvances ==
  ASSUME OfflineTypeOK, NEW a \in Agents, Agent(a)
  PROVE  AgentNearer(a)
<1>1. /\ at \in [Agents -> AgentAt] /\ at[a] \in AgentAt
      /\ at[a].step \in 0..MaxSteps /\ MaxSteps \in Nat
  BY MaxStepsAssumption DEF OfflineTypeOK, AgentAt
<1>2. CASE budget_exhausted(a) \/ no_further_actions(a)
  <2>1. at[a].pos = "react" /\ at'[a] = [at[a] EXCEPT !.pos = "done"]
    BY <1>1, <1>2 DEF budget_exhausted, no_further_actions, Asks, conclude
  <2>2. at'[a].pos = "done" /\ at'[a].step = at[a].step
    BY <1>1, <2>1 DEF AgentAt
  <2>3. QED
    BY <2>1, <2>2 DEF AgentNearer, StageLeft
<1>3. ASSUME NEW tool \in TOOLS, dispatch_denied(a, tool) \/ dispatch(a, tool)
      PROVE  AgentNearer(a)
  <2>1. at[a].step < MaxSteps
    BY <1>3 DEF dispatch_denied, dispatch, Asks
  <2>2. \/ at'[a] = [at[a] EXCEPT !.step = @ + 1]
        \/ at'[a] = [at[a] EXCEPT !.pos = "tool", !.step = @ + 1, !.tool = tool]
    BY <1>1, <1>3 DEF dispatch_denied, dispatch
  <2>3. at'[a].step = at[a].step + 1
    BY <1>1, <2>2 DEF AgentAt
  <2>4. QED
    BY <1>1, <2>1, <2>3 DEF AgentNearer
<1>4. CASE Returned(a)
  <2>1. PICK p \in Payload : Returns(a, p)
    BY <1>4 DEF Returned
  <2>2. at'[a] = [at[a] EXCEPT !.pos = "trim", !.out = p]
    BY <1>1, <2>1 DEF Returns
  <2>3. at'[a].pos = "trim" /\ at'[a].step = at[a].step
    BY <1>1, <2>2 DEF AgentAt
  <2>4. at[a].pos = "tool"
    BY <1>4 DEF Returned
  <2>5. QED
    BY <2>3, <2>4 DEF AgentNearer, StageLeft
<1>5. CASE run_tool_raises(a)
  <2>1. at[a].pos = "tool" /\ at'[a] = [at[a] EXCEPT !.pos = "react"]
    BY <1>1, <1>5 DEF run_tool_raises
  <2>2. at'[a].pos = "react" /\ at'[a].step = at[a].step
    BY <1>1, <2>1 DEF AgentAt
  <2>3. QED
    BY <2>1, <2>2 DEF AgentNearer, StageLeft
<1>6. CASE shrink(a)
  <2> DEFINE p == at[a].out
             q == IF p.excerpt THEN drop_excerpts(p) ELSE shortened(p)
  <2>1. p \in Payload /\ ~AtItsLast(p) /\ at'[a] = [at[a] EXCEPT !.out = q]
    BY <1>1, <1>6 DEF shrink, AgentAt
  <2>2. at'[a].pos = at[a].pos /\ at'[a].step = at[a].step /\ at'[a].out = q
    BY <1>1, <2>1 DEF AgentAt
  <2>3. Weight(q) \in 0..(Weight(p) - 1)
    BY <2>1, ShrinkingLightens
  <2>4. QED
    BY <2>2, <2>3 DEF AgentNearer
<1>7. CASE observe(a)
  <2>1. /\ at[a].pos = "trim"
        /\ at' = [at EXCEPT ![a] = [@ EXCEPT !.pos = "react", !.tool = "none",
                                             !.out = ErrorResult]]
    BY <1>7 DEF observe
  <2>2. at'[a].pos = "react" /\ at'[a].step = at[a].step
    BY <1>1, <2>1 DEF AgentAt
  <2>3. QED
    BY <2>1, <2>2 DEF AgentNearer, StageLeft
<1>8. QED
  BY <1>2, <1>3, <1>4, <1>5, <1>6, <1>7, AgentSteps

\* Every node, and the human, brings the review to another phase or pass.
LEMMA GraphAdvances ==
  ASSUME OfflineTypeOK, RoomForAPass, Graph \/ Human
  PROVE  /\ kills' = kills
         /\ \/ iteration' \in (iteration + 1)..MaxIter
            \/ iteration' = iteration /\ PhasesLeft[phase'] < PhasesLeft[phase]
<1>1. iteration \in 0..MaxIter /\ MaxIter \in Nat
  BY MaxIterAssumption DEF OfflineTypeOK
<1>2. CASE coordinator_node
  BY <1>2 DEF coordinator_node, Ready, PhasesLeft
<1>3. CASE synthesizer_node
  <2>1. /\ phase = "work"
        /\ phase' = AfterRoute[route_after_synthesis(findings, iteration)]
        /\ UNCHANGED <<iteration, kills>>
    BY <1>3 DEF synthesizer_node, Ready
  <2>2. phase' \in {"ask", "fix", "report"}
    BY <2>1 DEF AfterRoute, route_after_synthesis
  <2>3. QED
    BY <2>1, <2>2 DEF PhasesLeft
<1>4. CASE apply_fix
  BY <1>1, <1>4 DEF apply_fix, NextPass, RoomForAPass
<1>5. CASE hitl_approval \/ apply_decision \/ persist_report \/ Human
  <2>1. /\ <<phase, phase'>> \in {<<"ask", "waiting">>, <<"waiting", "decide">>,
                                 <<"decide", "report">>, <<"report", "end">>}
        /\ UNCHANGED <<iteration, kills>>
    BY <1>5 DEF hitl_approval, apply_decision, persist_report, Human, resume_review,
         Goes
  <2>2. QED
    BY <2>1 DEF PhasesLeft
<1>6. CASE node_raises
  BY <1>6, RaiseLeaves DEF PhasesLeft
<1>7. QED
  BY <1>2, <1>3, <1>4, <1>5, <1>6 DEF Graph

\* A kill is one of a number of kills; without one a step brings the review on,
\* or one agent while the others stay: whatever lines, scripts, limits and
\* failures, no review goes round.
THEOREM ReviewsOnlyAdvance == Spec => OfflineAdvances
<1> DEFINE Advance ==
      \/ kills' \in (kills + 1)..MaxKills
      \/ kills' = kills /\ iteration' \in (iteration + 1)..MaxIter
      \/ /\ UNCHANGED <<kills, iteration>>
         /\ PhasesLeft[phase'] < PhasesLeft[phase]
      \/ /\ UNCHANGED <<kills, iteration, phase>>
         /\ \E a \in Agents :
              AgentNearer(a) /\ \A b \in Agents \ {a} : at'[b] = at[b]
<1>1. OfflineTypeOK /\ RoomForAPass /\ [Next]_vars => [Advance]_vars
  <2> SUFFICES ASSUME OfflineTypeOK, RoomForAPass, Next
               PROVE  Advance
    OBVIOUS
  <2>1. ASSUME NEW a \in Agents, Agent(a) PROVE Advance
    <3>1. UNCHANGED <<kills, iteration, phase>>
      BY <2>1, AgentLeaves
    <3>2. AgentNearer(a)
      BY <2>1, AgentAdvances
    <3>3. \A b \in Agents \ {a} : at'[b] = at[b]
      BY <2>1, OwnPlaceOnly
    <3>4. QED
      BY <3>1, <3>2, <3>3
  <2>2. CASE Graph \/ Human
    BY <2>2, GraphAdvances
  <2>3. CASE Killed
    <3>1. kills < MaxKills /\ kills' = kills + 1
      BY <2>3 DEF Killed, killed_in_a_pass, killed_in_apply_fix,
           killed_after_the_passes, Kill
    <3>2. kills' \in (kills + 1)..MaxKills
      BY <3>1, MaxKillsAssumption DEF OfflineTypeOK
    <3>3. QED
      BY <3>2
  <2>4. QED
    BY <2>1, <2>2, <2>3 DEF Next
<1>2. QED
  BY <1>1, OfflineTypes, PTL DEF Spec, OfflineAdvances

-----------------------------------------------------------------------------
(***************************************************************************)
(* The critical router: a review that a human has to end.                  *)
(***************************************************************************)

\* The critical that the SecurityAgent reports, whatever its tools returned.
CriticalReported ==
  \E f \in findings :
    f.agent = "SecurityAgent" /\ f.iteration = 0 /\ IsCritical(f)

\* The agent that reports it is at work in the only pass, and has reported it
\* once it is done, so that the route can only lead to the human.
CriticalInv ==
  router = "critical" =>
    /\ iteration = 0
    /\ phase # "fix"
    /\ phase = "work" =>
         /\ at["SecurityAgent"].pos # "off"
         /\ at["SecurityAgent"].pos = "done" => CriticalReported
    /\ phase \in {"report", "end"} => answer # Undecided

\* An agent stays at work until it has concluded.
LEMMA StillAtWork ==
  ASSUME OfflineTypeOK, NEW a \in Agents, Agent(a)
  PROVE  /\ at'[a].pos # "off"
         /\ findings \subseteq findings'
         /\ at'[a].pos = "done" => conclude(a)
<1>1. at \in [Agents -> AgentAt] /\ at[a] \in AgentAt
  BY DEF OfflineTypeOK, AgentAt
<1>2. CASE budget_exhausted(a) \/ no_further_actions(a)
  <2>1. conclude(a)
    BY <1>2 DEF budget_exhausted, no_further_actions
  <2>2. at'[a] = [at[a] EXCEPT !.pos = "done"] /\ findings \subseteq findings'
    BY <1>1, <2>1 DEF conclude
  <2>3. at'[a].pos = "done"
    BY <1>1, <2>2 DEF AgentAt
  <2>4. QED
    BY <2>1, <2>2, <2>3
<1>3. ASSUME NEW tool \in TOOLS, dispatch_denied(a, tool) \/ dispatch(a, tool)
      PROVE  at'[a].pos \in {"react", "tool"} /\ findings' = findings
  <2>1. /\ at[a].pos = "react" /\ findings' = findings
        /\ \/ at'[a] = [at[a] EXCEPT !.step = @ + 1]
           \/ at'[a] = [at[a] EXCEPT !.pos = "tool", !.step = @ + 1, !.tool = tool]
    BY <1>1, <1>3 DEF dispatch_denied, dispatch, Asks
  <2>2. QED
    BY <1>1, <2>1 DEF AgentAt
<1>4. CASE Returned(a)
  <2>1. PICK p \in Payload : Returns(a, p)
    BY <1>4 DEF Returned
  <2>2. at'[a] = [at[a] EXCEPT !.pos = "trim", !.out = p]
    BY <1>1, <2>1 DEF Returns
  <2>3. at'[a].pos = "trim" /\ findings' = findings
    BY <1>1, <1>4, <2>2 DEF Returned, AgentAt
  <2>4. QED
    BY <2>3
<1>5. CASE run_tool_raises(a)
  <2>1. at'[a] = [at[a] EXCEPT !.pos = "react"] /\ findings' = findings
    BY <1>1, <1>5 DEF run_tool_raises
  <2>2. at'[a].pos = "react"
    BY <1>1, <2>1 DEF AgentAt
  <2>3. QED
    BY <2>1, <2>2
<1>6. CASE shrink(a)
  <2>1. PICK q : at' = [at EXCEPT ![a].out = q]
    BY <1>6 DEF shrink
  <2>2. at'[a] = [at[a] EXCEPT !.out = q] /\ at[a].pos = "trim" /\ findings' = findings
    BY <1>1, <1>6, <2>1 DEF shrink
  <2>3. at'[a].pos = "trim"
    BY <1>1, <2>2 DEF AgentAt
  <2>4. QED
    BY <2>2, <2>3
<1>7. CASE observe(a)
  <2>1. /\ at' = [at EXCEPT ![a] = [@ EXCEPT !.pos = "react", !.tool = "none",
                                             !.out = ErrorResult]]
        /\ findings' = findings
    BY <1>7 DEF observe
  <2>2. at'[a].pos = "react"
    BY <1>1, <2>1 DEF AgentAt
  <2>3. QED
    BY <2>1, <2>2
<1>8. QED
  BY <1>2, <1>3, <1>4, <1>5, <1>6, <1>7, AgentSteps

\* A step of any agent keeps the critical on its way.
LEMMA CriticalComing ==
  ASSUME OfflineTypeOK, CriticalInv, NEW a \in Agents, Agent(a)
  PROVE  CriticalInv'
<1>1. /\ UNCHANGED <<router, phase, iteration, answer>>
      /\ "SecurityAgent" \in Agents
  BY AgentLeaves DEF Agents, AGENT_TOOLS
<1>2. SUFFICES ASSUME router = "critical", phase = "work"
               PROVE  /\ at'["SecurityAgent"].pos # "off"
                      /\ at'["SecurityAgent"].pos = "done" => CriticalReported'
  BY <1>1 DEF CriticalInv
<1>3. /\ iteration = 0 /\ at["SecurityAgent"].pos # "off"
      /\ at["SecurityAgent"].pos = "done" => CriticalReported
  BY <1>2 DEF CriticalInv
<1>4. findings \subseteq findings'
  BY StillAtWork
<1>5. CASE a # "SecurityAgent"
  <2>1. at'["SecurityAgent"] = at["SecurityAgent"]
    BY <1>1, <1>5, OwnPlaceOnly
  <2>2. QED
    BY <1>3, <1>4, <2>1 DEF CriticalReported
<1>6. CASE a = "SecurityAgent"
  <2>1. ASSUME conclude(a) PROVE CriticalReported'
    <3> DEFINE f == Stamp(Found(0, "critical", FALSE, FALSE), a, 0)
    <3>1. Found(0, "critical", FALSE, FALSE) \in ReportOf(router, a, shown[a].lines, line)
      BY <1>2, <1>6 DEF ReportOf, critical_report
    <3>2. f \in findings'
      BY <1>3, <2>1, <3>1 DEF conclude
    <3>3. f.agent = "SecurityAgent" /\ f.iteration = 0 /\ IsCritical(f)
      BY <1>6 DEF Stamp, Found, IsCritical
    <3>4. QED
      BY <3>2, <3>3 DEF CriticalReported
  <2>2. QED
    BY <1>6, <2>1, StillAtWork
<1>7. QED
  BY <1>5, <1>6

\* The plan sends the SecurityAgent, and its critical sends the review to the
\* human.
LEMMA CriticalEscalated ==
  ASSUME OfflineTypeOK, VerdictInv, CriticalInv, Graph \/ Human
  PROVE  CriticalInv'
<1>1. SUFFICES ASSUME router = "critical"
               PROVE  CriticalInv'
  <2>1. router' = router
    BY RaiseLeaves
    DEF Graph, Human, coordinator_node, synthesizer_node, apply_fix, NextPass,
        hitl_approval, apply_decision, persist_report, resume_review, Goes
  <2>2. QED
    BY <1>1, <2>1 DEF CriticalInv
<1>2. /\ iteration = 0 /\ phase # "fix" /\ "SecurityAgent" \in Agents
      /\ phase = "work" => /\ at["SecurityAgent"].pos # "off"
                           /\ at["SecurityAgent"].pos = "done" => CriticalReported
      /\ phase \in {"report", "end"} => answer # Undecided
  BY <1>1 DEF CriticalInv, Agents, AGENT_TOOLS
<1>3. CASE coordinator_node
  <2> DEFINE S == {AgentOf[n] : n \in fan_out_to_specialists(Delegated[router])}
  <2>1. Schedule(S) /\ phase' = "work" /\ UNCHANGED iteration
    BY <1>3 DEF coordinator_node
  <2>2. "security_agent" \in fan_out_to_specialists(Delegated[router])
    BY <1>1 DEF Delegated, fan_out_to_specialists, NodeOf, SPECIALISTS
  <2>3. "SecurityAgent" \in S
    BY <2>2 DEF AgentOf
  <2>4. at'["SecurityAgent"].pos = "react"
    BY <1>2, <2>1, <2>3 DEF Schedule, Starting, Away
  <2>5. QED
    BY <1>2, <2>1, <2>4 DEF CriticalInv
<1>4. CASE synthesizer_node
  <2>1. phase = "work" /\ at["SecurityAgent"].pos \in {"off", "done"} /\ UNCHANGED iteration
    BY <1>2, <1>4 DEF synthesizer_node, Ready
  <2>2. CriticalReported
    BY <1>2, <2>1
  <2>3. WorstOf(current_findings(findings, iteration)) = "critical"
    BY <1>2, <2>2 DEF CriticalReported, WorstOf, current_findings
  <2>4. phase' = "ask"
    BY <1>4, <2>3, SynthesisFollowsWorst
  <2>5. QED
    BY <1>2, <2>1, <2>4 DEF CriticalInv
<1>5. CASE apply_fix
  BY <1>2, <1>5 DEF apply_fix
<1>6. CASE hitl_approval \/ Human
  <2>1. phase' \in {"waiting", "decide"} /\ UNCHANGED iteration
    BY <1>6 DEF hitl_approval, Human, resume_review, Goes
  <2>2. QED
    BY <1>2, <2>1 DEF CriticalInv
<1>7. CASE apply_decision \/ persist_report
  <2>1. /\ phase \in {"decide", "report"} /\ phase' \in {"report", "end"}
        /\ UNCHANGED <<iteration, answer>>
    BY <1>7 DEF apply_decision, persist_report, Goes
  <2>2. answer # Undecided
    BY <1>2, <2>1 DEF VerdictInv
  <2>3. QED
    BY <1>2, <2>1, <2>2 DEF CriticalInv
<1>8. CASE node_raises
  BY <1>2, <1>8, RaiseLeaves DEF CriticalInv
<1>9. QED
  BY <1>3, <1>4, <1>5, <1>6, <1>7, <1>8 DEF Graph

\* A new process finds the critical, or has the agent report it again.
LEMMA CriticalRestarted ==
  ASSUME OfflineTypeOK, CriticalInv, Killed
  PROVE  CriticalInv'
<1>1. /\ UNCHANGED <<router, phase, iteration, answer>>
      /\ "SecurityAgent" \in Agents
  BY DEF Killed, killed_in_a_pass, killed_in_apply_fix, killed_after_the_passes, Kill,
         Agents, AGENT_TOOLS
<1>2. SUFFICES ASSUME router = "critical", phase = "work"
               PROVE  /\ at'["SecurityAgent"].pos # "off"
                      /\ at'["SecurityAgent"].pos = "done" => CriticalReported'
  BY <1>1 DEF CriticalInv
<1>3. /\ iteration = 0 /\ at["SecurityAgent"].pos # "off"
      /\ at["SecurityAgent"].pos = "done" => CriticalReported
  BY <1>2 DEF CriticalInv
<1>4. killed_in_a_pass
  BY <1>2 DEF Killed, killed_in_apply_fix, killed_after_the_passes
<1>5. PICK kept \in SUBSET {b \in Agents : at[b].pos = "done"} :
        LET again == {b \in Agents : at[b].pos # "off"} \ kept
        IN /\ at' = [b \in Agents |-> IF b \in again THEN Starting ELSE at[b]]
           /\ findings' = {f \in findings :
                             f.iteration = iteration => f.agent \notin again}
  BY <1>4 DEF killed_in_a_pass
<1>6. CASE "SecurityAgent" \in kept
  <2>1. at'["SecurityAgent"] = at["SecurityAgent"] /\ at["SecurityAgent"].pos = "done"
    BY <1>1, <1>5, <1>6
  <2>2. CriticalReported'
    BY <1>3, <1>5, <1>6, <2>1 DEF CriticalReported
  <2>3. QED
    BY <1>3, <2>1, <2>2
<1>7. CASE "SecurityAgent" \notin kept
  <2>1. at'["SecurityAgent"] = Starting
    BY <1>1, <1>3, <1>5, <1>7
  <2>2. QED
    BY <2>1 DEF Starting, Away
<1>8. QED
  BY <1>6, <1>7

\* What the critical router reports ends with a human's answer and without a
\* pass, for any lines, scripts, tool failures and kills.
THEOREM CriticalsGoToAHuman == Spec => []CriticalsNeedAHuman
<1>1. Init => CriticalInv
  BY DEF Init, CriticalInv
<1>2. OfflineTypeOK /\ VerdictInv /\ CriticalInv /\ [Next]_vars => CriticalInv'
  <2> SUFFICES ASSUME OfflineTypeOK, VerdictInv, CriticalInv, [Next]_vars
               PROVE  CriticalInv'
    OBVIOUS
  <2>1. CASE UNCHANGED vars
    BY <2>1 DEF vars, graph, loops, CriticalInv, CriticalReported
  <2>2. QED
    BY <2>1, CriticalComing, CriticalEscalated, CriticalRestarted DEF Next
<1>3. VerdictInv /\ CriticalInv => CriticalsNeedAHuman
  BY DEF VerdictInv, CriticalInv, CriticalsNeedAHuman
<1>4. QED
  BY <1>1, <1>2, <1>3, OfflineTypes, VerdictsHold, PTL DEF Spec

=============================================================================
