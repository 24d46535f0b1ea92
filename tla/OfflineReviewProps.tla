------------------------- MODULE OfflineReviewProps -------------------------
(***************************************************************************)
(* What must be true of an offline review, whatever the order its parallel *)
(* agents take, whatever tool fails and wherever the process is killed.    *)
(***************************************************************************)
EXTENDS OfflineReview

\* Every part of the review, the router and the sinks has its type.
OfflineTypeOK ==
  /\ router \in Routers
  /\ phase \in {"plan", "work", "fix", "ask", "waiting", "decide", "report",
               "end", "aborted"}
  /\ line \in [Lines -> Content]
  /\ iteration \in 0..MaxIter
  /\ findings \subseteq Finding
  /\ decision \in Decision \cup {Undecided}
  /\ answer \in HumanChoice \cup {Undecided}
  /\ at \in [Agents -> [pos : {"off", "react", "tool", "trim", "done"},
                        step : 0..MaxSteps, tool : TOOLS \cup {"none"},
                        out : Payload]]
  /\ shown \in [Agents -> [lines : SUBSET Lines, whole : BOOLEAN]]
  /\ heard \in [Agents -> SUBSET Piece]
  /\ context \in [Agents -> Agents \cup {"none"}]
  /\ cursor \in [Agents -> Nat]
  /\ log \in [Agents -> [calls : Nat, rows : Nat, errors : Nat, runs : Nat,
                         analyser : Nat]]
  /\ faults \in 0..MaxFaults
  /\ kills \in 0..MaxKills

-----------------------------------------------------------------------------
\* An offline review that ends in an approval of its own has nothing real left
\* in its working copy, unless a tool of its last pass failed or had its
\* findings cut: the scripts are replayed from the top in every pass, so no
\* agent concludes from a pass in which it did not look.
ApprovalIsEarned ==
  phase = "end" /\ decision = "APPROVE" /\ answer = Undecided =>
    /\ shown["SecurityAgent"].whole =>
         \A l \in Lines : line[l] \notin {"leak", "key", "pii"}
    /\ shown["StyleAgent"].whole => \A l \in Lines : line[l] # "bare"
    /\ faults = 0 =>
         \A a \in {"SecurityAgent", "StyleAgent"} :
           ~shown[a].whole => shown[a].lines # {}

\* What scripted_critical_router reports nobody patches and no verdict decides:
\* the review ends with a human's answer and without a pass, whichever of its
\* agents is killed before or after it has reported.
CriticalsNeedAHuman ==
  router = "critical" /\ phase = "end" =>
    /\ iteration = 0
    /\ answer # Undecided
    /\ decision = IF answer \in Approvals THEN "APPROVE" ELSE "BLOCK_MERGE"

\* A pass is taken only for something it repairs: the loop has made no more
\* passes than there are repaired lines, whatever was applied twice.
EveryPassRepairs ==
  iteration <= Cardinality({l \in Lines : line[l] = "fixed"})

\* A line that no genuine finding of the current pass names is not rewritten,
\* however many fixes a pass applies and wherever it is killed.
FixesOnlyWhatWasFound ==
  [][\A l \in Lines :
       line'[l] # line[l] =>
         \E f \in findings : f.id = l /\ is_blocking(f) /\ f.iteration = iteration]_vars

\* No value a redaction rule matches is in what a model hears, also when one
\* such value contains another; and where a value was quoted whole nothing is
\* left of it but what a mask keeps.  What may be heard is a fragment at the
\* limit of a tool that cuts its text before it is redacted.
NoDetectedValueIsHeard ==
  \A a \in Agents : \A p \in heard[a] :
    p.cut /\ \A value \in Detected : ~(value \subseteq p.raw)

\* No tool call disappears while its process lives: each of an agent's has
\* left a row under its name or a span marked as an error, unless it is under
\* way.  And every row its analysers wrote of themselves bears its name, while
\* other agents ran theirs.
NoCallVanishes ==
  \A a \in Agents :
    LET w == log[a]
        under_way == IF at[a].pos \in {"tool", "trim"} THEN 1 ELSE 0
    IN /\ w.calls = w.rows + w.errors + under_way
       /\ w.analyser = w.runs

\* The worst of the findings in scope.  No two of them share a fingerprint, so
\* that none is lost to deduplication.
WorstOf(F) ==
  IF \E f \in F : IsCritical(f) THEN "critical"
  ELSE IF \E f \in F : is_blocking(f) THEN "high" ELSE "clean"

riskOf ==
  IF phase \in {"plan", "work"} THEN "unknown"
  ELSE WorstOf(current_findings(findings, iteration))

phaseOf ==
  IF phase = "end" THEN "reported"
  ELSE IF phase \in {"waiting", "aborted"} THEN phase ELSE "working"

Contract ==
  INSTANCE ReviewContract
    WITH MaxPasses <- MaxIter, Choices <- HumanChoice, Approving <- Approvals,
         phase <- phaseOf, risk <- riskOf, passes <- iteration,
         published <- IF phase = "end" THEN decision ELSE Undecided

\* With a script for a model and under kills a review keeps the contract that
\* one with a model keeps: it is assessed again after every pass, a critical
\* finding stops it for a human, and what it reports is allowed by the last
\* assessment or by the answer.
OfflineKeepsContract == Contract!Spec

\* What a review, an agent and a result have before them.
PhasesLeft ==
  [plan |-> 7, work |-> 6, fix |-> 5, ask |-> 4, waiting |-> 3, decide |-> 2,
   report |-> 1, end |-> 0, aborted |-> 0]

StageLeft == [tool |-> 3, trim |-> 2, react |-> 1, done |-> 0, off |-> 0]

Weight(p) ==
  p.items + p.files + (IF p.excerpt THEN 1 ELSE 0) + (IF p.last THEN 0 ELSE 1)

\* An agent takes a step of its budget, or gets on with the one it is at, or
\* shortens a result that has something left to lose.
AgentNearer(a) ==
  LET old == at[a]
      new == at'[a]
  IN \/ new.step \in (old.step + 1)..MaxSteps
     \/ new.step = old.step /\ StageLeft[new.pos] < StageLeft[old.pos]
     \/ /\ new.step = old.step /\ new.pos = old.pos
        /\ Weight(new.out) \in 0..(Weight(old.out) - 1)

\* There is no way round, either: between two kills and within a pass, a step
\* brings the review on, or one agent of it while the others stay where they
\* are.
OfflineAdvances ==
  [][\/ kills' \in (kills + 1)..MaxKills
     \/ kills' = kills /\ iteration' \in (iteration + 1)..MaxIter
     \/ /\ UNCHANGED <<kills, iteration>>
        /\ PhasesLeft[phase'] < PhasesLeft[phase]
     \/ /\ UNCHANGED <<kills, iteration, phase>>
        /\ \E a \in Agents :
             AgentNearer(a) /\ \A b \in Agents \ {a} : at'[b] = at[b]]_vars

\* An offline review never hangs: tool results are shortened in finitely many
\* steps, loops run out of steps and passes run out of fixes, so that it comes
\* to its end or to a human, and to its end when the human has answered, or an
\* exception ends its process.
OfflineReviewEnds == []<>(phase \in {"waiting", "end", "aborted"})

=============================================================================
