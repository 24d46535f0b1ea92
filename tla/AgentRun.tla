------------------------------ MODULE AgentRun ------------------------------
(***************************************************************************)
(* Agent runs over the shared router: the bounded tool loop and the final  *)
(* report of agents/base.py, the single call of agents/synthesizer.py, and *)
(* the one repair of guardrails/validation.py.                             *)
(*                                                                         *)
(* Whether an answer asks for tools, and whether it matches the agent's    *)
(* schema, is the model's choice.  A tool call, executed, denied or broken,*)
(* always ends in an observation and leaves nothing else behind.           *)
(***************************************************************************)
EXTENDS LLMRouter

CONSTANTS
  Synthesis,   \* the runs that are a synthesis; the others are ReAct loops
  MaxSteps     \* settings.max_react_steps

ASSUME SynthesisAssumption == Synthesis \subseteq Runs
ASSUME StepsAssumption == MaxSteps \in Nat \ {0}

VARIABLE
  run          \* run[r]: what run r has done and become

vars == <<routerVars, run>>

Errors == ProviderErrors \cup {"cost_cap", "schema"}

Run ==
  [at     : {"react", "final", "repair", "ended"},
   step   : 0..MaxSteps,
   calls  : Nat,                     \* history: calls made
   report : BOOLEAN,
   error  : Errors \cup {NoError}]

Started(r) ==
  [at |-> IF r \in Synthesis THEN "final" ELSE "react",
   step |-> IF r \in Synthesis THEN 0 ELSE 1,
   calls |-> 0, report |-> FALSE, error |-> NoError]

Init ==
  /\ RouterInit
  /\ run = [r \in Runs |-> Started(r)]

-----------------------------------------------------------------------------
\* The run asks the router and waits for it.
ask(r) ==
  /\ run[r].at # "ended"
  /\ invoke(r)
  /\ run' = [run EXCEPT ![r].calls = @ + 1]

\* The router has returned an answer, which the run takes.
Taken(r) ==
  /\ call[r].phase = "returned"
  /\ call' = [call EXCEPT ![r] = Idle]
  /\ UNCHANGED <<_total_cost_usd, requests, spent>>

\* Mutant: the step budget is not checked.
ActUnbounded(r) ==
  /\ run[r].at = "react"
  /\ Taken(r)
  /\ run' = run

\* The answer asks for tools; with the step budget exhausted the run concludes.
act(r) ==
  /\ run[r].at = "react"
  /\ Taken(r)
  /\ IF run[r].step = MaxSteps
     THEN run' = [run EXCEPT ![r].at = "final"]
     ELSE run' = [run EXCEPT ![r].step = @ + 1]

conclude(r) ==
  /\ run[r].at = "react"
  /\ Taken(r)
  /\ run' = [run EXCEPT ![r].at = "final"]

report_valid(r) ==
  /\ run[r].at \in {"final", "repair"}
  /\ Taken(r)
  /\ run' = [run EXCEPT ![r] = [@ EXCEPT !.at = "ended", !.report = TRUE]]

\* Mutant: the second attempt is returned unvalidated, though it is nothing.
ReportInvalidReturned(r) ==
  /\ run[r].at \in {"final", "repair"}
  /\ Taken(r)
  /\ IF run[r].at = "final"
     THEN run' = [run EXCEPT ![r].at = "repair"]
     ELSE run' = [run EXCEPT ![r].at = "ended"]

\* validate_or_repair() asks once more, and then raises.
report_invalid(r) ==
  /\ run[r].at \in {"final", "repair"}
  /\ Taken(r)
  /\ IF run[r].at = "final"
     THEN run' = [run EXCEPT ![r].at = "repair"]
     ELSE run' = [run EXCEPT ![r] = [@ EXCEPT !.at = "ended", !.error = "schema"]]

\* Mutant: a failed step is forgotten and the final report is asked for.
GiveUpLoopOnly(r) ==
  /\ call[r].phase = "raised"
  /\ call' = [call EXCEPT ![r] = Idle]
  /\ IF run[r].at = "react"
     THEN run' = [run EXCEPT ![r].at = "final"]
     ELSE run' = [run EXCEPT ![r] = [@ EXCEPT !.at = "ended", !.error = call[r].error]]
  /\ UNCHANGED <<_total_cost_usd, requests, spent>>

\* An exception from the router ends the run, wherever it is: out of the loop
\* and past the final report, or out of the final report or its repair.
give_up(r) ==
  /\ call[r].phase = "raised"
  /\ call' = [call EXCEPT ![r] = Idle]
  /\ run' = [run EXCEPT ![r] = [@ EXCEPT !.at = "ended", !.error = call[r].error]]
  /\ UNCHANGED <<_total_cost_usd, requests, spent>>

AgentStep(r) ==
  \/ ask(r)
  \/ act(r) \/ conclude(r)
  \/ report_valid(r) \/ report_invalid(r)
  \/ give_up(r)

Step(r) == AgentStep(r) \/ (Served(r) /\ UNCHANGED run)

AllEnded == (\A r \in Runs : run[r].at = "ended") /\ UNCHANGED vars

Next == (\E r \in Runs : Step(r)) \/ AllEnded

Spec == Init /\ [][Next]_vars

\* Every run is a thread of its own, and every request it waits for has a
\* timeout.
FairSpec == Spec /\ \A r \in Runs : WF_vars(Step(r))

-----------------------------------------------------------------------------
\* The router's books and every run's record have their types.
TypeOK ==
  /\ _total_cost_usd \in Nat
  /\ call \in [Runs -> Call]
  /\ requests \in [Runs -> Nat]
  /\ spent \in [Runs -> Nat]
  /\ run \in [Runs -> Run]

=============================================================================
