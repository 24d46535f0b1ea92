--------------------------- MODULE AgentRunProofs ---------------------------
(***************************************************************************)
(* Proofs about agent runs over one router, for any finite number of runs, *)
(* any models, attempts, steps, costs and any cap.                         *)
(***************************************************************************)
EXTENDS AgentRunProps, FiniteSetTheorems, TLAPS

(***************************************************************************)
(* Types.                                                                  *)
(***************************************************************************)

\* Routing picks configured models.
LEMMA ModelType ==
  \A r \in Runs : requested(r) \in Models /\ Asked(r) \in Models
BY DEF requested, pick_model, Asked, fallback_for, Models

\* The record of a call that is not outstanding.
LEMMA IdleType ==
  ASSUME NEW a \in 0..RetryAttempts
  PROVE  Idle \in Call /\ [Idle EXCEPT !.phase = "primary", !.attempt = a] \in Call
<1>1. 0 \in 0..RetryAttempts /\ 0 \in 0..MaxCost
  BY RetryAssumption, CostAssumption
<1>2. QED
  BY <1>1 DEF Idle, Call

\* A step of the router replaces the record of one call by another.
LEMMA ServedType ==
  ASSUME TypeOK, NEW r \in Runs, Served(r)
  PROVE  /\ call'[r] \in Call /\ call' = [call EXCEPT ![r] = call'[r]]
         /\ _total_cost_usd' \in Nat
         /\ requests' \in [Runs -> Nat] /\ spent' \in [Runs -> Nat]
<1> USE DEF TypeOK
<1>0. [requests EXCEPT ![r] = @ + 1] \in [Runs -> Nat]
  OBVIOUS
<1>1. CASE primary_fails(r)
  <2>1. PICK e \in ProviderErrors :
          call' = [call EXCEPT ![r] = [call[r] EXCEPT !.phase = "fallback", !.first = e]]
    BY <1>1 DEF primary_fails
  <2>2. [call[r] EXCEPT !.phase = "fallback", !.first = e] \in Call
    BY <2>1 DEF Call
  <2>3. QED
    BY <1>0, <1>1, <2>1, <2>2 DEF primary_fails
<1>2. CASE fallback_fails(r)
  <2>1. PICK e \in ProviderErrors :
          call' = [call EXCEPT ![r] =
            IF Retried(r)
            THEN [Idle EXCEPT !.phase = "primary", !.attempt = call[r].attempt + 1]
            ELSE [call[r] EXCEPT !.phase = "raised", !.error = call[r].first,
                                 !.last = e]]
    BY <1>2 DEF fallback_fails
  <2>2. CASE Retried(r)
    <3>1. call[r].attempt + 1 \in 0..RetryAttempts
      BY <2>2, RetryAssumption DEF Retried, Call
    <3>2. [Idle EXCEPT !.phase = "primary", !.attempt = call[r].attempt + 1] \in Call
      BY <3>1, IdleType DEF Call
    <3>3. QED
      BY <1>2, <2>1, <2>2, <3>2 DEF fallback_fails
  <2>3. CASE ~Retried(r)
    <3>1. [call[r] EXCEPT !.phase = "raised", !.error = call[r].first, !.last = e]
             \in Call
      BY <2>1 DEF Call
    <3>2. QED
      BY <1>2, <2>1, <2>3, <3>1 DEF fallback_fails
  <2>4. QED
    BY <2>2, <2>3
<1>3. CASE provider_answers(r)
  <2>1. PICK c \in 0..MaxCost, actual \in {Asked(r), Unnamed} :
          call' = [call EXCEPT ![r] = [call[r] EXCEPT !.phase = "metering",
                                       !.cost = c, !.actual = actual]]
    BY <1>3 DEF provider_answers, answered_by
  <2>2. [call[r] EXCEPT !.phase = "metering", !.cost = c, !.actual = actual] \in Call
    BY <2>1, ModelType DEF Call
  <2>3. QED
    BY <1>0, <1>3, <2>1, <2>2 DEF provider_answers, answered_by
<1>4. CASE meter(r)
  <2>1. call[r].cost \in Nat
    BY CostAssumption DEF Call
  <2>2. /\ [call[r] EXCEPT !.phase = "raised", !.error = "cost_cap"] \in Call
        /\ [call[r] EXCEPT !.phase = "returned"] \in Call
    BY DEF Call
  <2>3. \/ call' = [call EXCEPT ![r] = [call[r] EXCEPT !.phase = "raised",
                                                       !.error = "cost_cap"]]
        \/ call' = [call EXCEPT ![r] = [call[r] EXCEPT !.phase = "returned"]]
    BY <1>4 DEF meter
  <2>4. QED
    BY <1>4, <2>1, <2>2, <2>3 DEF meter
<1>5. QED
  BY <1>1, <1>2, <1>3, <1>4 DEF Served

\* A step of an agent replaces its record by another and leaves a new call, or
\* none.
LEMMA AgentType ==
  ASSUME TypeOK, NEW r \in Runs, AgentStep(r)
  PROVE  /\ call'[r] \in Call /\ call' = [call EXCEPT ![r] = call'[r]]
         /\ run'[r] \in Run /\ run' = [run EXCEPT ![r] = run'[r]]
         /\ UNCHANGED <<_total_cost_usd, spent>> /\ requests' \in [Runs -> Nat]
<1> USE DEF TypeOK
<1>0. 0 \in 0..RetryAttempts /\ 1 \in 0..RetryAttempts
  BY RetryAssumption
<1>1. CASE ask(r)
  <2>1. [run[r] EXCEPT !.calls = @ + 1] \in Run
    BY DEF Run
  <2>2. QED
    BY <1>0, <1>1, <2>1, IdleType DEF ask, invoke
<1>2. CASE act(r) \/ conclude(r)
  <2>1. /\ [run[r] EXCEPT !.at = "final"] \in Run
    BY DEF Run
  <2>2. ASSUME run[r].step # MaxSteps
        PROVE  [run[r] EXCEPT !.step = @ + 1] \in Run
    <3>1. run[r] \in Run /\ run[r].step \in 0..MaxSteps
      BY DEF Run
    <3>2. run[r].step + 1 \in 0..MaxSteps
      BY <2>2, <3>1, StepsAssumption
    <3>3. QED
      BY <3>1, <3>2, Zenon DEF Run
  <2>3. QED
    BY <1>0, <1>2, <2>1, <2>2, IdleType DEF act, conclude, Taken
<1>3. CASE report_valid(r) \/ report_invalid(r)
  <2>1. /\ [run[r] EXCEPT !.at = "ended", !.report = TRUE] \in Run
        /\ [run[r] EXCEPT !.at = "repair"] \in Run
        /\ [run[r] EXCEPT !.at = "ended", !.error = "schema"] \in Run
    BY DEF Run, Errors
  <2>2. QED
    BY <1>0, <1>3, <2>1, IdleType DEF report_valid, report_invalid, Taken
<1>4. CASE give_up(r)
  <2>1. [run[r] EXCEPT !.at = "ended", !.error = call[r].error] \in Run
    BY DEF Run, Errors, Call
  <2>2. QED
    BY <1>0, <1>4, <2>1, IdleType DEF give_up
<1>5. QED
  BY <1>1, <1>2, <1>3, <1>4 DEF AgentStep

\* Every step keeps the types.
LEMMA TypeStep == TypeOK /\ [Next]_vars => TypeOK'
<1> SUFFICES ASSUME TypeOK, [Next]_vars
             PROVE  TypeOK'
  OBVIOUS
<1>1. ASSUME NEW r \in Runs, Step(r)
      PROVE  TypeOK'
  <2>1. CASE Served(r) /\ UNCHANGED run
    BY <2>1, ServedType DEF TypeOK
  <2>2. CASE AgentStep(r)
    BY <2>2, AgentType DEF TypeOK
  <2>3. QED
    BY <1>1, <2>1, <2>2 DEF Step
<1>2. CASE UNCHANGED vars
  BY <1>2 DEF vars, routerVars, TypeOK
<1>3. QED
  BY <1>1, <1>2 DEF Next, AllEnded

\* A step of one run leaves the others' records alone.
LEMMA OthersKept ==
  ASSUME TypeOK, NEW r \in Runs, Step(r), NEW s \in Runs, s # r
  PROVE  call'[s] = call[s] /\ run'[s] = run[s] /\ requests'[s] = requests[s]
<1>1. CASE AgentStep(r)
  BY <1>1 DEF AgentStep, ask, invoke, act, conclude, Taken, report_valid,
              report_invalid, give_up, TypeOK
<1>2. CASE Served(r) /\ UNCHANGED run
  BY <1>2 DEF Served, primary_fails, fallback_fails, provider_answers,
              answered_by, meter, TypeOK
<1>3. QED
  BY <1>1, <1>2 DEF Step

\* A step of an agent begins a call or takes its outcome.
LEMMA AgentEffect ==
  ASSUME TypeOK, NEW r \in Runs, AgentStep(r)
  PROVE  /\ call'[r].phase \in {"idle", "primary"}
         /\ call'[r].error = NoError
<1>0. call \in [Runs -> Call]
  BY DEF TypeOK
<1>1. CASE ask(r)
  <2>1. call'[r] = [Idle EXCEPT !.phase = "primary", !.attempt = 1]
    BY <1>0, <1>1 DEF ask, invoke
  <2>2. QED
    BY <2>1 DEF Idle
<1>2. CASE ~ask(r)
  <2>1. call'[r] = Idle
    BY <1>0, <1>2 DEF AgentStep, act, conclude, Taken, report_valid, report_invalid,
                      give_up
  <2>2. QED
    BY <2>1 DEF Idle
<1>3. QED
  BY <1>1, <1>2

\* What a failing primary does to its call.
LEMMA PrimaryFailsEffect ==
  ASSUME TypeOK, NEW r \in Runs, primary_fails(r)
  PROVE  /\ call[r].phase = "primary" /\ call'[r].phase = "fallback"
         /\ call'[r].first \in ProviderErrors
         /\ call'[r].attempt = call[r].attempt
         /\ call'[r].error = call[r].error
         /\ requests'[r] = requests[r] + 1
<1>1. PICK e \in ProviderErrors :
        call' = [call EXCEPT ![r] = [call[r] EXCEPT !.phase = "fallback", !.first = e]]
  BY DEF primary_fails
<1>2. call'[r] = [call[r] EXCEPT !.phase = "fallback", !.first = e]
  BY <1>1 DEF TypeOK
<1>3. /\ call'[r].phase = "fallback" /\ call'[r].first = e
      /\ call'[r].attempt = call[r].attempt /\ call'[r].error = call[r].error
  BY <1>2 DEF TypeOK, Call
<1>4. call[r].phase = "primary" /\ requests'[r] = requests[r] + 1
  BY DEF TypeOK, primary_fails
<1>5. QED
  BY <1>3, <1>4

\* A failing fallback starts another attempt or raises the primary's error.
LEMMA FallbackFailsEffect ==
  ASSUME TypeOK, NEW r \in Runs, fallback_fails(r)
  PROVE  /\ call[r].phase = "fallback"
         /\ requests'[r] = requests[r] + 1
         /\ \/ /\ Retried(r) /\ call'[r].phase = "primary"
               /\ call'[r].attempt = call[r].attempt + 1
               /\ call'[r].first = NoError /\ call'[r].error = NoError
            \/ /\ call'[r].phase = "raised"
               /\ call'[r].error = call[r].first
<1>1. PICK e \in ProviderErrors :
        call' = [call EXCEPT ![r] =
          IF Retried(r)
          THEN [Idle EXCEPT !.phase = "primary", !.attempt = call[r].attempt + 1]
          ELSE [call[r] EXCEPT !.phase = "raised", !.error = call[r].first,
                               !.last = e]]
  BY DEF fallback_fails
<1>2. call[r].phase = "fallback" /\ requests'[r] = requests[r] + 1
  BY DEF TypeOK, fallback_fails
<1>3. CASE Retried(r)
  <2>1. call'[r] = [Idle EXCEPT !.phase = "primary", !.attempt = call[r].attempt + 1]
    BY <1>1, <1>3 DEF TypeOK
  <2>2. /\ call'[r].phase = "primary" /\ call'[r].attempt = call[r].attempt + 1
        /\ call'[r].first = NoError /\ call'[r].error = NoError
    BY <2>1 DEF Idle
  <2>3. QED
    BY <1>2, <1>3, <2>2
<1>4. CASE ~Retried(r)
  <2>1. call'[r] = [call[r] EXCEPT !.phase = "raised", !.error = call[r].first,
                                   !.last = e]
    BY <1>1, <1>4 DEF TypeOK
  <2>2. call'[r].phase = "raised" /\ call'[r].error = call[r].first
    BY <2>1 DEF TypeOK, Call
  <2>3. QED
    BY <1>2, <2>2
<1>5. QED
  BY <1>3, <1>4

\* What an answer does to its call.
LEMMA AnswerEffect ==
  ASSUME TypeOK, NEW r \in Runs, provider_answers(r)
  PROVE  /\ call[r].phase \in {"primary", "fallback"}
         /\ call'[r].phase = "metering"
         /\ call'[r].error = call[r].error
         /\ call'[r].first = call[r].first
         /\ call'[r].actual \in {Asked(r), Unnamed}
         /\ requests'[r] = requests[r] + 1
<1>1. PICK c \in 0..MaxCost, actual \in {Asked(r), Unnamed} :
        call' = [call EXCEPT ![r] = [call[r] EXCEPT !.phase = "metering",
                                     !.cost = c, !.actual = actual]]
  BY DEF provider_answers, answered_by
<1>2. call'[r] = [call[r] EXCEPT !.phase = "metering", !.cost = c, !.actual = actual]
  BY <1>1 DEF TypeOK
<1>3. /\ call'[r].phase = "metering" /\ call'[r].error = call[r].error
      /\ call'[r].first = call[r].first /\ call'[r].actual \in {Asked(r), Unnamed}
  BY <1>1, <1>2 DEF TypeOK, Call
<1>4. requests'[r] = requests[r] + 1 /\ call[r].phase \in {"primary", "fallback"}
  BY DEF TypeOK, provider_answers, answered_by
<1>5. QED
  BY <1>3, <1>4

\* What metering does to its call.
LEMMA MeterEffect ==
  ASSUME TypeOK, NEW r \in Runs, meter(r)
  PROVE  /\ call[r].phase = "metering"
         /\ requests'[r] = requests[r]
         /\ call'[r].first = call[r].first
         /\ call'[r].actual = call[r].actual
         /\ \/ /\ call'[r].phase = "raised" /\ call'[r].error = "cost_cap"
               /\ _total_cost_usd' > CostCap
            \/ /\ call'[r].phase = "returned"
               /\ call'[r].error = call[r].error
               /\ ~(_total_cost_usd' > CostCap)
<1>1. /\ call[r].phase = "metering" /\ requests'[r] = requests[r]
      /\ \/ /\ call'[r] = [call[r] EXCEPT !.phase = "raised", !.error = "cost_cap"]
            /\ _total_cost_usd' > CostCap
         \/ /\ call'[r] = [call[r] EXCEPT !.phase = "returned"]
            /\ ~(_total_cost_usd' > CostCap)
  BY DEF TypeOK, meter
<1>2. call[r] \in Call
  BY DEF TypeOK
<1>3. QED
  BY <1>1, <1>2 DEF Call

-----------------------------------------------------------------------------
(***************************************************************************)
(* What the phase of a call implies.                                       *)
(***************************************************************************)

\* Every step of a run keeps what its call's phase says.
LEMMA PhaseStep ==
  TypeOK /\ PhaseInv /\ [Next]_vars => PhaseInv'
<1> SUFFICES ASSUME TypeOK, PhaseInv, [Next]_vars
             PROVE  PhaseInv'
  OBVIOUS
<1>1. ASSUME NEW r \in Runs, Step(r)
      PROVE  PhaseInv'
  <2> SUFFICES ASSUME NEW s \in Runs
               PROVE  PhaseOk(s)'
    BY DEF PhaseInv
  <2>1. CASE s # r
    BY <1>1, <2>1, OthersKept DEF PhaseInv, PhaseOk
  <2>2. CASE s = r
    <3> USE <2>2 DEF PhaseInv, PhaseOk, TypeOK
    <3>0. /\ call[r] \in Call /\ run[r] \in Run /\ requests[r] \in Nat
          /\ call[r].attempt \in 0..RetryAttempts
      BY DEF Call
    <3>1. CASE ask(r)
      BY <3>0, <3>1, RetryAssumption DEF ask, invoke, Idle, NoError
    <3>2. CASE act(r) \/ conclude(r) \/ report_valid(r) \/ report_invalid(r)
               \/ give_up(r)
      BY <3>0, <3>2, RetryAssumption
         DEF act, conclude, report_valid, report_invalid, give_up, Taken, Idle
    <3>3. CASE primary_fails(r) /\ UNCHANGED run
      BY <3>0, <3>3, PrimaryFailsEffect, RetryAssumption
         DEF ProviderErrors, NoError
    <3>4. CASE fallback_fails(r) /\ UNCHANGED run
      BY <3>0, <3>4, FallbackFailsEffect, RetryAssumption DEF Retried
    <3>5. CASE provider_answers(r) /\ UNCHANGED run
      BY <3>0, <3>5, AnswerEffect, RetryAssumption
    <3>6. CASE meter(r) /\ UNCHANGED run
      BY <3>0, <3>6, MeterEffect DEF NoError
    <3>7. QED
      BY <1>1, <3>1, <3>2, <3>3, <3>4, <3>5, <3>6 DEF Step, AgentStep, Served
  <2>3. QED
    BY <2>1, <2>2
<1>2. CASE UNCHANGED vars
  BY <1>2 DEF vars, routerVars, PhaseInv, PhaseOk
<1>3. QED
  BY <1>1, <1>2 DEF Next, AllEnded

-----------------------------------------------------------------------------
(***************************************************************************)
(* How many calls a run makes, and how it ends.                            *)
(***************************************************************************)

\* Every step of a run keeps the count of its calls in line with where it is.
LEMMA CallsStep ==
  TypeOK /\ PhaseInv /\ CallsInv /\ [Next]_vars => CallsInv'
<1> SUFFICES ASSUME TypeOK, PhaseInv, CallsInv, [Next]_vars
             PROVE  CallsInv'
  OBVIOUS
<1>1. ASSUME NEW r \in Runs, Step(r)
      PROVE  CallsInv'
  <2> SUFFICES ASSUME NEW s \in Runs
               PROVE  CallsOk(s)'
    BY DEF CallsInv
  <2>1. CASE s # r
    BY <1>1, <2>1, OthersKept DEF CallsInv, CallsOk
  <2>2. CASE s = r
    <3>0. /\ TypeOK /\ run[r].step \in 0..MaxSteps /\ run[r].calls \in Nat
          /\ CallsOk(r) /\ PhaseOk(r)
          /\ run \in [Runs -> Run] /\ call \in [Runs -> Call]
      BY DEF TypeOK, Run, CallsInv, PhaseInv
    <3>1. CASE ask(r)
      <4>1. /\ call[r].phase = "idle" /\ call'[r].phase = "primary"
            /\ run'[r].at = run[r].at /\ run[r].at # "ended"
            /\ run'[r].step = run[r].step /\ run'[r].calls = run[r].calls + 1
        BY <3>0, <3>1 DEF ask, invoke, Idle, Run, Call
      <4>2. QED
        BY <2>2, <3>0, <4>1, StepsAssumption DEF CallsOk
    <3>2. CASE act(r) \/ conclude(r)
      <4>1. /\ call[r].phase = "returned" /\ call'[r].phase = "idle"
            /\ run[r].at = "react" /\ run'[r].calls = run[r].calls
            /\ \/ run'[r].at = "react" /\ run'[r].step = run[r].step + 1
               \/ run'[r].at = "final"
        BY <3>0, <3>2 DEF act, conclude, Taken, Idle, Run, Call
      <4>2. QED
        BY <2>2, <3>0, <4>1, StepsAssumption DEF CallsOk
    <3>3. CASE report_valid(r) \/ report_invalid(r)
      <4>1. /\ call[r].phase = "returned" /\ call'[r].phase = "idle"
            /\ run[r].at \in {"final", "repair"} /\ run'[r].calls = run[r].calls
            /\ \/ run'[r].at = "ended"
               \/ run[r].at = "final" /\ run'[r].at = "repair"
        <5>1. call[r].phase = "returned" /\ call'[r] = Idle
          BY <3>0, <3>3 DEF report_valid, report_invalid, Taken
        <5>2. CASE report_valid(r)
          BY <3>0, <5>1, <5>2 DEF report_valid, Idle, Run
        <5>3. CASE report_invalid(r)
          <6>1. run[r].at \in {"final", "repair"}
            BY <5>3 DEF report_invalid
          <6>2. \/ /\ run[r].at = "final"
                   /\ run'[r] = [run[r] EXCEPT !.at = "repair"]
                \/ run'[r] = [run[r] EXCEPT !.at = "ended", !.error = "schema"]
            BY <3>0, <5>3 DEF report_invalid
          <6>3. run[r] \in Run
            BY <3>0
          <6>4. /\ call'[r].phase = "idle" /\ run'[r].calls = run[r].calls
                /\ run'[r].at \in {"repair", "ended"}
                /\ run'[r].at = "repair" => run[r].at = "final"
            <7>1. call'[r].phase = "idle"
              BY <5>1 DEF Idle
            <7>2. CASE /\ run[r].at = "final"
                       /\ run'[r] = [run[r] EXCEPT !.at = "repair"]
              BY <6>3, <7>1, <7>2 DEF Run
            <7>3. CASE run'[r] = [run[r] EXCEPT !.at = "ended", !.error = "schema"]
              <8>1. run'[r].at = "ended" /\ run'[r].calls = run[r].calls
                BY <6>3, <7>3 DEF Run
              <8>2. QED
                BY <7>1, <8>1
            <7>4. QED
              BY <6>2, <7>2, <7>3
          <6>5. QED
            BY <5>1, <6>1, <6>4
        <5>4. QED
          BY <3>3, <5>2, <5>3
      <4>2. QED
        BY <2>2, <3>0, <4>1, StepsAssumption DEF CallsOk
    <3>4. CASE give_up(r)
      <4>1. /\ call[r].phase = "raised" /\ run'[r].calls = run[r].calls
            /\ run'[r].at = "ended" /\ run[r].at # "ended"
        BY <3>0, <3>4 DEF give_up, Run, Call, PhaseOk
      <4>2. run[r].at \in {"react", "final", "repair", "ended"}
        BY <3>0 DEF Run
      <4>3. QED
        BY <2>2, <3>0, <4>1, <4>2, StepsAssumption DEF CallsOk
    <3>5. CASE Served(r) /\ UNCHANGED run
      <4>1. call[r].phase # "idle" /\ call'[r].phase # "idle"
        BY <3>0, <3>5, PrimaryFailsEffect, FallbackFailsEffect, AnswerEffect, MeterEffect
           DEF Served
      <4>2. QED
        BY <2>2, <3>0, <3>5, <4>1 DEF CallsOk
    <3>6. QED
      BY <1>1, <3>1, <3>2, <3>3, <3>4, <3>5 DEF Step, AgentStep
  <2>3. QED
    BY <2>1, <2>2
<1>2. CASE UNCHANGED vars
  BY <1>2 DEF vars, routerVars, CallsInv, CallsOk
<1>3. QED
  BY <1>1, <1>2 DEF Next, AllEnded

\* A run is ended by its report or by an error, once.
LEMMA OutcomeStep ==
  TypeOK /\ PhaseInv /\ RunOutcome /\ [Next]_vars => RunOutcome'
<1> SUFFICES ASSUME TypeOK, PhaseInv, RunOutcome, [Next]_vars
             PROVE  RunOutcome'
  OBVIOUS
<1>1. ASSUME NEW r \in Runs, Step(r)
      PROVE  RunOutcome'
  <2> SUFFICES ASSUME NEW s \in Runs
               PROVE  OutcomeOk(s)'
    BY DEF RunOutcome
  <2>1. CASE s # r
    BY <1>1, <2>1, OthersKept DEF RunOutcome, OutcomeOk
  <2>2. CASE s = r
    <3>0. /\ run \in [Runs -> Run] /\ call \in [Runs -> Call]
          /\ OutcomeOk(r) /\ PhaseOk(r)
      BY DEF TypeOK, RunOutcome, PhaseInv
    <3>1. CASE ask(r) \/ act(r) \/ conclude(r)
               \/ (Served(r) /\ UNCHANGED run)
      <4>1. run[r].at # "ended" /\ run'[r].at # "ended"
        BY <3>0, <3>1
           DEF ask, invoke, act, conclude, Served, primary_fails, fallback_fails,
               provider_answers, answered_by, meter, Run, PhaseOk
      <4>2. run'[r].report = run[r].report /\ run'[r].error = run[r].error
        BY <3>0, <3>1 DEF ask, act, conclude, Run
      <4>3. QED
        BY <2>2, <3>0, <4>1, <4>2 DEF OutcomeOk
    <3>2. CASE report_valid(r)
      <4>1. /\ run[r].at # "ended" /\ run'[r].at = "ended" /\ run'[r].report = TRUE
            /\ run'[r].error = run[r].error /\ call'[r] = Idle
        BY <3>0, <3>2 DEF report_valid, Taken, Run
      <4>2. QED
        BY <2>2, <3>0, <4>1 DEF OutcomeOk
    <3>3. CASE report_invalid(r)
      <4>1. /\ run[r].at # "ended" /\ run'[r].report = run[r].report
            /\ \/ /\ run'[r].at = "ended" /\ run'[r].error = "schema"
                  /\ call'[r] = Idle
               \/ run'[r].at = "repair" /\ run'[r].error = run[r].error
        BY <3>0, <3>3 DEF report_invalid, Taken, Run
      <4>2. QED
        BY <2>2, <3>0, <4>1 DEF OutcomeOk, NoError
    <3>4. CASE give_up(r)
      <4>1. /\ run[r].at # "ended" /\ run'[r].report = run[r].report
            /\ run'[r].at = "ended" /\ run'[r].error = call[r].error
            /\ call[r].error # NoError /\ call'[r] = Idle
        BY <3>0, <3>4 DEF give_up, Run, PhaseOk
      <4>2. QED
        BY <2>2, <3>0, <4>1 DEF OutcomeOk
    <3>5. QED
      BY <1>1, <3>1, <3>2, <3>3, <3>4 DEF Step, AgentStep
  <2>3. QED
    BY <2>1, <2>2
<1>2. CASE UNCHANGED vars
  BY <1>2 DEF vars, routerVars, RunOutcome, OutcomeOk
<1>3. QED
  BY <1>1, <1>2 DEF Next, AllEnded

-----------------------------------------------------------------------------
(***************************************************************************)
(* Failover.                                                               *)
(***************************************************************************)

\* A model's fallback is another model, so a failover shows.
LEMMA FallbackDiffers == \A model \in Models : fallback_for(model) # model
BY ModelAssumption DEF fallback_for, Models

\* Every step keeps the report of a failover true.
LEMMA FallbackStep ==
  TypeOK /\ PhaseInv /\ FallbackReported /\ [Next]_vars => FallbackReported'
<1> SUFFICES ASSUME TypeOK, PhaseInv, FallbackReported, [Next]_vars
             PROVE  FallbackReported'
  OBVIOUS
<1> DEFINE Ok(r) == call[r].phase \in {"metering", "returned"}
                      /\ call[r].actual # Unnamed =>
                      (fallback_used(r) <=> call[r].first # NoError)
<1>0. (\A r \in Runs : Ok(r)) /\ ((\A r \in Runs : Ok(r)') => FallbackReported')
  BY DEF FallbackReported
<1> HIDE DEF Ok
<1>1. ASSUME NEW r \in Runs, Step(r), NEW s \in Runs
      PROVE  Ok(s)'
  <2>1. CASE s # r
    <3>1. call'[s] = call[s]
      BY <1>1, <2>1, OthersKept
    <3>2. QED
      BY <1>0, <3>1 DEF Ok, fallback_used
  <2>2. CASE s = r
    <3>1. CASE provider_answers(r)
      <4>1. /\ call[r].phase \in {"primary", "fallback"}
            /\ call'[r].first = call[r].first
            /\ call'[r].actual \in {Asked(r), Unnamed}
        BY <3>1, AnswerEffect
      <4>2. PhaseOk(r)
        BY DEF PhaseInv
      <4>3. requested(r) \in Models
        BY ModelType
      <4>4. Asked(r) # requested(r) <=> call[r].first # NoError
        BY <4>1, <4>2, <4>3, FallbackDiffers DEF Asked, PhaseOk
      <4>5. QED
        BY <2>2, <4>1, <4>4 DEF Ok, fallback_used
    <3>2. CASE meter(r)
      <4>1. /\ call[r].phase = "metering"
            /\ call'[r].first = call[r].first /\ call'[r].actual = call[r].actual
        BY <3>2, MeterEffect
      <4>2. QED
        BY <1>0, <2>2, <4>1 DEF Ok, fallback_used
    <3>3. CASE primary_fails(r) \/ fallback_fails(r)
      BY <2>2, <3>3, PrimaryFailsEffect, FallbackFailsEffect DEF Ok
    <3>4. CASE AgentStep(r)
      <4>1. call'[r].phase \in {"idle", "primary"}
        BY <3>4, AgentEffect
      <4>2. QED
        BY <2>2, <4>1 DEF Ok
    <3>5. QED
      BY <1>1, <3>1, <3>2, <3>3, <3>4 DEF Step, Served
  <2>3. QED
    BY <2>1, <2>2
<1>2. CASE UNCHANGED vars
  BY <1>2 DEF vars, routerVars, FallbackReported, fallback_used
<1>3. QED
  BY <1>0, <1>1, <1>2 DEF Next, AllEnded

-----------------------------------------------------------------------------
(***************************************************************************)
(* What the runs spend.                                                    *)
(***************************************************************************)

\* An agent's step takes over the error of its call, or gives its own.
LEMMA AgentErrorEffect ==
  ASSUME TypeOK, PhaseInv, NEW r \in Runs, AgentStep(r)
  PROVE  /\ run[r].at # "ended"
         /\ \/ run'[r].error = run[r].error /\ call[r].phase \in {"idle", "returned"}
            \/ run'[r].error = "schema" /\ call[r].phase = "returned"
            \/ run'[r].error = call[r].error /\ call[r].phase = "raised"
<1>0. run \in [Runs -> Run] /\ run[r] \in Run /\ PhaseOk(r)
  BY DEF TypeOK, PhaseInv
<1>1. CASE ask(r)
  BY <1>0, <1>1 DEF ask, invoke, Run
<1>2. CASE act(r) \/ conclude(r)
  BY <1>0, <1>2 DEF act, conclude, Taken, Run
<1>3. CASE report_valid(r)
  BY <1>0, <1>3 DEF report_valid, Taken, Run
<1>4. CASE report_invalid(r)
  <2>1. \/ run'[r] = [run[r] EXCEPT !.at = "repair"]
        \/ run'[r] = [run[r] EXCEPT !.at = "ended", !.error = "schema"]
    BY <1>0, <1>4 DEF report_invalid
  <2>2. run'[r].error = run[r].error \/ run'[r].error = "schema"
    BY <1>0, <2>1 DEF Run
  <2>3. call[r].phase = "returned" /\ run[r].at \in {"final", "repair"}
    BY <1>4 DEF report_invalid, Taken
  <2>4. QED
    BY <2>2, <2>3
<1>5. CASE give_up(r)
  BY <1>0, <1>5 DEF give_up, Run, PhaseOk
<1>6. QED
  BY <1>1, <1>2, <1>3, <1>4, <1>5 DEF AgentStep

\* The error a run ends with stands, and only metering raises the cap's error.
LEMMA CapHitKept ==
  ASSUME TypeOK, PhaseInv, RunOutcome, NEW r \in Runs, Step(r), ~meter(r)
  PROVE  CapHit' = CapHit
<1> DEFINE Hit(s) == "cost_cap" \in {call[s].error, run[s].error}
<1>0. call[r] \in Call /\ PhaseOk(r) /\ OutcomeOk(r)
  BY DEF TypeOK, PhaseInv, RunOutcome
<1>1. CASE AgentStep(r)
  <2>1. /\ call'[r].error = NoError /\ run[r].error = NoError
        /\ \/ run'[r].error = run[r].error /\ call[r].phase \in {"idle", "returned"}
           \/ run'[r].error = "schema" /\ call[r].phase = "returned"
           \/ run'[r].error = call[r].error
    BY <1>0, <1>1, AgentEffect, AgentErrorEffect DEF OutcomeOk
  <2>2. call[r].phase \in {"idle", "returned"} => call[r].error = NoError
    BY <1>0 DEF PhaseOk, Idle
  <2>3. Hit(r)' <=> Hit(r)
    BY <2>1, <2>2 DEF NoError
  <2>4. QED
    BY <2>3, OthersKept DEF CapHit
<1>2. CASE Served(r) /\ UNCHANGED run
  <2>1. CASE primary_fails(r)
    <3>1. call'[r].error = call[r].error
      BY <2>1, PrimaryFailsEffect
    <3>2. QED
      BY <1>2, <3>1, OthersKept DEF CapHit
  <2>2. CASE provider_answers(r)
    <3>1. call'[r].error = call[r].error
      BY <2>2, AnswerEffect
    <3>2. QED
      BY <1>2, <3>1, OthersKept DEF CapHit
  <2>3. CASE fallback_fails(r)
    <3>1. /\ call[r].phase = "fallback"
          /\ call'[r].error \in {NoError, call[r].first}
      BY <2>3, FallbackFailsEffect
    <3>2. call[r].error = NoError /\ call[r].first \in ProviderErrors \cup {NoError}
      BY <1>0, <3>1 DEF PhaseOk, Call
    <3>3. call[r].error # "cost_cap" /\ call'[r].error # "cost_cap"
      BY <3>1, <3>2 DEF ProviderErrors, NoError
    <3>4. Hit(r)' <=> Hit(r)
      BY <1>2, <3>3
    <3>5. QED
      BY <3>4, OthersKept DEF CapHit
  <2>4. QED
    BY <1>2, <2>1, <2>2, <2>3 DEF Served
<1>3. QED
  BY <1>1, <1>2 DEF Step

\* Metering overspends by one answer at most, and then stops one more run.
LEMMA MeterSpends ==
  ASSUME TypeOK, PhaseInv, RunOutcome, SpendBounded, NEW r \in Runs,
         meter(r), UNCHANGED run
  PROVE  SpendBounded'
<1>0. /\ call[r] \in Call /\ PhaseOk(r) /\ OutcomeOk(r)
      /\ call[r].cost \in 0..MaxCost /\ _total_cost_usd \in Nat
      /\ CostCap \in Nat /\ MaxCost \in Nat
  BY CostAssumption DEF TypeOK, PhaseInv, RunOutcome, Call
<1>1. call[r].phase = "metering" /\ _total_cost_usd' = _total_cost_usd + call[r].cost
  BY DEF meter
<1>2. IsFiniteSet(CapHit) /\ IsFiniteSet(CapHit') /\ Cardinality(CapHit) \in Nat
      /\ Cardinality(CapHit') \in Nat
  BY RunsAssumption, FS_Subset, FS_CardinalityType DEF CapHit
<1>3. CASE _total_cost_usd' > CostCap
  <2>1. call'[r].error = "cost_cap"
    BY <1>3, MeterEffect
  <2>2. r \notin CapHit
    BY <1>0, <1>1 DEF CapHit, PhaseOk, OutcomeOk, NoError
  <2>3. Step(r)
    BY DEF Step, Served
  <2>4. CapHit' = CapHit \cup {r}
    BY <2>1, <2>3, OthersKept DEF CapHit
  <2>5. Cardinality(CapHit') = Cardinality(CapHit) + 1
    BY <1>2, <2>2, <2>4, FS_AddElement
  <2>6. \A n \in Nat : MaxCost * (n + 1) = MaxCost * n + MaxCost
    BY <1>0
  <2>7. MaxCost * Cardinality(CapHit) \in Nat
    BY <1>0, <1>2
  <2>8. QED
    BY <1>0, <1>1, <1>2, <2>5, <2>6, <2>7 DEF SpendBounded
<1>4. CASE ~(_total_cost_usd' > CostCap)
  <2>1. MaxCost * Cardinality(CapHit') \in Nat
    BY <1>0, <1>2
  <2>2. QED
    BY <1>0, <1>1, <1>4, <2>1 DEF SpendBounded
<1>5. QED
  BY <1>3, <1>4

\* Every step keeps the bound on what the process has spent.
LEMMA SpendStep ==
  TypeOK /\ PhaseInv /\ RunOutcome /\ SpendBounded /\ [Next]_vars => SpendBounded'
<1> SUFFICES ASSUME TypeOK, PhaseInv, RunOutcome, SpendBounded, [Next]_vars
             PROVE  SpendBounded'
  OBVIOUS
<1>1. ASSUME NEW r \in Runs, Step(r)
      PROVE  SpendBounded'
  <2>1. CASE meter(r) /\ UNCHANGED run
    BY <2>1, MeterSpends
  <2>2. CASE ~meter(r)
    <3>1. CapHit' = CapHit
      BY <1>1, <2>2, CapHitKept
    <3>2. _total_cost_usd' = _total_cost_usd
      BY <1>1, <2>2 DEF Step, AgentStep, ask, invoke, act, conclude, Taken,
                        report_valid, report_invalid, give_up, Served,
                        primary_fails, fallback_fails, provider_answers, answered_by
    <3>3. QED
      BY <3>1, <3>2 DEF SpendBounded
  <2>3. CASE meter(r) /\ AgentStep(r)
    <3>1. call[r].phase = "metering"
      BY <2>3 DEF meter
    <3>2. QED
      BY <2>3, <3>1, AgentErrorEffect
  <2>4. QED
    BY <1>1, <2>1, <2>2, <2>3 DEF Step
<1>2. CASE UNCHANGED vars
  BY <1>2 DEF vars, routerVars, SpendBounded, CapHit
<1>3. QED
  BY <1>1, <1>2 DEF Next, AllEnded

-----------------------------------------------------------------------------
(***************************************************************************)
(* The theorems.                                                           *)
(***************************************************************************)

\* The inductive invariant holds of the first state.
LEMMA IInvInit == Init => IInv
<1> SUFFICES ASSUME Init
             PROVE  IInv
  OBVIOUS
<1>0. /\ \A r \in Runs : /\ call[r] = Idle /\ requests[r] = 0
                          /\ run[r] = Started(r)
      /\ _total_cost_usd = 0
      /\ 0 \in 0..RetryAttempts /\ 1 \in 0..RetryAttempts
  BY RetryAssumption DEF Init, RouterInit
<1>1. \A r \in Runs : Started(r) \in Run
  BY StepsAssumption DEF Started, Run
<1>2. TypeOK
  <2>1. Idle \in Call
    BY <1>0, IdleType
  <2>2. run \in [Runs -> Run] /\ call \in [Runs -> Call]
    BY <1>1, <2>1 DEF Init, RouterInit
  <2>3. /\ _total_cost_usd \in Nat /\ requests \in [Runs -> Nat]
        /\ spent \in [Runs -> Nat]
    BY DEF Init, RouterInit
  <2>4. QED
    BY <2>2, <2>3 DEF TypeOK
<1>3. \A r \in Runs : /\ call[r].phase = "idle" /\ call[r].error = NoError
                      /\ run[r].at \in {"react", "final"} /\ run[r].calls = 0
                      /\ run[r].step \in 0..1
                      /\ run[r].at = "react" => run[r].step = 1
                      /\ run[r].error = NoError /\ ~run[r].report
  <2> SUFFICES ASSUME NEW r \in Runs
               PROVE  /\ call[r].phase = "idle" /\ call[r].error = NoError
                      /\ run[r].at \in {"react", "final"} /\ run[r].calls = 0
                      /\ run[r].step \in 0..1
                      /\ run[r].at = "react" => run[r].step = 1
                      /\ run[r].error = NoError /\ ~run[r].report
    OBVIOUS
  <2>1. call[r].phase = "idle" /\ call[r].error = NoError
    BY <1>0 DEF Idle
  <2>0. run[r] = Started(r)
    BY <1>0
  <2>2. run[r] = [at |-> "final", step |-> 0, calls |-> 0, report |-> FALSE,
                  error |-> NoError]
          \/ run[r] = [at |-> "react", step |-> 1, calls |-> 0, report |-> FALSE,
                       error |-> NoError]
    BY <2>0 DEF Started
  <2>3. QED
    BY <2>1, <2>2
<1>4. PhaseInv
  BY <1>0, <1>3, RetryAssumption DEF PhaseInv, PhaseOk
<1>5. CallsInv
  BY <1>3, StepsAssumption DEF CallsInv, CallsOk
<1>6. RunOutcome
  BY <1>3 DEF RunOutcome, OutcomeOk
<1>7. SpendBounded
  <2>1. IsFiniteSet(CapHit) /\ Cardinality(CapHit) \in Nat
    BY RunsAssumption, FS_Subset, FS_CardinalityType DEF CapHit
  <2>2. MaxCost * Cardinality(CapHit) \in Nat
    BY <2>1, CostAssumption
  <2>3. QED
    BY <1>0, <2>2, CostAssumption DEF SpendBounded
<1>8. FallbackReported
  BY <1>3 DEF FallbackReported
<1>9. QED
  BY <1>2, <1>4, <1>5, <1>6, <1>7, <1>8 DEF IInv

\* The books, the phases, the counts and the outcomes of agent runs over one
\* router stay as IInv says, whatever providers and models answer.
THEOREM RunInvariance == Spec => []IInv
<1>1. Init => IInv
  BY IInvInit
<1>2. IInv /\ [Next]_vars => IInv'
  BY TypeStep, PhaseStep, CallsStep, OutcomeStep, SpendStep, FallbackStep DEF IInv
<1>3. QED
  BY <1>1, <1>2, PTL DEF Spec

\* The router's books and every run's record keep their types.
THEOREM RunTypes == Spec => []TypeOK
<1>1. IInv => TypeOK
  BY DEF IInv
<1>2. QED
  BY <1>1, RunInvariance, PTL

\* A process overspends the cost cap by at most one answer for each run that
\* the cap stops, with any number of runs.
THEOREM SpendIsBounded == Spec => []SpendBounded
<1>1. IInv => SpendBounded
  BY DEF IInv
<1>2. QED
  BY <1>1, RunInvariance, PTL

\* Every run makes a bounded number of calls, and every call sends a bounded
\* number of requests.
THEOREM RequestsAreBounded == Spec => []RequestsBounded
<1>1. IInv => RequestsBounded
  <2> SUFFICES ASSUME IInv, NEW r \in Runs
               PROVE  run[r].calls <= MaxSteps + 2 /\ requests[r] <= 2 * RetryAttempts
    BY DEF RequestsBounded
  <2>1. /\ CallsOk(r) /\ PhaseOk(r) /\ run[r].calls \in Nat
        /\ run[r].step \in 0..MaxSteps /\ run[r].at \in {"react", "final", "repair", "ended"}
    BY DEF IInv, TypeOK, CallsInv, PhaseInv, Run
  <2>2. run[r].calls <= MaxSteps + 2
    BY <2>1, StepsAssumption DEF CallsOk
  <2>3. QED
    BY <2>1, <2>2 DEF PhaseOk
<1>2. QED
  BY <1>1, RunInvariance, PTL

\* A run ends with a report or an error, never with both or neither.
THEOREM OutcomesHold == Spec => []RunOutcome
<1>1. IInv => RunOutcome
  BY DEF IInv
<1>2. QED
  BY <1>1, RunInvariance, PTL

\* A failover is reported exactly when it happened, for any configuration with
\* two models.
THEOREM FailoverReported == Spec => []FallbackReported
<1>1. IInv => FallbackReported
  BY DEF IInv
<1>2. QED
  BY <1>1, RunInvariance, PTL

\* No run gets an answer once the process has spent more than the cap.
THEOREM CapStays == Spec => CapSticks
<1> DEFINE NoAnswer == \A r \in Runs :
             _total_cost_usd > CostCap /\ call[r].phase # "returned" =>
               call'[r].phase # "returned"
<1>1. IInv /\ [Next]_vars => [NoAnswer]_vars
  <2> SUFFICES ASSUME IInv, [Next]_vars, NEW s \in Runs,
                      _total_cost_usd > CostCap, call[s].phase # "returned"
               PROVE  call'[s].phase # "returned"
    OBVIOUS
  <2>0. TypeOK
    BY DEF IInv
  <2>1. ASSUME NEW r \in Runs, Step(r)
        PROVE  call'[s].phase # "returned"
    <3>1. CASE s # r
      BY <2>0, <2>1, <3>1, OthersKept
    <3>2. CASE s = r /\ meter(r)
      <4>1. /\ _total_cost_usd' = _total_cost_usd + call[r].cost
            /\ call[r].cost \in Nat /\ _total_cost_usd \in Nat
        BY <2>0, <3>2, CostAssumption DEF meter, TypeOK, Call
      <4>2. _total_cost_usd' > CostCap
        BY <4>1, CostAssumption
      <4>3. QED
        BY <2>0, <3>2, <4>2, MeterEffect
    <3>3. CASE s = r /\ ~meter(r)
      <4>1. CASE AgentStep(r)
        BY <2>0, <3>3, <4>1, AgentEffect
      <4>2. CASE Served(r)
        BY <2>0, <3>3, <4>2, PrimaryFailsEffect, FallbackFailsEffect, AnswerEffect
           DEF Served
      <4>3. QED
        BY <2>1, <4>1, <4>2 DEF Step
    <3>4. QED
      BY <3>1, <3>2, <3>3
  <2>2. CASE UNCHANGED vars
    BY <2>2 DEF vars, routerVars
  <2>3. QED
    BY <2>1, <2>2 DEF Next, AllEnded
<1>2. QED
  BY <1>1, RunInvariance, PTL DEF Spec, CapSticks

-----------------------------------------------------------------------------
(***************************************************************************)
(* That no step goes round.                                                *)
(***************************************************************************)

\* What the router does to a call ends an attempt or a part of one.
LEMMA ServedAdvances ==
  ASSUME TypeOK, NEW r \in Runs, Served(r)
  PROVE  CallSteps(r)' \in 0..(CallSteps(r) - 1)
<1>1. /\ call[r].attempt \in 0..RetryAttempts /\ call'[r].attempt \in 0..RetryAttempts
      /\ call'[r].phase \in {"idle", "primary", "fallback", "metering", "returned",
                             "raised"}
      /\ RetryAttempts \in Nat
  BY ServedType, RetryAssumption DEF TypeOK, Call
<1>2. CASE primary_fails(r)
  BY <1>1, <1>2, PrimaryFailsEffect DEF CallSteps
<1>3. CASE fallback_fails(r)
  BY <1>1, <1>3, FallbackFailsEffect DEF CallSteps
<1>4. CASE provider_answers(r)
  BY <1>1, <1>4, AnswerEffect DEF CallSteps
<1>5. CASE meter(r)
  BY <1>1, <1>5, MeterEffect DEF CallSteps
<1>6. QED
  BY <1>2, <1>3, <1>4, <1>5 DEF Served

\* A run that asks begins its call; one that takes an answer or an error has a
\* call less to make.
LEMMA AgentAdvances ==
  ASSUME TypeOK, PhaseInv, NEW r \in Runs, AgentStep(r)
  PROVE  Nearer(r)
<1>1. /\ call[r] \in Call /\ run[r] \in Run
      /\ call \in [Runs -> Call] /\ run \in [Runs -> Run]
  BY DEF TypeOK
<1>2. /\ run[r].step \in 0..MaxSteps /\ MaxSteps \in Nat
      /\ run[r].at \in {"react", "final", "repair", "ended"}
      /\ RetryAttempts \in Nat \ {0}
  BY <1>1, StepsAssumption, RetryAssumption DEF Run
<1>3. CASE ask(r)
  <2>1. /\ run'[r] = [run[r] EXCEPT !.calls = @ + 1]
        /\ call'[r] = [Idle EXCEPT !.phase = "primary", !.attempt = 1]
        /\ call[r].phase = "idle" /\ run[r].at # "ended"
    BY <1>1, <1>3 DEF ask, invoke
  <2>2. run'[r].at = run[r].at /\ run'[r].step = run[r].step
    BY <1>1, <2>1 DEF Run
  <2>3. call'[r].phase = "primary" /\ call'[r].attempt = 1
    BY <2>1 DEF Idle
  <2>4. CallsLeft(r)' = CallsLeft(r)
    BY <2>2 DEF CallsLeft
  <2>5. CallSteps(r)' \in 0..(CallSteps(r) - 1)
    BY <1>2, <2>1, <2>3 DEF CallSteps
  <2>6. QED
    BY <2>4, <2>5 DEF Nearer
<1>4. CASE act(r) \/ conclude(r)
  <2>1. run[r].at = "react"
    BY <1>4 DEF act, conclude
  <2>2. \/ run'[r] = [run[r] EXCEPT !.at = "final"]
        \/ run'[r] = [run[r] EXCEPT !.step = @ + 1] /\ run[r].step # MaxSteps
    BY <1>1, <1>4 DEF act, conclude
  <2>3. \/ run'[r].at = "final"
        \/ run'[r].at = "react" /\ run'[r].step = run[r].step + 1 /\ run[r].step # MaxSteps
    BY <1>1, <2>1, <2>2 DEF Run
  <2>4. CallsLeft(r)' \in 0..(CallsLeft(r) - 1)
    BY <1>2, <2>1, <2>3 DEF CallsLeft
  <2>5. QED
    BY <2>4 DEF Nearer
<1>5. CASE report_valid(r) \/ report_invalid(r)
  <2>1. run[r].at \in {"final", "repair"}
    BY <1>5 DEF report_valid, report_invalid
  <2>2. \/ run'[r].at = "ended"
        \/ run[r].at = "final" /\ run'[r].at = "repair"
    BY <1>1, <1>5 DEF report_valid, report_invalid, Run
  <2>3. CallsLeft(r)' \in 0..(CallsLeft(r) - 1)
    BY <2>1, <2>2 DEF CallsLeft
  <2>4. QED
    BY <2>3 DEF Nearer
<1>6. CASE give_up(r)
  <2>1. run[r].at # "ended"
    BY <1>6 DEF give_up, PhaseInv, PhaseOk
  <2>2. run'[r].at = "ended"
    BY <1>1, <1>6 DEF give_up, Run
  <2>3. CallsLeft(r)' \in 0..(CallsLeft(r) - 1)
    BY <1>2, <2>1, <2>2 DEF CallsLeft
  <2>4. QED
    BY <2>3 DEF Nearer
<1>7. QED
  BY <1>3, <1>4, <1>5, <1>6 DEF AgentStep

\* A step brings one run nearer its end and takes no other back: with any
\* number of runs, and any attempts and steps, there is no infinite behaviour
\* but the one in which nothing happens any more.
THEOREM RunsOnlyAdvance == Spec => RunsAdvance
<1> DEFINE Advance == \E r \in Runs :
             /\ Nearer(r)
             /\ \A s \in Runs \ {r} : <<call[s], run[s]>>' = <<call[s], run[s]>>
<1>1. IInv /\ [Next]_vars => [Advance]_vars
  <2> SUFFICES ASSUME IInv, NEW r \in Runs, Step(r)
               PROVE  Advance
    BY DEF Next, AllEnded
  <2>1. TypeOK /\ PhaseInv
    BY DEF IInv
  <2>2. Nearer(r)
    <3>1. CASE AgentStep(r)
      BY <2>1, <3>1, AgentAdvances
    <3>2. CASE Served(r) /\ UNCHANGED run
      <4>1. CallsLeft(r)' = CallsLeft(r)
        BY <3>2 DEF CallsLeft
      <4>2. QED
        BY <2>1, <3>2, <4>1, ServedAdvances DEF Nearer
    <3>3. QED
      BY <3>1, <3>2 DEF Step
  <2>3. \A s \in Runs \ {r} : <<call[s], run[s]>>' = <<call[s], run[s]>>
    BY <2>1, OthersKept
  <2>4. QED
    BY <2>2, <2>3
<1>2. QED
  BY <1>1, RunInvariance, PTL DEF Spec, RunsAdvance

=============================================================================
