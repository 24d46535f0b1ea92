----------------------------- MODULE LLMRouter -----------------------------
(***************************************************************************)
(* The process-wide router of model calls (codeguard/llm/router.py): which *)
(* model a call goes to and which it falls over to, how often it is        *)
(* retried, what it costs and when the cost cap stops it.  Each agent run  *)
(* is a thread with at most one call outstanding; the threads share the    *)
(* running cost.                                                           *)
(*                                                                         *)
(* Providers answer, or fail with an error that is worth retrying or one   *)
(* that is not.  Costs are counted in a unit small enough to be whole.     *)
(***************************************************************************)
EXTENDS Integers, FiniteSets

CONSTANTS
  Runs,           \* agent runs served by the process
  complexity,     \* complexity[r], fixed by the kind of agent
  primary_model, agent_model, synthesis_model, fallback_model,
                  \* settings, as _normalise() leaves them
  RetryAttempts,  \* settings.llm_retry_attempts
  CostCap,        \* settings.cost_cap_usd
  MaxCost         \* what one answer costs at most

ASSUME RunsAssumption == IsFiniteSet(Runs)

ASSUME ComplexityAssumption ==
  complexity \in [Runs -> {"cheap", "standard", "complex"}]

\* Every configuration the repository ships has two models; with one there is
\* nothing to fall over to.
ASSUME ModelAssumption == primary_model # fallback_model

ASSUME RetryAssumption == RetryAttempts \in Nat \ {0}
ASSUME CostAssumption == CostCap \in Nat /\ MaxCost \in Nat

VARIABLES
  _total_cost_usd,
  call,             \* call[r]: the call run r has outstanding
  requests,         \* history: requests sent to providers for that call
  spent             \* history: what the answers to run r have cost

routerVars == <<_total_cost_usd, call, requests, spent>>

Models == {primary_model, agent_model, synthesis_model, fallback_model}
Unnamed == "unnamed"         \* the response does not say which model answered

ProviderErrors == {"transient", "permanent"}
NoError == "none"

Call ==
  [phase   : {"idle", "primary", "fallback", "metering", "returned", "raised"},
   attempt : 0..RetryAttempts,
   first   : ProviderErrors \cup {NoError},    \* why the primary failed
   last    : ProviderErrors \cup {NoError},    \* history: why the fallback did
   error   : ProviderErrors \cup {NoError, "cost_cap"},
   actual  : Models \cup {Unnamed},
   cost    : 0..MaxCost]

Idle == [phase |-> "idle", attempt |-> 0, first |-> NoError, last |-> NoError,
         error |-> NoError, actual |-> Unnamed, cost |-> 0]

RouterInit ==
  /\ _total_cost_usd = 0
  /\ call = [r \in Runs |-> Idle]
  /\ requests = [r \in Runs |-> 0]
  /\ spent = [r \in Runs |-> 0]

-----------------------------------------------------------------------------
pick_model(c) ==
  CASE c = "complex"  -> synthesis_model
    [] c = "standard" -> agent_model
    [] OTHER          -> primary_model

\* Mutant: the configured fallback, whatever it is that failed.
FallbackAsConfigured(model) == fallback_model

fallback_for(model) ==
  IF model = fallback_model THEN primary_model ELSE fallback_model

requested(r) == pick_model(complexity[r])

\* The model that the request of this phase goes to.
Asked(r) ==
  IF call[r].phase = "primary" THEN requested(r) ELSE fallback_for(requested(r))

\* How the result reports a failover: another model than the requested one
\* answered, and said so.
fallback_used(r) == call[r].actual # Unnamed /\ call[r].actual # requested(r)

(***************************************************************************)
(* One call.                                                               *)
(***************************************************************************)
invoke(r) ==
  /\ call[r].phase = "idle"
  /\ call' = [call EXCEPT ![r] = [Idle EXCEPT !.phase = "primary", !.attempt = 1]]
  /\ requests' = [requests EXCEPT ![r] = 0]
  /\ UNCHANGED <<_total_cost_usd, spent>>

\* with_fallbacks() swallows the primary's error and asks the fallback.
primary_fails(r) ==
  /\ call[r].phase = "primary"
  /\ \E e \in ProviderErrors :
       call' = [call EXCEPT ![r] = [@ EXCEPT !.phase = "fallback", !.first = e]]
  /\ requests' = [requests EXCEPT ![r] = @ + 1]
  /\ UNCHANGED <<_total_cost_usd, spent>>

\* Mutant: one attempt too many.
RetriedOnceMore(r) ==
  call[r].first = "transient" /\ call[r].attempt <= RetryAttempts

\* When both fail, with_fallbacks() raises the first error, and that one
\* decides whether tenacity makes another attempt.
Retried(r) ==
  call[r].first = "transient" /\ call[r].attempt < RetryAttempts

\* Mutant: a transient failure starts the whole call over.
FallbackFailsStartsOver(r) ==
  /\ call[r].phase = "fallback"
  /\ \E e \in ProviderErrors :
       call' = [call EXCEPT ![r] =
         IF call[r].first = "transient"
         THEN [Idle EXCEPT !.phase = "primary", !.attempt = 1]
         ELSE [call[r] EXCEPT !.phase = "raised", !.error = call[r].first, !.last = e]]
  /\ requests' = [requests EXCEPT ![r] = 0]
  /\ UNCHANGED <<_total_cost_usd, spent>>

fallback_fails(r) ==
  /\ call[r].phase = "fallback"
  /\ \E e \in ProviderErrors :
       call' = [call EXCEPT ![r] =
         IF Retried(r)
         THEN [Idle EXCEPT !.phase = "primary", !.attempt = call[r].attempt + 1]
         ELSE [call[r] EXCEPT !.phase = "raised", !.error = call[r].first, !.last = e]]
  /\ requests' = [requests EXCEPT ![r] = @ + 1]
  /\ UNCHANGED <<_total_cost_usd, spent>>

answered_by(r, model) ==
  /\ call[r].phase \in {"primary", "fallback"}
  /\ \E c \in 0..MaxCost, actual \in {model, Unnamed} :
       call' = [call EXCEPT ![r] = [@ EXCEPT !.phase = "metering", !.cost = c,
                                             !.actual = actual]]
  /\ requests' = [requests EXCEPT ![r] = @ + 1]
  /\ UNCHANGED <<_total_cost_usd, spent>>

provider_answers(r) == answered_by(r, Asked(r))

\* Mutant: the cap is held against the call alone.
MeterCallAlone(r) ==
  /\ call[r].phase = "metering"
  /\ _total_cost_usd' = _total_cost_usd + call[r].cost
  /\ IF call[r].cost > CostCap
     THEN call' = [call EXCEPT ![r] = [@ EXCEPT !.phase = "raised",
                                                !.error = "cost_cap"]]
     ELSE call' = [call EXCEPT ![r] = [@ EXCEPT !.phase = "returned"]]
  /\ spent' = [spent EXCEPT ![r] = @ + call[r].cost]
  /\ UNCHANGED requests

\* The answer has been paid for; now it is counted, and thrown away if the
\* process has spent more than the cap.  CPython switches threads neither in
\* the addition nor between it and the comparison.
meter(r) ==
  /\ call[r].phase = "metering"
  /\ _total_cost_usd' = _total_cost_usd + call[r].cost
  /\ IF _total_cost_usd' > CostCap
     THEN call' = [call EXCEPT ![r] = [@ EXCEPT !.phase = "raised",
                                                !.error = "cost_cap"]]
     ELSE call' = [call EXCEPT ![r] = [@ EXCEPT !.phase = "returned"]]
  /\ spent' = [spent EXCEPT ![r] = @ + call[r].cost]
  /\ UNCHANGED requests

\* What happens to a call while its caller waits.
Served(r) ==
  primary_fails(r) \/ fallback_fails(r) \/ provider_answers(r) \/ meter(r)

=============================================================================
