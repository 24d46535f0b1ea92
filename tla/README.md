# CodeGuard CI, specified

CodeGuard reviews pull requests with a graph of language-model agents
(`src/src/codeguard`). The models answer what they like; what the service
promises has to come from the code around them: the graph's routing, the safety
floor under the synthesised verdict, the bounded remediation loop, the human
approval, the retry and cost machinery, the checkpoints. That code is what these
modules specify. A model's answer, a provider fault, a human's choice and the
content of a pull request are nondeterministic everywhere.

Paths below are relative to `src/src/codeguard` unless they start with `docs/`
or `tests/`.

## 1. Inventory

| Component | State it keeps | Operations | Talks to |
|---|---|---|---|
| Review state and routing (`state.py`, `graph/edges.py`) | the channels of `ReviewState`; `findings`, `scratchpad`, `patched_files` append-only, the rest last-write-wins | `current_findings`, `blocking_findings`, the four edge functions | read by every node |
| Review graph (`graph/nodes.py`, `graph/build.py`, `graph/resume.py`) | one checkpointed thread per review | 14 nodes, fan-out, fan-in, interrupt, resume | agents, working copy on disk, checkpointer, artifact store |
| Synthesis agent (`agents/synthesizer.py`) | none | `dedupe`, model decision, `_reconcile` | router, validation |
| ReAct agents (`agents/base.py` and four subclasses) | one run: steps, scratchpad, error or report | bounded tool loop, final report with one repair | router, tool registry |
| Model router (`llm/router.py`) | running cost, process-wide singleton | `pick_model`, `fallback_for`, `invoke` with retries | providers, metrics |
| HTTP service (`api/main.py`) | `_RUNS` in memory, checkpoints in SQLite, working copies on disk | webhook, status, resume, reports | graph, guardrail, artifacts |
| Guardrails (`guardrails/`) | none | injection check, redaction, validate-or-repair | graph, service, agents |
| Tools and sandbox (`tools/`) | the review root of the current context | seven analysers, path containment, per-agent allow-list, observation budget | agents |
| Artifact storage (`storage/artifacts.py`) | objects in a bucket | upload, list, fetch | graph, service |
| Observability (`obs/`) | append-only logs | record, summarise | everything writes, no decision reads |
| Offline model stub (`llm/stub.py`) | a cursor into each script, per process | scripted and reactive replies | agents, in the router's place |
| Persistence proof (`src/scripts/prove_persistence.py`) | none of its own | worker, SIGKILL, resumer | graph, checkpointer, stub |
| Configuration (`config.py`, `deps.py`) | settings | | |

What is hard here:

- **Parallel fan-out.** Three specialists run on one snapshot of the state, and
  their updates are merged when the last is done. Each update has to be stamped
  with the pass it belongs to, because everything downstream selects by pass.
- **A loop that rewrites its input.** `apply_fix` patches the working copy and
  only some of the agents look again. They must do so before the report, and one
  that fails then has looked at nothing.
- **Decisions in layers.** A verdict may come from the guardrail, from the
  model, from the floor under the model, from a mechanical rule when the model
  fails, and from a human; each overwrites the last.
- **Degradation everywhere.** An agent that fails contributes nothing, which
  looks exactly like an agent that found nothing.
- **Nodes that raise.** Agents catch what their models do, but three nodes let an
  exception out: for a working copy that is gone, for a file that cannot be
  decoded or written in the middle of a pass, for a report that cannot be
  written. Who catches it depends on who invoked the graph, and a resume request
  does not.
- **A budget in two currencies.** The loop is bounded by `MAX_ITER`, the
  runtime by a number of supersteps fixed elsewhere.
- **Pauses that outlive processes.** A review waits for a human in a database;
  the process, its memory and the working copy have lives of their own.
- **One router for all.** Retries, fallback and a running cost shared by every
  thread.

What makes each part correct:

- *graph*: a report never approves over a genuine critical or, without a human,
  over a high; a human's decision is final; nothing is patched automatically
  while a critical stands; after every patch the agents it concerns run again; a
  refused pull request is never analysed; the review ends in a report or a pause,
  or a node raised.
- *agents*: a run ends with a report or with an error, within its step budget.
- *router*: a call ends within its attempts; the fallback is another model; the
  recorded cost is what was spent and the cap stops spending.
- *service*: a pause is ended by an answer alone, across restarts; an accepted
  review reaches a status its poller can act on while the process lives; what a
  status says is true of the checkpoints, with the exceptions that section 3
  names.
- *tools*: no detected value reaches a model whole; every call leaves a row or a
  marked span.
- *offline review*: an approval follows from a look at the code, and a fix is
  applied where the finding was.

The hazards are listed with their lines in `PROJECT.json`.

## 2. Modules

| Module | Models |
|---|---|
| `ReviewState` | `state.py`, `graph/edges.py`, the mechanical part of `agents/synthesizer.py`: pure operators |
| `ReviewGraph` | `graph/nodes.py`, `graph/build.py`, `resume_review`: the state machine of one review |
| `ReviewGraphProps` | its properties, its inductive invariant, and the statements of the repository it does not keep |
| `ReviewContract` | the abstract specification: what a review promises to the outside |
| `ReviewRefinement` | the refinement mapping from the graph to the contract |
| `ReviewGraphProofs` | proofs of the first inductive invariant and the properties under it |
| `ReviewOutcomeProofs` | proofs of the second inductive invariant and the properties under it |
| `ReviewRefinementProofs` | proof that the graph implements the contract |
| `MCReviewGraph` | instances of the graph for TLC |
| `LLMRouter` | `llm/router.py`: one call through routing, failover, retries, metering and cap |
| `AgentRun` | `agents/base.py`, the call of `agents/synthesizer.py`, `guardrails/validation.py`: runs over the shared router |
| `AgentRunProps` | their properties and inductive invariant |
| `AgentRunProofs` | the theorems about them |
| `MCAgentRun` | instances of the runs for TLC, and what the repository says of cap and retries |
| `ReviewService` | `api/main.py`, `graph/resume.py`, the checkpoints, working copies, reports, crash, restart and resumer |
| `ReviewServiceProps` | its properties and the mapping to the register |
| `ReviewRegister` | the abstract specification: what the service promises about a review's durable life |
| `MCReviewService` | an instance of the service for TLC |
| `ReviewServiceProofs` | proofs of the service's types and of what holds of whoever works |
| `ReviewRegisterProofs` | proof that the service implements the register |
| `ReviewPromisesProofs` | proofs of the other safety properties of the service |
| `ToolRegistry` | `tools/`, `guardrails/redaction.py`: pure operators over lines and lengths |
| `StubRouter` | `llm/stub.py`: the scripts, and what each of its two routers reports and decides |
| `OfflineReview` | an offline review: agents in parallel on real tools, remediation of a working copy, the human pause, kills |
| `OfflineReviewProps` | its properties and the mapping to the contract |
| `MCOfflineReview` | an instance of the offline review for TLC |
| `OfflineReviewProofs` | the theorems about it |

`ReviewGraph` extends `ReviewState`, `AgentRun` extends `LLMRouter`;
`ReviewRefinement` instantiates `ReviewContract`. The two state machines meet in
one place: a run of `AgentRun` that ends with a report is a
`specialist_reports`, `coordinator` or `synthesizer` step of the graph, one that
ends with an error the corresponding `_degraded` step. `RunOutcome` (exactly one
of the two) and `RunsEnd` (always one of them) are what the graph's three
outcomes and its fairness rest on.

`ReviewService` runs several invocations of the graph against shared disk; it
takes the supersteps that only compute together and keeps those that read or
write the disk, pause, or can be lost between two checkpoints. `OfflineReview`
runs one review with the agents' loops, the tools and the repaired lines in
view; `StubRouter` extends `ReviewState`, whose selectors and edge functions
decide its course too, and `ToolRegistry`.

### ReviewState

A finding is its fingerprint (an opaque model value for category, file, line and
message), its severity, whether its agent triaged it as a false positive, and
whether it carries a suggested fix. The agent and the pass are stamped by the
graph. The edge functions keep their names and take the channels they read as
parameters.

`dedupe` keeps the first finding of each fingerprint. The list's order is the
model's choice within a report and the runtime's between reports, so `Kept`
allows any choice of one finding per fingerprint. The mapping of severities and
the rules of `_reconcile` and of the mechanical verdict are exact.

Below some definitions stands a variant marked *Mutant*: the same definition
with a plausible bug. Substituting it makes TLC report the property named with
it in `PROJECT.json`.

### ReviewGraph

Each node of the graph is an action with the node's name. A node reads the
channels, writes those its returned update names, and then its outgoing edge
schedules the next superstep (`frontier`). The LangGraph runtime itself is
external and modelled from how the graph uses it:

- a superstep runs its tasks on one snapshot; their updates (`writes`) are
  applied together when the last task is done (`fan_in`);
- `interrupt()` suspends the run (`paused`) with the node still scheduled; a
  resume is a new `invoke()` with a fresh count of supersteps, which re-runs the
  node to its end;
- an exception from a node (`node_raises`), or more supersteps than
  `recursion_limit`, ends the run without a report (`failed`).

| In the model | In the code |
|---|---|
| `status` ... `report` | the channels of `ReviewState`; `report` is what `persist_report` writes |
| `verdict` | the decision of the `Verdict`; rationale and finding list are text |
| `scratchpad` | per agent and pass: judgment, `DEGRADED` or skipped |
| `patched_files` | per patch: the finding and the pass (the code stores `file:line`) |
| `workdirExists`, `hostile` | two facts about the pull request, fixed for the run |
| `specialist_skipped/reports/degraded` | the three ends of `_run_specialist` |
| `coordinator`, `coordinator_degraded`, `coordinator_raises` | the two returns of `coordinator_node`, and `review_root` raising |
| `synthesizer`, `synthesizer_degraded` | `synthesize` returning, and the `except` branch |
| `apply_fix_raises` | `read_text` on a file that is not UTF-8, of which the scanners, reading with `errors="replace"`, may have reported a fixable finding; a `write_text` that fails |
| `persist_report_raises` | `mkdir` or `write_text`, neither guarded; the file's name contains the payload's `pr_id` |
| `resume_review` | `resume_review` and the rest of `hitl_approval` |
| `answered` | history variable: some agent's run ended with an answer |

`ReviewContract` knows neither nodes nor findings: a review is working, waiting,
reported or aborted; the last assessment found the code clean, disputed, high or
critical; a patch makes it unassessed again; and the assessment with the human's
answer determine what may be published. `ReviewRefinement` computes these five
from the graph's variables. The risk is that of the findings in scope from the
moment the synthesis has seen them, and unknown before.

Abstracted: prompts, rationales, costs, redacted text, and which suggested lines
apply to the file (`apply_fix` may patch any subset of the fixable findings).

### LLMRouter and AgentRun

Each agent run is a thread with at most one call outstanding, and the threads
share `_total_cost_usd`. A call is at its primary, at its fallback, being
metered, returned or raised; the actions are what can happen to it there.

| In the model | In the code |
|---|---|
| `invoke`, `primary_fails`, `fallback_fails`, `provider_answers` | one `runnable.invoke(messages)` inside `Retrying`, with `with_fallbacks([fallback])` |
| `call[r].first`, `Retried` | the error `with_fallbacks` raises when both fail (the primary's), and `TRANSIENT_ERRORS` applied to it |
| `meter` | the addition to `_total_cost_usd` and the comparison with the cap |
| `fallback_used(r)` | the field of `LLMResult` that the metrics row repeats |
| `run[r].at`, `step` | the `for ... else` loop of `ReActAgent.run`, the final report, its repair |
| `act`, `conclude` | an answer with tool calls, an answer without |
| `report_valid`, `report_invalid` | the two results of `_coerce` in `validate_or_repair` |
| `give_up` | the two `except Exception` of `run`, and the exception leaving `synthesize` |
| `requests`, `spent`, `calls`, `call[r].last` | history variables |

A run in `Synthesis` starts at its final report. What a tool call returns, a
denial included, is an observation in a conversation the model reads; it changes
nothing else, so `act` is one step. The API key is taken to be configured,
`with_fallback` is true and no failure is injected, as in every call an agent
makes. The cost of an answer is any amount up to `MaxCost`, and an answer may
leave out which model gave it. `meter` is one step because CPython 3.11, which
the image runs, switches threads neither inside the addition nor between it and
the comparison.

### ReviewService

Several invocations of the graph are under way at once: the background task of
each accepted webhook (`Jobs`), each resume request (`Clients`) and the offline
resumer, a process of its own. Each holds a state it loaded when it began
(`mem`); a superstep leaves it unwritten (`dirty`), the checkpointer writes it
while the next superstep runs (`put_checkpoint`), and what was written last
(`saved`) is what the next invocation loads. `crash` takes everything in memory
and leaves the disk.

| In the model | In the code |
|---|---|
| `runs` | `_RUNS` |
| `Thread` | `thread_id`, a pull request and a second |
| `webhook_pr` | the handler up to its 202; with `wait=true` the same task runs in the request |
| `run_review`, `invoke_returns`, `run_review_ends`, `Fails` | `_run_review`, between its calls and at its `except` |
| `materialize_clear/copy/raises` | `rmtree` and `copytree` in `materialize`, which another task may come between |
| `materialise_refuses/inline/escapes` | the refusals and the writing of inline files in `_materialise` |
| `intake`, `scan`, `apply_fix`, `hitl_approval`, `apply_decision`, `persist_report`, `upload_report` | the nodes; `scan` is the specialists, the synthesis and the edge after it |
| `node_raises` | what leaves the invocation: the task's `except` makes it an error status, a resume request answers 500 and writes no status, the resumer exits |
| `review_root_raises`, `apply_fix_raises`, `persist_report_raises` | where it comes from: a working copy that is gone, a pass in which a file cannot be decoded or written, with or without a patch before it, a report that cannot be written |
| `resume`, `resume_review`, `resume_responds` | the check for a pause, the invocation with the decision, the response |
| `run_resumer`, `resumer_exits` | `prove_persistence.py --resume` |
| `copy` | how often the bytes of a working copy have been patched, up to `MaxPatches`; `seen` is the version a scan read |
| `CanPatch`, `apply_fix` | a pass may find something to write or not, whatever a crash, or an exception, left of an earlier one, and whatever a scan made again has named |
| `files` | `artifacts/`, a name per pull request and second |
| `review_status` | what `GET /review/{thread_id}` answers |
| `delivered`, `reported`, `alone`, `overlaps` | history variables and the bound on overlaps |

The service is one process, as the image starts it. Its disk, `artifacts/`
included, outlives it: the database and the workspace are volumes, and the
compose file restarts the container with its file system. A redeploy, which
replaces the container and the `artifacts/` in it, is not modelled. The content of a
payload is one of seven kinds: a bundled fixture, harmless or with a pattern in
it, an unknown one, and inline files that are harmless, match a pattern, escape
the working copy or come without a `pr_id`.

Two webhooks for one pull request in one second share a thread (`Restarted`).
The code does nothing to tell such reviews apart, so most promises are stated
for the other threads, and each property says so by its condition; the model
does run such pairs, and `EndedHasReport`, `RefusedLeavesNothing` and
`AcceptedSettles` are stated for them as well.

`ReviewRegister` knows no process, request or checkpoint. A review is absent,
open, waiting, answered, or contested (a second one was started under its name).
Waiting is left by `Answer` alone; `Publish` carries an answer that was given, if
any was, and is impossible while a human is asked. `lifeOf` in
`ReviewServiceProps` computes the life of a review from its latest checkpoint
and what was delivered to it; crash, restart, checkpoints that change nothing
visible and the status in memory are stutters.

### ToolRegistry, StubRouter and OfflineReview

A file under review is a sequence of lines, and a line is what the analysers say
of it (`Content`). One finding is reported per line, so a finding is known by
its line. A tool's result is the JSON object it is made into, reduced to the
lengths `_json()` looks at: how many findings and files it lists, what cannot be
shortened, and whether the raw output is still in it. Values in it are sets of
atoms: a `leak` is a password with a mail address in it, so that two redaction
rules match, one value inside the other. The few characters a mask keeps of a
value are not modelled as a part of it.

Tools cut what they quote before redaction sees it (`code[:300]` of bandit's
excerpts, `[:160]` of uncovered lines, the end of the test output), so what is
quoted of a value is a `Piece`: the atoms within the tool's limit, and whether
some were cut off. A rule matches a whole value only. `QuotedBy` has bandit quote a
line twice, once cut and once whole in `issue_text`; the mask replaces the whole
one and leaves the cut one where it stands. `Within` is what each tool quotes of
each line, any assignment of atoms for the proofs.

| In the model | In the code |
|---|---|
| `at[a]` | the loop of `ReActAgent.run` of agent `a` and the tool call it is in |
| `dispatch`, `dispatch_denied`, `run_tool*`, `shrink`, `observe` | `dispatch()` from its allow-list to its row, a step for each thing that can go on meanwhile |
| `run_tool_times_out`, `run_tool_unreadable` | an analyser killed at its limit, whose result is empty; output that no parser reads, of which the excerpt is shown |
| `run_tool_without_tests` | coverage with no tests to run, which returns before it starts an analyser and leaves no analyser row |
| `run_tool_refuses`, `run_tool_raises` | the exceptions `dispatch()` turns into a result, and all others |
| `shown[a]` | what a reactive report finds in the messages: the last readable result of its tool |
| `heard[a]` | the pieces of raw values in the messages sent on behalf of `a` |
| `context`, `log` | `current_agent`, and the rows and spans of this process |
| `cursor` | `StubRouter`'s position in each script |
| `router` | `scripted_review_router`, or `scripted_critical_router`, which delegates to the SecurityAgent alone and has it report a critical whatever it saw |
| `hitl_approval`, `resume_review`, `apply_decision` | `interrupt()`, the resume with a decision, and the rest of the node |
| `apply_fix_raises`, `persist_report_raises` | the exceptions of the two nodes, which end the process; `aborted` |
| `killed_in_a_pass`, `killed_in_apply_fix`, `killed_after_the_passes` | SIGKILL; the new process has a new router and redoes what its checkpoint does not hold; a review that waits is found waiting |

What the code does here that its reader might not expect, and the model repeats:

- trimming stops when a list is down to one element, whether or not the text
  fits, and nothing shortens a diff or a file: the loop of the agent then cuts
  the text at its own limit (`agents/base.py:164`), which leaves no readable
  JSON;
- the findings that go are those that come last by path, and the stub does not
  look at `truncated`, so `ApprovalIsEarned` speaks of passes in which the
  result was shown whole, or of what was shown of it;
- an analyser that timed out is failed in its own row and fine in the row of the
  call, and every analyser call is counted in both;
- an exception that is not a `SandboxViolation`, `TypeError` or `ValueError`
  leaves no row at all (`tools/registry.py:259`), only a marked span.

## 3. Runs

### The graph

All runs of the graph have two fingerprints. `ReviewGraph.cfg` allows two
remediation passes: with two, a finding can survive a useless pass and a fixed
one, the ceiling is reached after being not reached once, and findings of three
passes coexist. The recursion limit is the least that suffices, 7 + 4 * MaxIter,
so that an off-by-one in the loop hits it. The agents' possible reports
(`MCReviewGraph`) contain one representative of each kind that routing and
verdict distinguish: nothing, a fixable high, a high without a fix, a critical
beside a fixable high, and two findings with one fingerprint of which one is
triaged.

| Run | Expect | Shows |
|---|---|---|
| `review_graph` | pass | types, the safety properties, one action property, the contract, liveness |
| `short_budget` | pass | with a recursion limit of 9, where two passes need 15, only reviews that took a pass too many for it are aborted |
| `security_optional` | violation | the SecurityAgent is skipped on a review that approves (`edges.py:46` says it is never optional; `nodes.py:83` skips it) |
| `coverage_dropped` | violation | a blocking coverage finding vanishes with the first remediation pass (`state.py:196` against `edges.py:55`) |
| `outage_approves` | violation | with every model call failing the report says APPROVE (`nodes.py:320` against `tests/test_resilience.py:93`) |
| `useless_pass` | violation | a pass that patched nothing is followed by another (`edges.py:100` against `nodes.py:407`) |
| `critical_masked` | violation | a triaged twin hides a critical from the floor (`synthesizer.py:131` against `docs/ARCHITECTURE.md:161`) |

The properties of `review_graph`:

- `ApprovalFloor`: a report that approves without a human rests on a scan with
  no genuine critical and no genuine high, except a high that shares its
  fingerprint with a harmless finding. The exception is what deduplication
  costs; it is written into the property because the code has it.
- `HumanDecisionStands`: only a genuine critical brings a review before a human,
  and the report repeats the human's decision.
- `NoCriticalAutoPatched`: every patch answers a finding that was blocking and
  fixable in its own scan, and that scan held no genuine critical.
- `LastPatchRescanned`: after the last patch the SecurityAgent, and the
  StyleAgent if delegated, ran again before the report, and how is on record. A
  run that degraded counts, so this does not say that the patched code was
  analysed, which the code does not promise (`outage_approves`); it says that the
  rerun is neither skipped nor overtaken by the report.
- `BlockedNeverAnalysed`: a refused pull request is never delegated, and its
  report blocks and keeps its status.
- `BudgetSuffices`: a review in which no node raised is aborted only if the
  recursion limit is less than 7 supersteps and 4 for each pass it took. In
  `ReviewGraph.cfg` that means never; it is checked where it can happen, in
  `short_budget`.
- `TerminationExplained`: the loop is left only for the reasons
  `loop_should_terminate` gives.
- `KeepsContract`: every run of the graph is a run of `ReviewContract`.
- `DecisionIsFinal`: after the human's decision nothing is scanned or patched.
- `SettlesOrWaits`: every review comes to its report, to a pause, or to one of
  the three exceptions (`Broken`), and is never cut off by the recursion limit.
- `DecisionLeadsToReport`: a decision leads to the report, or to the exception of
  a report that could not be written.

### The runs of agents

`AgentRun.cfg` has two runs over one router, a ReAct loop and a synthesis, with
two steps, two attempts, a cap of one unit and answers of at most one. Two runs
are enough for one to spend what stops the other, and for both to be stopped by
the cap after each was paid for; two attempts for one retry and its exhaustion;
two steps for a loop that ends by its budget and one that ends before. The
configured models are those of `config.py`: a small one for the coordinator, and
a large one that the synthesis requests and that is also the fallback, so that
both branches of `fallback_for` are taken. The ReAct agents of the "standard"
class request the same large model.

| Run | Expect | Shows |
|---|---|---|
| `agent_run` | pass | types and the properties below; 165,811 states |
| `cap_per_review` | violation | a run is stopped although its own review spent less than the cap (`router.py:326`, a process-wide sum, against `router.py:59` "a single review run") |
| `transient_retried` | violation | a fallback that times out after a rate-limited primary is not retried (`router.py:293` against `router.py:10`) |

- `SpendBounded`: the process overspends its cap by at most one answer for each
  run the cap has stopped. The cap is checked after the money is spent, so this
  is what it can promise; with one run it is the cap plus one answer.
- `CapSticks`: once over the cap, no run gets an answer again.
- `RequestsBounded`: per run at most one call per step, one for the report and
  one for the repair; per call two requests per attempt.
- `RunOutcome`: a run ends with a report or an error, never both or neither, and
  leaves no call behind.
- `FallbackReported`: the metrics report a failover exactly when one happened,
  also where the requested model is the configured fallback.
- `RunsAdvance`: every step brings the run that takes it nearer to its end, in
  the order of `Nearer`: a call fewer ahead of it, or the same call nearer to an
  answer or an error. In particular nothing starts an exhausted call over. The
  step leaves the other runs where they are.
- `RunsEnd`: every run ends.

### The service

`ReviewService.cfg` has one pull request, two webhooks, two seconds, two
requests that may overlap, one crash and two passes. Of webhooks, crashes and
overlapping requests a run sees two, in any order: two reviews in one second or
in two, a review and a crash with the resumer or without, a review and a request
that overlaps with its task or with another request. The first webhook brings a
harmless fixture or inline files; the second matches a pattern as a fixture or
as inline files, or escapes: so a harmless review meets every way in which its
neighbour may be refused, blocked or half-written. One pull request is enough,
because reviews of different ones share nothing but the process. A working copy is
patched `MaxPatches` = 3 times at most: once in each of two passes and once more in
one that was made again, or in part; with one crash no more come together.
There are 106,677 states.

`CHECK_DEADLOCK` is off because a service that has served its two webhooks has
nothing left to do.

- `ServiceTypeOK`: types.
- `VerdictIsOnTheCode`: from the end of the analysis on, the last scan read the
  working copy as it is, also when a fix was written, the process died before the
  checkpoint, and another process made the pass again and found nothing to
  patch.
- `CompleteHasReport`: a review whose status says complete has a report, or
  somebody is at work on it, or it is stranded. Task and requests write the
  status in any order: a task that returns after a request has taken its pause
  sees none and writes complete, before the request has written the report or
  failed to.
- `EndedHasReport`: the file a finished review points to exists. It may be
  another review's that reported in the same second.
- `RefusedLeavesNothing`: a refused payload leaves no working copy and no
  checkpoint. An `escaping` one is not refused in this sense: the files before
  the offending path stay.
- `NobodyWaitsInVain`: a review whose status says it waits for a human does, or
  has been answered. The task that saw the pause may write this after the request
  that ended it has written that the review is complete, so the status can be
  late, and it stays for good when the report after the answer cannot be written;
  it is never of a pause nobody saw.
- `NobodyStopsHalfWay`: without a crash, a review between two checkpoints has
  somebody working on it, has visibly failed, or is `Stranded`: it stands before
  its report with a human's answer in the checkpoint. That is where an exception
  out of a resume request leaves it (`api/main.py:295` has no `except`): the
  status stays `awaiting_human`, or complete, and every further resume is answered
  409. The property says that this is the only such place. Shared threads are left out because with
  three webhooks in one second the third makes a review that failed for want of
  its working copy one that is running; that is beyond this instance and was
  found with a larger one.
- `OwnDecisionHonoured`: a request that was alone with its thread is answered
  with its own decision. Two that overlap may both have seen the pause.
- `KeepsRegister`: the refinement.
- `AcceptedSettles`: an accepted review reaches a status its poller can act on,
  unless the process dies.
- `ResumerFinishes`: what the resumer takes up it brings to the end or to the
  pause ahead, unless the fix or the report it stands at cannot be written. Threads
  with a second webhook are left out: the second task may remove the working copy,
  and this needs two webhooks and a crash, which the bound of this instance
  excludes.
- `PauseIsAnswered`: a pause outlives the process, and a human who keeps asking
  gets an answer into the checkpoints. An answer that a crash took while it was
  only in memory does not count: the pause still stands, and the human has to ask
  again.

### The offline review

`OfflineReview.cfg` runs either of the two routers over three lines in two files
and five contents of them: all
of it repairable; some of it; nothing repairable in what is shown; something
that cannot be repaired at all; more findings of one tool than fit. Limits are
in units instead of characters (2,400 for a result and 2,500 for an observation
in the code) and chosen so that two findings fit and three do not, that dropping
the raw output sometimes suffices, and that a diff never fits. The scripts are
those of the offline review shortened to a step budget of three, with one tool
the style agent may not use and a coordinator that reads on until its budget is
used up. The scripts of the code fit the budget. One tool may fail in any of the
ways the code has, and one kill may come anywhere. There are
102,126 states.
`CHECK_DEADLOCK` is off because the review ends.

- `OfflineTypeOK`: types.
- `ApprovalIsEarned`: an approval leaves nothing real in what was shown whole,
  and a pass without a failed tool has shown something of what was there. It
  fails if a script is not replayed from its top in each pass.
- `EveryPassRepairs`: no more passes than repaired lines, whatever was applied
  twice.
- `FixesOnlyWhatWasFound`: a line no genuine finding of the pass names is not
  rewritten.
- `NoDetectedValueIsHeard`: no value the redaction rules match reaches a model
  whole, also when it contains another; and what does reach it of one, beyond what
  its mask keeps, is a piece that a tool had cut before redaction, never what
  masking one value left of another. In the instance the second line goes on
  beyond bandit's and the diff's limits, and the test output begins in the middle
  of the first, so such pieces do occur.
- `NoCallVanishes`: every call has a row or a marked span, and the row of an
  analyser bears its caller's name, while agents run in parallel. Rows are counted
  where the code writes them: an analyser that raised before it would write its
  own leaves none, and is not seen to miss one.
- `OfflineKeepsContract`: the review is a run of `ReviewContract` too, with the
  working copy, the scripts and the kills in view that `ReviewGraph` abstracts.
- `OfflineReviewEnds`: liveness, over trimming, loops and passes; an exception out
  of `apply_fix` or `persist_report` ends the process, and so the review.

Four more properties are proved (section 4) and in no run; they held when TLC
checked the instances with them. `ReviewAdvances` of `ReviewGraphProps`: every
step brings a review on. `CriticalsNeedAHuman` of `OfflineReviewProps`: a
review by `scripted_critical_router` ends with a human's answer and without a
pass. `OfflineAdvances`: no step goes round. `ServiceAdvances` of
`ReviewServiceProps`: between crashes, tasks, requests and the resumer only come
nearer to their ends, and set nobody else back. The same goes for the inductive
invariants (`IInv` and `JInv` of the graph, `IInv` of the runs, `AskedInv` of the
service, `EarnedInv` and `CriticalInv` of the offline review): each was checked on
the instance of its run before it was proved, and a run adds nothing to what is
proved for all values of the constants.

### Fairness

The `FairSpec` of the graph is weakly fair on the system as a whole, nothing more:
as long as some task can be finished, one is. Every model call has a timeout
and a bounded number of attempts, every agent a step budget, and nothing in a
node waits for anything else, so the runtime does finish its tasks. No fairness
is assumed of the human: a review may wait for ever, which is why
`SettlesOrWaits` accepts the pause. The `FairSpec` of `AgentRun` is weakly fair
on each run: runs are threads, and every request has a timeout (`llm_timeout_s`)
after which it has failed.

In `ReviewService` it is weak on `restart` (`restart: unless-stopped`) and on
each invocation: tasks run in a thread pool, and nodes and checkpoints take
finite time. `PatientHuman` is an assumption about the outside, used by
`PauseIsAnswered`: whoever sees a pause asks for it again while it lasts.
Nothing is assumed of webhooks, crashes or the start of the resumer. In
`OfflineReview` it is weak on the graph and on each agent's thread; analysers
run under a time limit.

## 4. Proofs

### The graph

Proved for every set of fingerprints, every function `Reports`, every `MaxIter`
and every positive `RecursionLimit` (the assumptions named in `ReviewState` and
`ReviewGraph`):

| Theorem | Module | States |
|---|---|---|
| `TypeCorrect` | `ReviewGraphProofs` | `TypeOK` |
| `Invariance` | | `IInv`, the first inductive invariant |
| `ApprovalFloorHolds` | | `ApprovalFloor` |
| `HumanDecisionHolds` | | `HumanDecisionStands` |
| `PatchingIsJustified` | | `NoCriticalAutoPatched` |
| `BudgetHolds` | | `BudgetSuffices` |
| `NeverAborted` | | if `RecursionLimit >= 7 + 4 * MaxIter`, a review fails only in one of the three nodes that raise (`Broken`; the service uses 60 with a default `MAX_ITER` of 3) |
| `GraphOnlyAdvances` | | `ReviewAdvances`, the safety half of `SettlesOrWaits` |
| `SecondInvariance` | `ReviewOutcomeProofs` | `JInv`, the second inductive invariant |
| `RefusedNeverAnalysed` | | `BlockedNeverAnalysed` |
| `TerminationHolds` | | `TerminationExplained` |
| `RescannedHolds` | | `LastPatchRescanned` |
| `DecisionFinal` | | `DecisionIsFinal` |
| `Refinement` | `ReviewRefinementProofs` | `KeepsContract`: `Spec => Contract!Spec` |

None of the properties is inductive: each speaks of the report, which depends on
a verdict formed several supersteps before. `IInv` adds what every scheduled
node may rely on:

- `FrontierInv`: a superstep is a single node, or specialists, or the end; tasks
  that finished belong to it and their findings carry the current pass; a paused
  run stands at `hitl_approval`.
- `BudgetInv`: `Position[n] + 4 * iteration` bounds the supersteps taken when
  `n` is scheduled, and the loop's nodes are scheduled only below the ceiling.
- `VerdictInv`: `finalize` and `persist_report` hold a verdict on the floor or a
  human's; a pause or a decision implies a genuine critical in the current scan;
  after a decision only the nodes towards the report are scheduled.
- `PatchInv`: no critical in the current scan while the loop's nodes are
  scheduled.

Each part is preserved by every step given the earlier parts, one lemma per
part, one step of its proof per action. The floor at `persist_report` comes from
`SynthesisStep`: any approval the synthesizer can give, over any choice of kept
findings, satisfies the floor once routing has excluded criticals.

`JInv` is inductive relative to `IInv` and adds what has happened so far:

- `RefusalInv`: a refused review schedules only the nodes towards its report and
  has no agent's work.
- `OutcomeInv`: the nodes past the loop are reached for one of the reasons that
  `TerminationExplained` allows, and the reason stands until the report.
- `RescanInv`: after a patch every agent that has to look again is scheduled,
  has finished in this superstep, or is on record for this pass.

`GraphOnlyAdvances` orders the steps of a review: the failure, the passes, the
`Distance` of what is scheduled from the end, the tasks of a superstep that are
done, the pause. A resume starts a new `invoke()` with a fresh count of
supersteps, so `BudgetInv` alone does not bound a review; that the node it goes to
is nearer the end does.

`Refinement` uses both invariants. The initial states map to the initial state
of the contract; then there is one lemma per action of the graph, which shows
that it is `Assess` (the synthesis, or the guardrail's refusal), `Patch`
(`apply_fix`), `Ask`, `Answer`, `Publish`, `Abort` or a stutter. The invariants
enter where the contract's guards are facts of an earlier superstep: that a
critical is in scope when `hitl_approval` runs, that none is when `apply_fix`
does, and that the verdict `persist_report` writes is one the risk allows.

### The runs of agents

`AgentRunProofs` assumes a finite set of runs, any complexity of each, any
models of which primary and fallback differ, and any positive numbers of
attempts and steps, any cap and any largest cost (`LLMRouter`, `AgentRun`).

| Theorem | States |
|---|---|
| `RunInvariance` | `IInv`, the inductive invariant |
| `RunsOnlyAdvance` | `RunsAdvance`, the safety half of `RunsEnd` |
| `RunTypes` | `TypeOK` |
| `SpendIsBounded` | `SpendBounded` |
| `RequestsAreBounded` | `RequestsBounded` |
| `OutcomesHold` | `RunOutcome` |
| `FailoverReported` | `FallbackReported` |
| `CapStays` | `CapSticks` |

The invariant adds to the properties what each phase of a call says of the rest
of it (`PhaseInv`: a call being metered carries no error, a call at its fallback
carries the primary's) and how many calls a run has made from where it stands
(`CallsInv`). `SpendStep` is the argument behind the bound: only `meter` spends,
and it either leaves the total within the cap or adds to `CapHit` a run that was
not in it, whose answer cost at most `MaxCost`; no other step takes a run out of
`CapHit`, because the error a call raises is the error its run ends with.

`RunsOnlyAdvance` orders what is left of a run: first the calls ahead of it
(`CallsLeft`: the steps, the report, the repair), then the attempts and the
phases of the call under way (`CallSteps`). Every action lowers the one or the
other for its run (`ServedAdvances` for the router, `AgentAdvances` for the
agent). Both are natural numbers bounded by the constants, so a run that takes
steps ends; that it takes them is the fairness, and stays with TLC.

### The service

Proved for any pull requests, any number of webhooks, requests, seconds, crashes
and passes, and any assignment of kinds to webhooks (the assumptions named in
`ReviewService`):

| Theorem | Module | States |
|---|---|---|
| `ServiceTypes` | `ReviewServiceProofs` | `ServiceTypeOK` and `Tidy` |
| `NobodyGoesRound` | | `ServiceAdvances`, the safety half of `AcceptedSettles` and `ResumerFinishes` |
| `ReviewsInHand` | `ReviewRegisterProofs` | `HandsInv`, the inductive invariant behind the rest |
| `ServiceKeepsRegister` | | `KeepsRegister`: `Spec => Register!Spec` |
| `FinishedHaveReports` | `ReviewPromisesProofs` | `EndedHasReport` |
| `OwnDecisionsStand` | | `OwnDecisionHonoured` |
| `RefusalsLeaveNothing` | | `RefusedLeavesNothing` |
| `VerdictsAreOnTheCode` | | `VerdictIsOnTheCode` |
| `CompletedHaveReports` | | `CompleteHasReport` |
| `WaitingWasAsked` | | `NobodyWaitsInVain` |
| `ReviewsGoOn` | | `NobodyStopsHalfWay` |

`Tidy` says that whoever works has a thread and a state, that a dead process has
nobody working, and that one who does not work has nothing unwritten. `HandsInv`
says of every thread with one review in whose hands it is. Before the graph
begins, nobody else has anything to do with it. An invocation that holds no
answer is either the only one and nobody asks, or has written down that it waits
and only returns. An invocation that holds an answer holds one that was
delivered. This is why an interleaving of tasks, requests, resumer and crashes
cannot publish an answer nobody gave, or over the head of a human: no property
of the register is inductive without it, because each concerns a checkpoint that
is still to be written. It does not say that an answer is never lost.
`delivered` is set when a request has the decision in memory, and a crash before
its first checkpoint takes it: the life of the review counts as answered, and
the pause stands to be answered again (`PauseIsAnswered`). `Begun` adds that
nobody works on, or asks for, a review that has no checkpoint.

Each promise of `ReviewPromisesProofs` has a further invariant, inductive
relative to these: `FilesInv` (who is past the writing of the report has it on
disk, and no checkpoint is taken between writing and upload), `AloneInv` (the
pause a request saw stays for it while it is alone), `RefusedInv` (nobody works
where only refused payloads came), `CodeInv` (the versions that scans read and
the copy has, in memory and on disk, and that a lone analyst's checkpoint is one
of the analysis), `ReportedInv` and `ClaimInv` (a status complete, or a task
about to write it, stands on a report, on an answer on its way in somebody's
hands, or on one left before its report: `Carried`),
`AskedInv` (a status or a task that says awaiting_human stands on a checkpoint
at the pause, or on an answer that was delivered),
`AliveInv`, `FailedInv` and `BusyInv` (of a review that is neither failed nor
`Carried`, somebody without an answer has a step or a checkpoint ahead, and so an
exception there is one a task catches; and nobody touches a review that has
failed). A step is of one of
eight kinds (`StepKinds`); a frame lemma per kind says what it leaves alone, and
each invariant has one lemma that says when it is kept, so that a kind that does
not concern it takes one step of its proof.

`NobodyGoesRound` orders, for each task, request and the resumer apart, the stages
it has to go, the passes its invocation has left, the nodes ahead in a pass, and
the checkpoint it still owes. A step that is neither a crash nor a restart starts
somebody at rest or takes one of them down in this order, and leaves every other
invocation where it is, whatever happens to the checkpoints they share.
`SnapshotsOK`, a conjunct of `Tidy`, keeps a fix from being scheduled at the
ceiling, so the order has a bottom. A request may be repeated without end, so the
order is per invocation and not one of the whole service.

### The offline review

Proved for any finite set of lines, any contents, scripts, lengths and limits,
and any numbers of steps, passes, faults and kills; `ApprovalsAreEarned` under the
two further assumptions below:

| Theorem in `OfflineReviewProofs` | States |
|---|---|
| `OfflineTypes` | `OfflineTypeOK`, and that a pass begins below the ceiling |
| `NoValueHeard` | `NoDetectedValueIsHeard` |
| `RepairsOnlyFindings` | `FixesOnlyWhatWasFound` |
| `NoCallIsLost` | `NoCallVanishes` |
| `NoPassForNothing` | `EveryPassRepairs` |
| `OfflineImplementsContract` | `OfflineKeepsContract`: `Spec => Contract!Spec` |
| `ApprovalsAreEarned` | `ApprovalIsEarned` |
| `CriticalsGoToAHuman` | `CriticalsNeedAHuman` |
| `ReviewsOnlyAdvance` | `OfflineAdvances`, the safety half of `OfflineReviewEnds` |

`NoValueHeard` rests on `RedactLeavesFragments`: masked longest first, what is
left of a piece is either nothing or a piece that was cut and holds no whole
value, whatever is on the line and whatever the limits are. `CallsInv` balances
the accounts of every agent and adds what the analysers' rows need: the context
variable of a thread in a tool call names its agent. `RepairInv` adds the count
that bounds the passes: the fixable findings of a pass are lines not yet
repaired, so the passes made, and the one begun, are outnumbered by the lines
that are repaired or about to be. A kill in the middle of `apply_fix` keeps it,
because what was written is counted on the other side.

`ApprovalsAreEarned` is the theorem about the scripts. It leaves them open but
for their shape, `ReviewScriptAssumption`: an agent whose report is reactive
asks for the tool its report reads, concludes when its script ends and not
before, and the script fits its steps. The two scripts of
`scripted_review_router` are of this shape, and without it the property fails.
`ObservationAssumption` says of the limits that a result which fits its own fits
an observation too, also when it is a list cut down to one; without it what is
shown could be cut to nothing. The invariant, `EarnedInv`, follows an agent
through its script (`LookInv`): the cursor modulo the script's length is the
step it is at (`OnScript`), so that a pass begins at the top; what it was shown
is of this working copy (`ShownTruly`); a result on its way shows something if
there is something (`WillShow`), which has to survive every shortening
(`ShorteningShows`); and once it is done its findings are on record for this
pass (`ReportsShown`). A kill in the middle of `apply_fix` leaves a working copy
that nobody was shown, so nothing of this is claimed between the decision to fix
and the next pass. An approval then stands on findings none of which is genuine
and above low (`ApprovalFromReports`), and so on what was shown.

`OfflineImplementsContract` maps a review to the contract that `ReviewGraph`
implements as well: its risk is that of the findings of the current pass, unknown
until the synthesis has seen them. `VerdictInv` carries the synthesis's verdict,
and the route taken on it, to the report. Kills are stutters of the contract.

`CriticalsGoToAHuman` needs `CriticalInv`: the SecurityAgent is scheduled in the
only pass, is at work again after a kill unless its report was kept, and has its
critical on record when it is done, so that the route leads to `hitl_approval`.

`ReviewsOnlyAdvance` lists what there is to use up: kills, passes, phases of a
pass, and for each agent steps, stages of a step (`StageLeft`) and what a result
still has to lose (`Weight`). `ShrinkingLightens` is the lemma that `_json()`
needs: a round drops the excerpts, or at least one element of the longest list,
or finds that list down to one and is the last.

### Only model-checked

The liveness properties (`SettlesOrWaits`, `DecisionLeadsToReport`, `RunsEnd`,
`AcceptedSettles`, `ResumerFinishes`, `PauseIsAnswered`, `OfflineReviewEnds`)
are out of the prover's reach. The half of them that is safety is proved
(`GraphOnlyAdvances`, `RunsOnlyAdvance`, `NobodyGoesRound`,
`ReviewsOnlyAdvance`): what is left to TLC there is that some step is always
enabled, and taken under the fairness. Every safety property of a passing run is
the subject of a theorem.

That `RunsEnd` justifies the graph's fairness is an argument of this document and
not a theorem, and so is that `ReviewService` takes the supersteps of
`ReviewGraph` together correctly.

## 5. Plan

Done, in this order: the graph, its contract and their proofs; the router and
the agent runs with theirs; the service with reports, store, crash and resumer,
its register and their proofs; the tools, redaction and repair as they meet in
an offline review, with both scripted routers, and the proofs about it.

Left, in the order of what it would add:

1. A refinement from `ReviewService` to several instances of `ReviewGraph`, in
   place of the argument above.
2. Several worker processes on one database. The image does not start them and
   `_RUNS` rules them out.

## 6. Not modelled

- What the analysers find and what a pattern matches: subprocesses, parsers of
  their output and regular expressions. They are inputs.
- Prompts, rationales, and any text but for the values redaction is about. Line
  ends are among this: `splitlines()` in `apply_fix` counts a form feed as one and
  ruff does not, so in a file that holds one the two number lines differently.
- Names a provider gives its models: `answered_by` takes the id that was asked
  for, as the rows in the repository have it. A provider that answers with a dated
  alias would be reported as a failover.
- Configuration parsing and the dependency report (`config.py`, `deps.py`), the
  evidence notebook and the script that builds it, and the command-line
  demonstrations under `src/scripts/`, except `prove_persistence.py`.
- Rows of model calls, prompt capture, exporters and summaries of `obs/`: logs
  that nothing reads back into a decision.
- Scripted errors of the stub, which only tests inject.
- The object store's protocol, `GET /reports`, `GET /health` and
  `render_graph`, which only read.
