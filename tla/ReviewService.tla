--------------------------- MODULE ReviewService ---------------------------
(***************************************************************************)
(* The service around the graph: api/main.py with the checkpoints, the     *)
(* resume path (graph/resume.py), the working copies and the reports.      *)
(*                                                                         *)
(* Several invocations of the graph run at once: a background task per     *)
(* accepted webhook, a request per human decision, and the offline resumer *)
(* of scripts/prove_persistence.py.  Each works on a state of its own that *)
(* it loaded when it began; a checkpoint is written after a superstep,     *)
(* while the next one already runs, and the last one written is what the   *)
(* next invocation loads.  The process may die between any two steps.      *)
(*                                                                         *)
(* The course of a review is that of module ReviewGraph with the           *)
(* supersteps that only compute taken together.                            *)
(***************************************************************************)
EXTENDS Integers, FiniteSets

CONSTANTS
  Prs,         \* pull requests, by the name that goes into the thread id
  MaxJobs,     \* webhooks the run may receive
  MaxClients,  \* resume requests that may overlap
  Resumer,     \* scripts/prove_persistence.py --resume
  MaxClock,    \* seconds the clock may be read to show
  MaxCrashes,  \* times the process may die
  MaxEvents,   \* webhooks, crashes and overlapping requests together
  MaxIter,     \* settings.max_iter
  MaxPatches,  \* times a working copy may be patched; bounds its version
  Kinds        \* Kinds[j]: the kinds of payload webhook j may carry

\* The webhooks, in order of arrival, and the requests under way.
Jobs == 1..MaxJobs
Clients == (MaxJobs + 1)..(MaxJobs + MaxClients)

ASSUME MaxJobsAssumption == MaxJobs \in Nat
ASSUME MaxClientsAssumption == MaxClients \in Nat
ASSUME ResumerAssumption == Resumer \notin Clients \cup Jobs
ASSUME MaxClockAssumption == MaxClock \in Nat
ASSUME MaxEventsAssumption == MaxEvents \in Nat
ASSUME MaxCrashesAssumption == MaxCrashes \in Nat
ASSUME ServiceMaxIterAssumption == MaxIter \in Nat
ASSUME MaxPatchesAssumption == MaxPatches \in Nat
\* A bundled fixture, harmless or with an injection pattern in it, or the name of
\* one that is not there; inline content that is harmless, matches a pattern,
\* names a file outside the working copy, or has no pr_id.
Fixture == {"fixture", "blocked"}

detect_injection == {"blocked", "hostile"}

enforce == detect_injection \ Fixture

load_pull_request_raises == {"unknown"}

Refused == enforce \cup load_pull_request_raises \cup {"nameless"}

Kind == Fixture \cup Refused \cup {"inline", "escaping"}

ASSUME KindsAssumption == Kinds \in [Jobs -> SUBSET Kind]

VARIABLES
  up,         \* the API process is alive
  crashes,
  overlaps,   \* requests admitted while something else was under way
  \* memory of the process
  runs,       \* _RUNS
  job,        \* the background tasks
  req,        \* the resume requests
  \* the offline resumer, a process of its own
  offline,
  \* what each invocation of the graph holds, and its unwritten checkpoints
  mem,
  dirty,
  \* disk
  saved,      \* the latest checkpoint of each thread
  copy,       \* the working copies: 0 none, 1 as submitted, n+1 patched n times
  files,      \* artifacts/: whose report has the name {pr}-{second}
  \* history
  delivered,  \* decisions that reached the paused node of a thread's only review
  reported    \* decisions the reports of that review have carried

memory == <<runs, job, req>>
disk == <<saved, copy, files>>
history == <<delivered, reported>>
vars == <<up, crashes, overlaps, memory, offline, mem, dirty, disk, history>>

\* Counted from the first webhook.
Seconds == 0..MaxClock

\* thread_id = "pr-{name}-{second}"
Thread == [pr : Prs, at : Seconds]
NoThread == [pr |-> "none", at |-> -1]

Choices == {"approve", "reject"}
Undecided == "none"

Invocation == Jobs \cup Clients \cup {Resumer}

\* The next node: "hitl" is scheduled, "paused" has raised its interrupt; a
\* report is on disk from "upload" on.
Position ==
  {"none", "intake", "scan", "fix", "hitl", "paused", "decide",
   "report", "upload", "end"}

(***************************************************************************)
(* The part of the state a checkpoint must preserve: seen is the version   *)
(* of the working copy the last scan read (0: none did), patched says      *)
(* whether patched_files lists a line, path is report_path.                *)
(***************************************************************************)
Snapshot ==
  [next : Position, hitl : Choices \cup {Undecided}, patched : BOOLEAN,
   seen : Nat, iteration : 0..MaxIter, path : Seconds \cup {-1}]

Blank ==
  [next |-> "none", hitl |-> Undecided, patched |-> FALSE, seen |-> 0,
   iteration |-> 0, path |-> -1]

RunState == {"absent", "running", "awaiting_human", "complete", "failed"}

NoJob == [loc |-> "free", thread |-> NoThread, kind |-> "none", paused |-> FALSE]
Idle == [loc |-> "idle", thread |-> NoThread, choice |-> Undecided,
         alone |-> TRUE]

ThreadOf(i) ==
  IF i \in Jobs THEN job[i].thread
  ELSE IF i \in Clients THEN req[i].thread ELSE offline

\* The reviews started for a thread.
Starts(t) == {j \in Jobs : job[j].thread = t}

\* Two webhooks for one pull request in one second share a thread.
Restarted(t) == Cardinality(Starts(t)) > 1

\* History is kept of threads that have one review.
Recorded(h, t, decision) ==
  [h EXCEPT ![t] = IF Restarted(t) THEN {} ELSE @ \cup {decision}]

\* Who is under way.
Requests == {c \in Clients : req[c].loc # "idle"}

Tasks == {j \in Jobs : job[j].loc \notin {"free", "done"}}

Quiet == Requests = {} /\ Tasks = {} /\ offline = NoThread

\* What disturbs the plain course of a review; a run sees a few of them, in any
\* order.
Events == Cardinality({j \in Jobs : job[j].loc # "free"}) + crashes + overlaps

HasRoom == Events < MaxEvents

-----------------------------------------------------------------------------
Init ==
  /\ up = TRUE
  /\ crashes = 0
  /\ overlaps = 0
  /\ runs = [t \in Thread |-> "absent"]
  /\ job = [j \in Jobs |-> NoJob]
  /\ req = [c \in Clients |-> Idle]
  /\ offline = NoThread
  /\ mem = [i \in Invocation |-> Blank]
  /\ dirty = {}
  /\ saved = [t \in Thread |-> Blank]
  /\ copy = [t \in Thread |-> 0]
  /\ files = [name \in Prs \X Seconds |-> NoThread]
  /\ delivered = [t \in Thread |-> {}]
  /\ reported = [t \in Thread |-> {}]

\* What time.time() may show to a review: no second before the one it was
\* accepted in.
Reading(t) == t.at..MaxClock

-----------------------------------------------------------------------------
(***************************************************************************)
(* POST /webhook/pr.  The response carries a thread_id made of the current *)
(* second; the review itself is a background task, or the request's own    *)
(* work when the caller waits.                                             *)
(***************************************************************************)
webhook_pr(j, pr, kind, second) ==
  /\ up
  /\ HasRoom
  /\ job[j].loc = "free"
  /\ j = 1 => second = 0
  /\ \A k \in Jobs : k < j => job[k].loc # "free" /\ job[k].thread.at <= second
  /\ job' = [job EXCEPT ![j] = [loc |-> "accepted", kind |-> kind,
                                thread |-> [pr |-> pr, at |-> second],
                                paused |-> FALSE]]
  /\ LET reused == {t \in Thread : Restarted(t)'}
     IN /\ delivered' = [t \in Thread |-> IF t \in reused THEN {} ELSE delivered[t]]
        /\ reported' = [t \in Thread |-> IF t \in reused THEN {} ELSE reported[t]]
  /\ UNCHANGED <<up, crashes, overlaps, runs, req, offline, mem, dirty, disk>>

At(j, loc) == up /\ job[j].loc = loc

\* _run_review begins, in a thread of the pool or in the waiting request.
run_review(j) ==
  /\ At(j, "accepted")
  /\ runs' = [runs EXCEPT ![job[j].thread] = "running"]
  /\ job' = [job EXCEPT ![j].loc = "materialising"]
  /\ UNCHANGED <<up, crashes, overlaps, req, offline, mem, dirty, disk, history>>

\* Mutant: only the first part of _run_review is inside the try.
FailsSilently(j) ==
  /\ job' = [job EXCEPT ![j].loc = "done"]
  /\ mem' = [mem EXCEPT ![j] = Blank]
  /\ dirty' = dirty \ {j}
  /\ UNCHANGED <<up, crashes, overlaps, runs, req, offline, saved, files, history>>

\* An exception anywhere in _run_review, the refusals of _materialise included,
\* ends the task; only the status endpoint tells.
Fails(j) ==
  /\ runs' = [runs EXCEPT ![job[j].thread] = "failed"]
  /\ job' = [job EXCEPT ![j].loc = "done"]
  /\ mem' = [mem EXCEPT ![j] = Blank]
  /\ dirty' = dirty \ {j}
  /\ UNCHANGED <<up, crashes, overlaps, req, offline, saved, files, history>>

\* invoke() is given a new state: the checkpoint of the input is written, and
\* the append-only channels keep what an earlier review of the thread left.
\* To the graph, inline files are like any others.
Begin(j) ==
  LET t == job[j].thread
      input == [Blank EXCEPT !.next = "intake", !.patched = saved[t].patched]
  IN /\ mem' = [mem EXCEPT ![j] = input]
     /\ saved' = [saved EXCEPT ![t] = input]
     /\ job' = [job EXCEPT ![j].loc = "working",
                           ![j].kind = IF @ = "inline" THEN "fixture" ELSE @]
     /\ UNCHANGED <<up, crashes, overlaps, runs, req, offline, dirty,
                    files, history>>

\* A fixture is copied: an existing tree is removed first.
materialize_clear(j) ==
  /\ At(j, "materialising")
  /\ job[j].kind \in Fixture
  /\ copy' = [copy EXCEPT ![job[j].thread] = 0]
  /\ job' = [job EXCEPT ![j].loc = "cleared"]
  /\ UNCHANGED <<up, crashes, overlaps, runs, req, offline, mem, dirty,
                 saved, files, history>>

materialize_copy(j) ==
  /\ At(j, "cleared")
  /\ copy[job[j].thread] = 0
  /\ copy' = [copy EXCEPT ![job[j].thread] = 1]
  /\ Begin(j)

\* copytree() does not accept a destination that has appeared since.
materialize_raises(j) ==
  /\ At(j, "cleared")
  /\ copy[job[j].thread] # 0
  /\ Fails(j)
  /\ UNCHANGED copy

\* Mutant: the files are written before they are scanned.
RefuseAfterWriting(j) ==
  /\ At(j, "materialising")
  /\ job[j].kind \in Refused
  /\ copy' = [copy EXCEPT ![job[j].thread] = 1]
  /\ Fails(j)

\* No pr_id, no such fixture, or enforce() raised: refused before a file is
\* written.
materialise_refuses(j) ==
  /\ At(j, "materialising")
  /\ job[j].kind \in Refused
  /\ Fails(j)
  /\ UNCHANGED copy

\* Inline files are written over what is there; the ones before a path that
\* leaves the working copy stay.
materialise_inline(j) ==
  /\ At(j, "materialising")
  /\ job[j].kind = "inline"
  /\ copy' = [copy EXCEPT ![job[j].thread] = 1]
  /\ Begin(j)

materialise_escapes(j) ==
  /\ At(j, "materialising")
  /\ job[j].kind = "escaping"
  /\ copy' \in {copy, [copy EXCEPT ![job[j].thread] = 1]}
  /\ Fails(j)

-----------------------------------------------------------------------------
(***************************************************************************)
(* The graph.  A node acts on what its invocation holds; Step(i, s) is the *)
(* end of a superstep, whose checkpoint is still to be written.            *)
(***************************************************************************)
Working(i) ==
  IF i \in Jobs THEN At(i, "working")
  ELSE IF i \in Clients THEN up /\ req[i].loc = "working"
  ELSE offline # NoThread

AtNode(i, node) == Working(i) /\ mem[i].next = node

Step(i, snapshot) ==
  /\ mem' = [mem EXCEPT ![i] = snapshot]
  /\ dirty' = dirty \cup {i}
  /\ UNCHANGED <<up, crashes, overlaps, memory, offline, saved>>

\* The pull requests whose text an invocation's state may hold.
PayloadOf(i) == IF i \in Jobs THEN {i} ELSE Starts(ThreadOf(i))

\* ingest_pr, guardrail_input and, unless it blocks the review, coordinator.
intake(i) ==
  /\ AtNode(i, "intake")
  /\ \E j \in PayloadOf(i) :
       \/ /\ job[j].kind \in detect_injection
          /\ Step(i, [mem[i] EXCEPT !.next = "report"])
       \/ /\ job[j].kind \notin detect_injection
          /\ copy[ThreadOf(i)] # 0
          /\ Step(i, [mem[i] EXCEPT !.next = "scan"])
  /\ UNCHANGED <<copy, files, history>>

\* The specialists, the synthesizer and the node its conditional edge leads to.
scan(i) ==
  /\ AtNode(i, "scan")
  /\ copy[ThreadOf(i)] # 0
  /\ \E next \in {"hitl", "report", "fix"} :
       /\ next = "fix" => mem[i].iteration < MaxIter
       /\ Step(i, [mem[i] EXCEPT !.seen = copy[ThreadOf(i)], !.next = next])
  /\ UNCHANGED <<copy, files, history>>

\* The lines a pass still has to write: none when an execution that a crash cut
\* short has written them all, some of them, or others that a scan made again has
\* named.
CanPatch(i) == copy[ThreadOf(i)] \in 1..MaxPatches

Patches(i) == CanPatch(i) /\ copy' = [copy EXCEPT ![ThreadOf(i)] = @ + 1]

\* Mutant: a pass that patched nothing is not followed by another scan.
ApplyFixEndsLoop(i) ==
  /\ AtNode(i, "fix")
  /\ \/ /\ Patches(i)
        /\ Step(i, [mem[i] EXCEPT !.patched = TRUE, !.next = "scan",
                                  !.iteration = @ + 1])
     \/ /\ UNCHANGED copy
        /\ Step(i, [mem[i] EXCEPT !.next = "report", !.iteration = @ + 1])
  /\ UNCHANGED <<files, history>>

apply_fix(i) ==
  /\ AtNode(i, "fix")
  /\ \/ /\ Patches(i)
        /\ Step(i, [mem[i] EXCEPT !.patched = TRUE, !.next = "scan",
                                  !.iteration = @ + 1])
     \/ /\ UNCHANGED copy
        /\ Step(i, [mem[i] EXCEPT !.next = "scan", !.iteration = @ + 1])
  /\ UNCHANGED <<files, history>>

\* The interrupt is recorded with the checkpoint of the scheduled node.
hitl_approval(i) ==
  /\ AtNode(i, "hitl")
  /\ Step(i, [mem[i] EXCEPT !.next = "paused"])
  /\ UNCHANGED <<copy, files, history>>

\* apply_decision, then finalize.
apply_decision(i) ==
  /\ AtNode(i, "decide")
  /\ Step(i, [mem[i] EXCEPT !.next = "report"])
  /\ UNCHANGED <<copy, files, history>>

\* Mutant: the report goes to the bucket instead of to the disk.
PersistRemotely(i) ==
  /\ AtNode(i, "report")
  /\ \E second \in Reading(ThreadOf(i)) :
       mem' = [mem EXCEPT ![i] = [@ EXCEPT !.next = "upload", !.path = second]]
  /\ reported' = Recorded(reported, ThreadOf(i), mem[i].hitl)
  /\ UNCHANGED <<up, crashes, overlaps, memory, offline, dirty, saved, copy,
                 files, delivered>>

(***************************************************************************)
(* persist_report writes a file named for the pull request and the second, *)
(* then uploads under a key of the same resolution; a store that is down   *)
(* costs the object, not the review.                                       *)
(***************************************************************************)
persist_report(i) ==
  /\ AtNode(i, "report")
  /\ \E second \in Reading(ThreadOf(i)) :
       /\ files' = [files EXCEPT ![<<ThreadOf(i).pr, second>>] = ThreadOf(i)]
       /\ mem' = [mem EXCEPT ![i] = [@ EXCEPT !.next = "upload", !.path = second]]
  /\ reported' = Recorded(reported, ThreadOf(i), mem[i].hitl)
  /\ UNCHANGED <<up, crashes, overlaps, memory, offline, dirty, saved, copy, delivered>>

upload_report(i) ==
  /\ AtNode(i, "upload")
  /\ Step(i, [mem[i] EXCEPT !.next = "end"])
  /\ UNCHANGED <<copy, files, history>>

\* review_root() raises when the working copy is gone.
review_root_raises(i) ==
  (AtNode(i, "intake") \/ AtNode(i, "scan")) /\ copy[ThreadOf(i)] = 0 /\ UNCHANGED copy

\* A file that cannot be decoded or written ends the pass after the findings
\* before it have been patched.
apply_fix_raises(i) == AtNode(i, "fix") /\ (UNCHANGED copy \/ Patches(i))

\* The report's name has the pull request in it, and the disk may be full.
persist_report_raises(i) == AtNode(i, "report") /\ UNCHANGED copy

(***************************************************************************)
(* A node raises out of invoke(), which first waits for the checkpoints.   *)
(* A task catches the exception; a resume request answers 500 and writes   *)
(* no status; the resumer exits.                                           *)
(***************************************************************************)
node_raises(i) ==
  /\ review_root_raises(i) \/ apply_fix_raises(i) \/ persist_report_raises(i)
  /\ i \notin dirty
  /\ \/ i \in Jobs /\ Fails(i)
     \/ /\ i \notin Jobs
        /\ mem' = [mem EXCEPT ![i] = Blank]
        /\ IF i \in Clients
           THEN req' = [req EXCEPT ![i] = Idle] /\ UNCHANGED offline
           ELSE offline' = NoThread /\ UNCHANGED req
        /\ UNCHANGED <<up, crashes, overlaps, runs, job, dirty, saved, files, history>>

\* The checkpointer catches up with the loop.
put_checkpoint(i) ==
  /\ i \in dirty
  /\ Working(i)
  /\ mem[i].next # "upload"
  /\ saved' = [saved EXCEPT ![ThreadOf(i)] = mem[i]]
  /\ dirty' = dirty \ {i}
  /\ UNCHANGED <<up, crashes, overlaps, memory, offline, mem, copy, files, history>>

\* Mutant: invoke() does not wait for the checkpoints.
ReturnedEarly(i) ==
  Working(i) /\ mem[i].next \in {"paused", "end"}

\* invoke() returns at the end of the graph or at an interrupt, with every
\* checkpoint written.
Returned(i) ==
  Working(i) /\ mem[i].next \in {"paused", "end"} /\ i \notin dirty

-----------------------------------------------------------------------------
(***************************************************************************)
(* The end of _run_review: it asks the checkpointer whether the review is  *)
(* paused, and records the answer.                                         *)
(***************************************************************************)
pending_interrupt(t) == saved[t].next = "paused"

invoke_returns(j) ==
  /\ j \in Jobs
  /\ Returned(j)
  /\ job' = [job EXCEPT ![j].loc = "returned",
                        ![j].paused = pending_interrupt(job[j].thread)]
  /\ mem' = [mem EXCEPT ![j] = Blank]
  /\ UNCHANGED <<up, crashes, overlaps, runs, req, offline, dirty, disk, history>>

\* Mutant: a state the status schema does not know.
EndsAsPaused(j) ==
  /\ At(j, "returned")
  /\ runs' = [runs EXCEPT ![job[j].thread] =
                IF job[j].paused THEN "paused" ELSE "complete"]
  /\ job' = [job EXCEPT ![j] = [@ EXCEPT !.loc = "done", !.paused = FALSE]]
  /\ UNCHANGED <<up, crashes, overlaps, req, offline, mem, dirty, disk, history>>

\* Mutant: invoke() returning is taken for the end of the review.
EndsComplete(j) ==
  /\ At(j, "returned")
  /\ runs' = [runs EXCEPT ![job[j].thread] = "complete"]
  /\ job' = [job EXCEPT ![j] = [@ EXCEPT !.loc = "done", !.paused = FALSE]]
  /\ UNCHANGED <<up, crashes, overlaps, req, offline, mem, dirty, disk, history>>

\* Mutant: the two states are swapped.
EndsSwapped(j) ==
  /\ At(j, "returned")
  /\ runs' = [runs EXCEPT ![job[j].thread] =
                IF job[j].paused THEN "complete" ELSE "awaiting_human"]
  /\ job' = [job EXCEPT ![j] = [@ EXCEPT !.loc = "done", !.paused = FALSE]]
  /\ UNCHANGED <<up, crashes, overlaps, req, offline, mem, dirty, disk, history>>

run_review_ends(j) ==
  /\ At(j, "returned")
  /\ runs' = [runs EXCEPT ![job[j].thread] =
                IF job[j].paused THEN "awaiting_human" ELSE "complete"]
  /\ job' = [job EXCEPT ![j] = [@ EXCEPT !.loc = "done", !.paused = FALSE]]
  /\ UNCHANGED <<up, crashes, overlaps, req, offline, mem, dirty, disk, history>>

-----------------------------------------------------------------------------
(***************************************************************************)
(* POST /review/{thread_id}/resume: the pause is checked, then the         *)
(* decision is given to the graph, which loads whatever the latest         *)
(* checkpoint is by then.  A thread that is not paused is a conflict, and  *)
(* changes nothing.                                                        *)
(***************************************************************************)
Admit(c, t, choice) ==
  /\ up
  /\ req[c].loc = "idle"
  /\ \A d \in Clients : d < c => d \in Requests
  /\ \/ Quiet /\ UNCHANGED overlaps
     \/ ~Quiet /\ HasRoom /\ overlaps' = overlaps + 1
  /\ req' = [d \in Clients |->
               IF d = c
               THEN [loc |-> "checked", thread |-> t, choice |-> choice,
                     alone |-> offline # t /\ (\A e \in Requests : req[e].thread # t)]
               ELSE [req[d] EXCEPT !.alone = @ /\ req[d].thread # t]]
  /\ UNCHANGED <<up, crashes, runs, job, offline, mem, dirty, disk, history>>

\* Mutant: any known thread is resumed.
ResumeUnchecked(c, t, choice) ==
  saved[t].next # "none" /\ Admit(c, t, choice)

\* Mutant: the pause is looked up in the memory of the process.
ResumeKnown(c, t, choice) ==
  runs[t] = "awaiting_human" /\ pending_interrupt(t) /\ Admit(c, t, choice)

resume(c, t, choice) ==
  pending_interrupt(t) /\ Admit(c, t, choice)

\* Mutant: the paused node takes the resume for an empty answer.
LoadedUnanswered(t, choice) ==
  IF saved[t].next \in {"paused", "hitl"}
  THEN [saved[t] EXCEPT !.next = "decide"] ELSE saved[t]

\* What an invocation that delivers a choice loads: the paused node runs with
\* the choice; any other is run as it stands.
Loaded(t, choice) ==
  IF saved[t].next \in {"paused", "hitl"}
  THEN [saved[t] EXCEPT !.hitl = choice, !.next = "decide"]
  ELSE saved[t]

Deliver(i, t, choice) ==
  /\ mem' = [mem EXCEPT ![i] = Loaded(t, choice)]
  /\ IF Loaded(t, choice) # saved[t]
     THEN /\ dirty' = dirty \cup {i}
          /\ delivered' = Recorded(delivered, t, choice)
     ELSE UNCHANGED <<dirty, delivered>>

resume_review(c) ==
  /\ up
  /\ req[c].loc = "checked"
  /\ Deliver(c, req[c].thread, req[c].choice)
  /\ req' = [req EXCEPT ![c].loc = "working"]
  /\ UNCHANGED <<up, crashes, overlaps, runs, job, offline, disk, reported>>

\* The response carries the decision of the final state.
resume_responds(c) ==
  /\ c \in Clients
  /\ Returned(c)
  /\ req' = [req EXCEPT ![c] = Idle]
  /\ runs' = [runs EXCEPT ![req[c].thread] = "complete"]
  /\ mem' = [mem EXCEPT ![c] = Blank]
  /\ UNCHANGED <<up, crashes, overlaps, job, offline, dirty, disk, history>>

-----------------------------------------------------------------------------
(***************************************************************************)
(* The process dies: its memory is gone, tasks and requests with it.       *)
(***************************************************************************)
crash ==
  /\ up
  /\ crashes < MaxCrashes
  /\ HasRoom
  /\ up' = FALSE
  /\ crashes' = crashes + 1
  /\ runs' = [t \in Thread |-> "absent"]
  /\ job' = [j \in Jobs |->
               IF job[j].loc = "free" THEN NoJob
               ELSE [job[j] EXCEPT !.loc = "done", !.paused = FALSE]]
  /\ req' = [c \in Clients |-> Idle]
  /\ mem' = [i \in Invocation |-> IF i = Resumer THEN mem[i] ELSE Blank]
  /\ dirty' = dirty \cap {Resumer}
  /\ UNCHANGED <<overlaps, offline, disk, history>>

restart ==
  /\ ~up
  /\ up' = TRUE
  /\ UNCHANGED <<crashes, overlaps, memory, offline, mem, dirty, disk, history>>

(***************************************************************************)
(* The resumer continues a thread the dead process left, from its latest   *)
(* checkpoint, and rejects on behalf of the human if it is paused.         *)
(***************************************************************************)
run_resumer(t) ==
  /\ ~up
  /\ offline = NoThread
  /\ saved[t].next \notin {"none", "end"}
  /\ offline' = t
  /\ IF pending_interrupt(t)
     THEN Deliver(Resumer, t, "reject")
     ELSE /\ mem' = [mem EXCEPT ![Resumer] = saved[t]]
          /\ UNCHANGED <<dirty, delivered>>
  /\ UNCHANGED <<up, crashes, overlaps, memory, disk, reported>>

resumer_exits ==
  /\ Returned(Resumer)
  /\ offline' = NoThread
  /\ mem' = [mem EXCEPT ![Resumer] = Blank]
  /\ UNCHANGED <<up, crashes, overlaps, memory, dirty, disk, history>>

-----------------------------------------------------------------------------
Task(j) ==
  \/ run_review(j)
  \/ materialize_clear(j) \/ materialize_copy(j) \/ materialize_raises(j)
  \/ materialise_refuses(j) \/ materialise_inline(j) \/ materialise_escapes(j)
  \/ invoke_returns(j) \/ run_review_ends(j)

Graph(i) ==
  \/ intake(i) \/ scan(i) \/ apply_fix(i) \/ node_raises(i)
  \/ hitl_approval(i) \/ apply_decision(i)
  \/ persist_report(i) \/ upload_report(i) \/ put_checkpoint(i)

Request(c) == resume_review(c) \/ resume_responds(c)

Next ==
  \/ crash \/ restart \/ resumer_exits
  \/ \E j \in Jobs : Task(j)
  \/ \E j \in Jobs, pr \in Prs, kind \in Kind, second \in Seconds :
       kind \in Kinds[j] /\ webhook_pr(j, pr, kind, second)
  \/ \E i \in Invocation : Graph(i)
  \/ \E c \in Clients : Request(c)
  \/ \E c \in Clients, t \in Thread, choice \in Choices : resume(c, t, choice)
  \/ \E t \in Thread : run_resumer(t)

Spec == Init /\ [][Next]_vars

(***************************************************************************)
(* The thread pool runs every task, every node and checkpoint takes finite *)
(* time, and the container is restarted when it dies.  PatientHuman is an  *)
(* assumption about the outside: whoever sees a pause asks for it again    *)
(* while it lasts.  Nobody is obliged to run the resumer.                  *)
(***************************************************************************)
Process(i) ==
  \/ Graph(i)
  \/ i \in Jobs /\ Task(i)
  \/ i \in Clients /\ Request(i)
  \/ i = Resumer /\ resumer_exits

Fairness == WF_vars(restart) /\ \A i \in Invocation : WF_vars(Process(i))

PatientHuman ==
  \A t \in Thread : WF_vars(\E c \in Clients, choice \in Choices : resume(c, t, choice))

FairSpec == Spec /\ Fairness /\ PatientHuman

-----------------------------------------------------------------------------
(***************************************************************************)
(* What GET /review/{thread_id} answers: the memory of the process mixed   *)
(* with the checkpoint.                                                    *)
(***************************************************************************)
review_status(t) ==
  [found |-> runs[t] # "absent" \/ saved[t].next # "none",
   state |-> IF runs[t] = "absent" THEN "unknown" ELSE runs[t],
   awaiting_human |-> pending_interrupt(t)]

=============================================================================
