------------------------ MODULE ReviewServiceProofs ------------------------
(***************************************************************************)
(* Proofs about the service, for any pull requests, any number of webhooks,*)
(* requests and crashes, any clock and any remediation ceiling.            *)
(***************************************************************************)
EXTENDS ReviewServiceProps, FiniteSetTheorems, TLAPS

JobRecord ==
  [loc : {"free", "accepted", "materialising", "cleared", "working",
          "returned", "done"},
   thread : Thread \cup {NoThread}, kind : Kind \cup {"none"}, paused : BOOLEAN]

RequestRecord ==
  [loc : {"idle", "checked", "working"}, thread : Thread \cup {NoThread},
   choice : Choices \cup {Undecided}, alone : BOOLEAN]

\* A fix is scheduled only under the ceiling.
SnapshotOK(s) == s \in Snapshot /\ (s.next = "fix" => s.iteration < MaxIter)

(***************************************************************************)
(* Who is under way has a thread, and whoever is not holds nothing; only   *)
(* the resumer outlives the process.                                       *)
(***************************************************************************)
Threads ==
  /\ \A j \in Jobs : IF job[j].loc = "free" THEN job[j] = NoJob
                     ELSE job[j].thread \in Thread
  /\ \A c \in Clients : IF req[c].loc = "idle" THEN req[c] = Idle
                        ELSE req[c].thread \in Thread /\ req[c].choice \in Choices

NobodyWithoutProcess ==
  ~up => /\ \A c \in Clients : req[c].loc = "idle"
         /\ \A j \in Jobs : job[j].loc \in {"free", "done"}

HandsOff == \A i \in Invocation : ~Working(i) => mem[i] = Blank /\ i \notin dirty

SnapshotsOK ==
  /\ \A i \in Invocation : SnapshotOK(mem[i])
  /\ \A t \in Thread : SnapshotOK(saved[t])

Contested == \A t \in Thread : Restarted(t) => delivered[t] = {} /\ reported[t] = {}

Tidy == Threads /\ NobodyWithoutProcess /\ HandsOff /\ SnapshotsOK /\ Contested

TypeInv == ServiceTypeOK /\ Tidy

(***************************************************************************)
(* Identities.                                                             *)
(***************************************************************************)

\* The tasks, the requests and the resumer are told apart, and only the
\* resumer works without the process.
LEMMA WhoWorks ==
  /\ \A j \in Jobs : /\ j \in Invocation /\ j \notin Clients /\ j # Resumer
                     /\ Working(j) <=> At(j, "working")
                     /\ ThreadOf(j) = job[j].thread
  /\ \A c \in Clients : /\ c \in Invocation /\ c \notin Jobs /\ c # Resumer
                        /\ Working(c) <=> (up /\ req[c].loc = "working")
                        /\ ThreadOf(c) = req[c].thread
  /\ Resumer \in Invocation /\ Resumer \notin Jobs /\ Resumer \notin Clients
  /\ Working(Resumer) <=> offline # NoThread
  /\ ThreadOf(Resumer) = offline
<1>1. Jobs \cap Clients = {}
  BY MaxJobsAssumption, MaxClientsAssumption DEF Jobs, Clients
<1>2. QED
  BY <1>1, ResumerAssumption DEF Working, ThreadOf, Invocation

\* So after a step.
LEMMA WhoWorksNext ==
  /\ \A j \in Jobs : /\ Working(j)' <=> At(j, "working")'
                     /\ ThreadOf(j)' = job'[j].thread
  /\ \A c \in Clients : /\ Working(c)' <=> (up' /\ req'[c].loc = "working")
                        /\ ThreadOf(c)' = req'[c].thread
  /\ Working(Resumer)' <=> offline' # NoThread
  /\ ThreadOf(Resumer)' = offline'
BY WhoWorks, ResumerAssumption DEF Working, ThreadOf, Invocation

\* No thread is the one of who has none.
LEMMA NoThreadIsNone == NoThread \notin Thread
BY MaxClockAssumption DEF NoThread, Thread, Seconds

\* A blank state is a state.
LEMMA BlankIsOK == SnapshotOK(Blank)
BY ServiceMaxIterAssumption DEF SnapshotOK, Snapshot, Blank, Position, Undecided

\* Whoever works has a thread.
LEMMA WorkersHaveThreads ==
  ASSUME Threads, ServiceTypeOK, NEW i \in Invocation, Working(i)
  PROVE  ThreadOf(i) \in Thread
<1>1. CASE i \in Jobs
  BY <1>1, WhoWorks DEF Threads, At
<1>2. CASE i \in Clients
  BY <1>2, WhoWorks DEF Threads
<1>3. CASE i = Resumer
  BY <1>3, WhoWorks DEF ServiceTypeOK
<1>4. QED
  BY <1>1, <1>2, <1>3 DEF Invocation

\* As long as the tasks keep their threads, the same threads are contested.
LEMMA SameThreads ==
  ASSUME \A j \in Jobs : job'[j].thread = job[j].thread, NEW t
  PROVE  Starts(t)' = Starts(t) /\ Restarted(t)' = Restarted(t)
<1>1. Starts(t)' = Starts(t)
  BY DEF Starts
<1>2. QED
  BY <1>1 DEF Restarted

(***************************************************************************)
(* Types: what a task, a node, a request and the resumer may do.           *)
(***************************************************************************)

\* A step of a task, which may begin or leave the graph.
LEMMA TaskTypes ==
  ASSUME TypeInv, NEW j \in Jobs, up, job[j].loc # "free",
         job' \in [Jobs -> JobRecord],
         \A k \in Jobs : job'[k].thread = job[k].thread,
         \A k \in Jobs \ {j} : job'[k] = job[k],
         job'[j].loc # "free",
         mem' \in [Invocation -> Snapshot],
         \A k \in Invocation \ {j} : mem'[k] = mem[k], SnapshotOK(mem'[j]),
         dirty' \subseteq dirty, dirty \ {j} \subseteq dirty',
         job'[j].loc # "working" => mem'[j] = Blank /\ j \notin dirty',
         runs' \in [Thread -> RunState], copy' \in [Thread -> Nat],
         saved' \in [Thread -> Snapshot], \A t \in Thread : SnapshotOK(saved'[t]),
         UNCHANGED <<up, crashes, overlaps, req, offline, files, history>>
  PROVE  TypeInv'
<1>1. ServiceTypeOK'
  BY DEF TypeInv, ServiceTypeOK, JobRecord, history
<1>2. Threads'
  BY DEF TypeInv, Tidy, Threads
<1>3. NobodyWithoutProcess'
  BY DEF NobodyWithoutProcess
<1>4. HandsOff'
  <2>1. ASSUME NEW k \in Invocation, k # j PROVE Working(k)' <=> Working(k)
    BY <2>1, WhoWorks, WhoWorksNext DEF Invocation, At
  <2>2. Working(j)' <=> job'[j].loc = "working"
    BY WhoWorksNext DEF At
  <2>3. QED
    BY <2>1, <2>2, WhoWorks DEF TypeInv, Tidy, HandsOff
<1>5. SnapshotsOK'
  BY DEF TypeInv, Tidy, SnapshotsOK, SnapshotOK
<1>6. Contested'
  BY SameThreads DEF TypeInv, Tidy, Contested, history
<1>7. QED
  BY <1>1, <1>2, <1>3, <1>4, <1>5, <1>6 DEF TypeInv, Tidy

\* A step of an invocation inside the graph.
LEMMA NodeTypes ==
  ASSUME TypeInv, NEW i \in Invocation, Working(i),
         NEW s, SnapshotOK(s), mem' = [mem EXCEPT ![i] = s],
         dirty' \in {dirty, dirty \cup {i}},
         copy' \in [Thread -> Nat],
         files' \in [Prs \X Seconds -> Thread \cup {NoThread}],
         reported' \in [Thread -> SUBSET (Choices \cup {Undecided})],
         \A t \in Thread : Restarted(t) => reported'[t] = {},
         UNCHANGED <<up, crashes, overlaps, memory, offline, saved, delivered>>
  PROVE  TypeInv'
<1>1. ServiceTypeOK'
  BY DEF TypeInv, ServiceTypeOK, SnapshotOK, memory
<1>2. Threads' /\ NobodyWithoutProcess'
  BY DEF TypeInv, Tidy, Threads, NobodyWithoutProcess, memory
<1>3. HandsOff'
  <2>1. \A k \in Invocation : Working(k)' <=> Working(k)
    BY WhoWorks, WhoWorksNext DEF Invocation, At, memory
  <2>2. QED
    BY <2>1 DEF TypeInv, Tidy, HandsOff, ServiceTypeOK
<1>4. SnapshotsOK'
  <2>1. \A k \in Invocation : mem'[k] = IF k = i THEN s ELSE mem[k]
    BY DEF TypeInv, ServiceTypeOK
  <2>2. QED
    BY <2>1 DEF TypeInv, Tidy, SnapshotsOK, SnapshotOK
<1>5. Contested'
  BY SameThreads DEF TypeInv, Tidy, Contested, memory
<1>6. QED
  BY <1>1, <1>2, <1>3, <1>4, <1>5 DEF TypeInv, Tidy

\* A request, or the resumer, takes up or leaves the graph.
LEMMA HandTypes ==
  ASSUME TypeInv, NEW i \in Invocation \ Jobs,
         req' \in [Clients -> RequestRecord],
         \A c \in Clients \ {i} : req'[c] = req[c],
         i \in Clients => up /\ offline' = offline
                           /\ IF req'[i].loc = "idle" THEN req'[i] = Idle
                             ELSE req'[i].thread \in Thread /\ req'[i].choice \in Choices,
         offline' \in Thread \cup {NoThread},
         mem' \in [Invocation -> Snapshot],
         \A k \in Invocation \ {i} : mem'[k] = mem[k], SnapshotOK(mem'[i]),
         dirty \ {i} \subseteq dirty', dirty' \subseteq dirty \cup {i},
         ~Working(i)' => mem'[i] = Blank /\ i \notin dirty',
         runs' \in [Thread -> RunState],
         delivered' \in [Thread -> SUBSET Choices],
         \A t \in Thread : Restarted(t) => delivered'[t] = {},
         copy' \in [Thread -> Nat],
         UNCHANGED <<up, crashes, overlaps, job, saved, files, reported>>
  PROVE  TypeInv'
<1>1. ServiceTypeOK'
  BY DEF TypeInv, ServiceTypeOK, RequestRecord
<1>2. Threads' /\ NobodyWithoutProcess'
  BY DEF TypeInv, Tidy, Threads, NobodyWithoutProcess
<1>3. HandsOff'
  <2>1. ASSUME NEW k \in Invocation, k # i PROVE Working(k)' <=> Working(k)
    BY <2>1, WhoWorks, WhoWorksNext DEF Invocation, At
  <2>2. QED
    BY <2>1 DEF TypeInv, Tidy, HandsOff
<1>4. SnapshotsOK'
  BY DEF TypeInv, Tidy, SnapshotsOK, SnapshotOK
<1>5. Contested'
  BY SameThreads DEF TypeInv, Tidy, Contested
<1>6. QED
  BY <1>1, <1>2, <1>3, <1>4, <1>5 DEF TypeInv, Tidy

\* What is known of a task that is under way.
LEMMA TaskFacts ==
  ASSUME TypeInv, NEW j \in Jobs, up, job[j].loc # "free"
  PROVE  /\ job \in [Jobs -> JobRecord] /\ job[j] \in JobRecord
         /\ job[j].thread \in Thread /\ j \in Invocation
         /\ mem \in [Invocation -> Snapshot] /\ saved \in [Thread -> Snapshot]
         /\ runs \in [Thread -> RunState] /\ copy \in [Thread -> Nat]
         /\ SnapshotOK(mem[j]) /\ \A t \in Thread : SnapshotOK(saved[t])
         /\ job[j].loc # "working" => mem[j] = Blank /\ j \notin dirty
BY WhoWorks
DEF TypeInv, ServiceTypeOK, JobRecord, Tidy, Threads, SnapshotsOK, HandsOff, At

\* A task that fails keeps the types.
LEMMA FailsTypes ==
  ASSUME TypeInv, NEW j \in Jobs, up, job[j].loc # "free", Fails(j),
         copy' \in [Thread -> Nat]
  PROVE  TypeInv'
<1>1. /\ job' = [job EXCEPT ![j].loc = "done"] /\ mem' = [mem EXCEPT ![j] = Blank]
      /\ runs' = [runs EXCEPT ![job[j].thread] = "failed"]
      /\ dirty' = dirty \ {j}
      /\ UNCHANGED <<up, crashes, overlaps, req, offline, saved, files, history>>
  BY DEF Fails
<1>2. job' \in [Jobs -> JobRecord] /\ job'[j].loc = "done"
      /\ (\A k \in Jobs : job'[k].thread = job[k].thread)
      /\ \A k \in Jobs \ {j} : job'[k] = job[k]
  BY <1>1, TaskFacts DEF JobRecord
<1>3. mem' \in [Invocation -> Snapshot] /\ mem'[j] = Blank
      /\ \A k \in Invocation \ {j} : mem'[k] = mem[k]
  BY <1>1, TaskFacts, BlankIsOK DEF SnapshotOK
<1>4. runs' \in [Thread -> RunState]
  BY <1>1, TaskFacts DEF RunState
<1>5. QED
  BY <1>1, <1>2, <1>3, <1>4, TaskFacts, BlankIsOK, TaskTypes

\* The beginning of an invocation keeps the types.
LEMMA BeginTypes ==
  ASSUME TypeInv, NEW j \in Jobs, up, job[j].loc # "free", Begin(j),
         copy' \in [Thread -> Nat]
  PROVE  TypeInv'
<1> DEFINE t == job[j].thread
           input == [Blank EXCEPT !.next = "intake", !.patched = saved[t].patched]
<1>1. /\ mem' = [mem EXCEPT ![j] = input] /\ saved' = [saved EXCEPT ![t] = input]
      /\ job' = [job EXCEPT ![j].loc = "working",
                            ![j].kind = IF @ = "inline" THEN "fixture" ELSE @]
      /\ UNCHANGED <<up, crashes, overlaps, runs, req, offline, dirty,
                     files, history>>
  BY DEF Begin
<1>2. SnapshotOK(input)
  <2>1. saved[t].patched \in BOOLEAN
    BY TaskFacts DEF Snapshot
  <2>2. QED
    BY <2>1, BlankIsOK DEF SnapshotOK, Snapshot, Position
<1>3. job' \in [Jobs -> JobRecord] /\ job'[j].loc = "working"
      /\ (\A k \in Jobs : job'[k].thread = job[k].thread)
      /\ \A k \in Jobs \ {j} : job'[k] = job[k]
  BY <1>1, TaskFacts DEF JobRecord, Kind, Fixture
<1>4. mem' \in [Invocation -> Snapshot] /\ mem'[j] = input
      /\ \A k \in Invocation \ {j} : mem'[k] = mem[k]
  BY <1>1, <1>2, TaskFacts DEF SnapshotOK
<1>5. saved' \in [Thread -> Snapshot] /\ \A u \in Thread : SnapshotOK(saved'[u])
  BY <1>1, <1>2, TaskFacts DEF SnapshotOK
<1>6. QED
  BY <1>1, <1>2, <1>3, <1>4, <1>5, TaskFacts, TaskTypes

\* Every step of a task keeps the types.
LEMMA EveryTaskTypes ==
  ASSUME TypeInv, NEW j \in Jobs, Task(j)
  PROVE  TypeInv'
<1>1. up /\ job[j].loc # "free" /\ ThreadOf(j) = job[j].thread
  BY WhoWorks
  DEF Task, run_review, materialize_clear, materialize_copy, materialize_raises,
      materialise_refuses, materialise_inline, materialise_escapes,
      invoke_returns, run_review_ends, Returned, At
<1>2. \A v \in Nat : [copy EXCEPT ![job[j].thread] = v] \in [Thread -> Nat]
  BY <1>1, TaskFacts
<1>3. CASE run_review(j)
  <2>1. /\ job' = [job EXCEPT ![j].loc = "materialising"]
        /\ runs' = [runs EXCEPT ![job[j].thread] = "running"]
        /\ job[j].loc = "accepted"
        /\ UNCHANGED <<up, crashes, overlaps, req, offline, mem, dirty, disk, history>>
    BY <1>3 DEF run_review, At
  <2>2. job' \in [Jobs -> JobRecord] /\ job'[j].loc = "materialising"
        /\ (\A k \in Jobs : job'[k].thread = job[k].thread)
        /\ \A k \in Jobs \ {j} : job'[k] = job[k]
    BY <1>1, <2>1, TaskFacts DEF JobRecord
  <2>3. runs' \in [Thread -> RunState]
    BY <1>1, <2>1, TaskFacts DEF RunState
  <2>4. QED
    BY <1>1, <2>1, <2>2, <2>3, TaskFacts, TaskTypes DEF disk
<1>4. CASE materialize_clear(j)
  <2>1. /\ job' = [job EXCEPT ![j].loc = "cleared"] /\ job[j].loc = "materialising"
        /\ copy' = [copy EXCEPT ![job[j].thread] = 0]
        /\ UNCHANGED <<up, crashes, overlaps, runs, req, offline, mem, dirty,
                       saved, files, history>>
    BY <1>4 DEF materialize_clear, At
  <2>2. job' \in [Jobs -> JobRecord] /\ job'[j].loc = "cleared"
        /\ (\A k \in Jobs : job'[k].thread = job[k].thread)
        /\ \A k \in Jobs \ {j} : job'[k] = job[k]
    BY <1>1, <2>1, TaskFacts DEF JobRecord
  <2>3. QED
    BY <1>1, <1>2, <2>1, <2>2, TaskFacts, TaskTypes
<1>5. CASE materialize_copy(j) \/ materialise_inline(j)
  BY <1>1, <1>2, <1>5, BeginTypes DEF materialize_copy, materialise_inline
<1>6. CASE materialize_raises(j) \/ materialise_refuses(j) \/ materialise_escapes(j)
  BY <1>1, <1>2, <1>6, FailsTypes, TaskFacts
  DEF materialize_raises, materialise_refuses, materialise_escapes
<1>7. CASE invoke_returns(j)
  <2>1. /\ job' = [job EXCEPT ![j].loc = "returned",
                              ![j].paused = pending_interrupt(job[j].thread)]
        /\ mem' = [mem EXCEPT ![j] = Blank] /\ j \notin dirty
        /\ UNCHANGED <<up, crashes, overlaps, runs, req, offline, dirty, disk, history>>
    BY <1>7 DEF invoke_returns, Returned
  <2>2. pending_interrupt(job[j].thread) \in BOOLEAN
    BY DEF pending_interrupt
  <2>3. job' \in [Jobs -> JobRecord] /\ job'[j].loc = "returned"
        /\ (\A k \in Jobs : job'[k].thread = job[k].thread)
        /\ \A k \in Jobs \ {j} : job'[k] = job[k]
    BY <1>1, <2>1, <2>2, TaskFacts DEF JobRecord
  <2>4. mem' \in [Invocation -> Snapshot] /\ mem'[j] = Blank
        /\ \A k \in Invocation \ {j} : mem'[k] = mem[k]
    BY <1>1, <2>1, TaskFacts, BlankIsOK DEF SnapshotOK
  <2>5. QED
    BY <1>1, <2>1, <2>3, <2>4, TaskFacts, BlankIsOK, TaskTypes DEF disk
<1>8. CASE run_review_ends(j)
  <2>1. /\ job' = [job EXCEPT ![j] = [@ EXCEPT !.loc = "done", !.paused = FALSE]]
        /\ runs' = [runs EXCEPT ![job[j].thread] =
                      IF job[j].paused THEN "awaiting_human" ELSE "complete"]
        /\ job[j].loc = "returned"
        /\ UNCHANGED <<up, crashes, overlaps, req, offline, mem, dirty, disk, history>>
    BY <1>8 DEF run_review_ends, At
  <2>2. job' \in [Jobs -> JobRecord] /\ job'[j].loc = "done"
        /\ (\A k \in Jobs : job'[k].thread = job[k].thread)
        /\ \A k \in Jobs \ {j} : job'[k] = job[k]
    BY <1>1, <2>1, TaskFacts DEF JobRecord
  <2>3. runs' \in [Thread -> RunState]
    BY <1>1, <2>1, TaskFacts DEF RunState
  <2>4. QED
    BY <1>1, <2>1, <2>2, <2>3, TaskFacts, TaskTypes DEF disk
<1>9. QED
  BY <1>3, <1>4, <1>5, <1>6, <1>7, <1>8 DEF Task

\* What is known of an invocation in the graph.
LEMMA WorkerFacts ==
  ASSUME TypeInv, NEW i \in Invocation, Working(i)
  PROVE  /\ ThreadOf(i) \in Thread /\ ThreadOf(i).pr \in Prs
         /\ ThreadOf(i).at \in Seconds
         /\ mem \in [Invocation -> Snapshot] /\ mem[i] \in Snapshot
         /\ SnapshotOK(mem[i]) /\ copy \in [Thread -> Nat]
         /\ copy[ThreadOf(i)] \in Nat
         /\ files \in [Prs \X Seconds -> Thread \cup {NoThread}]
         /\ reported \in [Thread -> SUBSET (Choices \cup {Undecided})]
         /\ \A t \in Thread : Restarted(t) => reported[t] = {}
<1>1. ThreadOf(i) \in Thread
  BY WorkersHaveThreads DEF TypeInv, Tidy
<1>2. QED
  BY <1>1 DEF TypeInv, ServiceTypeOK, Tidy, SnapshotsOK, Contested, SnapshotOK, Thread

\* What a superstep leaves alone.
LEMMA StepTypes ==
  ASSUME TypeInv, NEW i \in Invocation, Working(i),
         NEW s, SnapshotOK(s), Step(i, s), copy' \in [Thread -> Nat],
         UNCHANGED <<files, history>>
  PROVE  TypeInv'
BY NodeTypes, WorkerFacts DEF Step, history

\* What an exception in the graph finds, and leaves.
LEMMA RaiseFacts ==
  ASSUME TypeInv, NEW i \in Invocation, node_raises(i)
  PROVE  /\ Working(i) /\ i \notin dirty
         /\ mem[i].next \in {"intake", "scan", "fix", "report"}
         /\ \/ copy' = copy
            \/ /\ mem[i].next = "fix" /\ copy[ThreadOf(i)] > 0
               /\ copy' = [copy EXCEPT ![ThreadOf(i)] = @ + 1]
         /\ copy' \in [Thread -> Nat]
         /\ i \in Jobs => Fails(i) /\ up /\ job[i].loc = "working"
         /\ i \notin Jobs =>
              /\ mem' = [mem EXCEPT ![i] = Blank] /\ dirty' = dirty \ {i}
              /\ IF i \in Clients
                 THEN req' = [req EXCEPT ![i] = Idle] /\ UNCHANGED offline
                 ELSE offline' = NoThread /\ UNCHANGED req
              /\ UNCHANGED <<up, crashes, overlaps, runs, job, saved, files, history>>
<1>1. /\ Working(i) /\ i \notin dirty
      /\ mem[i].next \in {"intake", "scan", "fix", "report"}
  BY DEF node_raises, review_root_raises, apply_fix_raises, persist_report_raises, AtNode
<1>2. \/ copy' = copy
      \/ mem[i].next = "fix" /\ Patches(i)
  BY DEF node_raises, review_root_raises, apply_fix_raises, persist_report_raises, AtNode
<1>3. /\ copy \in [Thread -> Nat] /\ ThreadOf(i) \in Thread
      /\ Patches(i) => /\ copy[ThreadOf(i)] > 0
                       /\ copy' = [copy EXCEPT ![ThreadOf(i)] = @ + 1]
  BY <1>1, WorkerFacts, MaxPatchesAssumption DEF Patches, CanPatch
<1>4. copy' \in [Thread -> Nat]
  BY <1>2, <1>3
<1>5. i \in Jobs => Fails(i) /\ up /\ job[i].loc = "working"
  BY <1>1, WhoWorks DEF node_raises, At
<1>6. i \notin Jobs =>
        /\ mem' = [mem EXCEPT ![i] = Blank] /\ dirty' = dirty \ {i}
        /\ IF i \in Clients
           THEN req' = [req EXCEPT ![i] = Idle] /\ UNCHANGED offline
           ELSE offline' = NoThread /\ UNCHANGED req
        /\ UNCHANGED <<up, crashes, overlaps, runs, job, saved, files, history>>
  BY <1>1 DEF node_raises
<1>7. QED
  BY <1>1, <1>2, <1>3, <1>4, <1>5, <1>6

\* An exception in the graph keeps the types.
LEMMA RaisesTypes ==
  ASSUME TypeInv, NEW i \in Invocation, node_raises(i)
  PROVE  TypeInv'
<1>1. Working(i) /\ copy' \in [Thread -> Nat]
  BY RaiseFacts
<1>2. CASE i \in Jobs
  <2>1. Fails(i) /\ up /\ job[i].loc # "free"
    BY <1>2, RaiseFacts
  <2>2. QED
    BY <1>1, <1>2, <2>1, FailsTypes, TaskFacts
<1>3. CASE i \notin Jobs
  <2>1. /\ mem' = [mem EXCEPT ![i] = Blank] /\ dirty' = dirty \ {i}
        /\ IF i \in Clients
           THEN req' = [req EXCEPT ![i] = Idle] /\ UNCHANGED offline
           ELSE offline' = NoThread /\ UNCHANGED req
        /\ UNCHANGED <<up, crashes, overlaps, runs, job, saved, files, history>>
    BY <1>3, RaiseFacts
  <2>2. mem' \in [Invocation -> Snapshot] /\ mem'[i] = Blank
        /\ \A k \in Invocation \ {i} : mem'[k] = mem[k]
    BY <1>1, <2>1, WorkerFacts, BlankIsOK DEF SnapshotOK
  <2>3. req \in [Clients -> RequestRecord] /\ runs \in [Thread -> RunState]
        /\ delivered \in [Thread -> SUBSET Choices]
        /\ offline \in Thread \cup {NoThread}
        /\ \A t \in Thread : Restarted(t) => delivered[t] = {}
    BY DEF TypeInv, ServiceTypeOK, RequestRecord, Tidy, Contested
  <2>4. req' \in [Clients -> RequestRecord]
        /\ (\A c \in Clients \ {i} : req'[c] = req[c])
        /\ (i \in Clients => req'[i] = Idle /\ offline' = offline /\ up)
        /\ offline' \in Thread \cup {NoThread}
    <3>1. Idle \in RequestRecord
      BY DEF RequestRecord, Idle
    <3>2. CASE i \in Clients
      BY <1>1, <2>1, <2>3, <3>1, <3>2, WhoWorks
    <3>3. CASE i \notin Clients
      BY <2>1, <2>3, <3>3
    <3>4. QED
      BY <3>2, <3>3
  <2>5. Idle.loc = "idle"
    BY DEF Idle
  <2>6. QED
    BY <1>1, <1>3, <2>1, <2>2, <2>3, <2>4, <2>5, BlankIsOK, HandTypes
    DEF history
<1>4. QED
  BY <1>2, <1>3

\* Every step of the graph keeps the types.
LEMMA EveryNodeTypes ==
  ASSUME TypeInv, NEW i \in Invocation, Graph(i)
  PROVE  TypeInv'
<1> DEFINE t == ThreadOf(i)
<1>1. Working(i)
  BY RaiseFacts
  DEF Graph, intake, scan, apply_fix, hitl_approval, apply_decision,
      persist_report, upload_report, put_checkpoint, AtNode
<1>2. \A p \in Position \ {"fix"} : SnapshotOK([mem[i] EXCEPT !.next = p])
  BY <1>1, WorkerFacts DEF SnapshotOK, Snapshot
<1>3. CASE intake(i) \/ hitl_approval(i) \/ apply_decision(i) \/ upload_report(i)
  <2>1. /\ \E p \in Position \ {"fix"} : Step(i, [mem[i] EXCEPT !.next = p])
        /\ UNCHANGED <<copy, files, history>>
    BY <1>3 DEF intake, hitl_approval, apply_decision, upload_report, Position
  <2>2. QED
    BY <1>1, <1>2, <2>1, StepTypes, WorkerFacts
<1>4. CASE scan(i)
  <2>1. PICK next \in {"hitl", "report", "fix"} :
          /\ next = "fix" => mem[i].iteration < MaxIter
          /\ Step(i, [mem[i] EXCEPT !.seen = copy[t], !.next = next])
    BY <1>4 DEF scan
  <2>2. SnapshotOK([mem[i] EXCEPT !.seen = copy[t], !.next = next])
    BY <1>1, <2>1, WorkerFacts DEF SnapshotOK, Snapshot, Position
  <2>3. QED
    BY <1>1, <1>4, <2>1, <2>2, StepTypes, WorkerFacts DEF scan
<1>5. CASE node_raises(i)
  BY <1>5, RaisesTypes
<1>6. CASE apply_fix(i)
  <2>1. mem[i].iteration + 1 \in 0..MaxIter
    BY <1>1, <1>6, WorkerFacts, ServiceMaxIterAssumption
    DEF apply_fix, AtNode, SnapshotOK, Snapshot
  <2>2. /\ SnapshotOK([mem[i] EXCEPT !.patched = TRUE, !.next = "scan",
                                     !.iteration = @ + 1])
        /\ SnapshotOK([mem[i] EXCEPT !.next = "scan", !.iteration = @ + 1])
    BY <1>1, <2>1, WorkerFacts DEF SnapshotOK, Snapshot, Position
  <2>3. [copy EXCEPT ![t] = @ + 1] \in [Thread -> Nat]
    BY <1>1, WorkerFacts
  <2>4. QED
    BY <1>1, <1>6, <2>2, <2>3, StepTypes, WorkerFacts DEF apply_fix, Patches
<1>7. CASE persist_report(i)
  <2>1. PICK second \in Reading(t) :
          /\ files' = [files EXCEPT ![<<t.pr, second>>] = t]
          /\ mem' = [mem EXCEPT ![i] = [@ EXCEPT !.next = "upload", !.path = second]]
    BY <1>7 DEF persist_report
  <2>2. /\ reported' = Recorded(reported, t, mem[i].hitl)
        /\ UNCHANGED <<up, crashes, overlaps, memory, offline, dirty, saved, copy,
                       delivered>>
    BY <1>7 DEF persist_report
  <2>3. second \in Seconds
    BY <1>1, <2>1, WorkerFacts, MaxClockAssumption DEF Reading, Seconds
  <2>4. SnapshotOK([mem[i] EXCEPT !.next = "upload", !.path = second])
    BY <1>1, <2>3, WorkerFacts DEF SnapshotOK, Snapshot, Position
  <2>5. files' \in [Prs \X Seconds -> Thread \cup {NoThread}]
    BY <1>1, <2>1, WorkerFacts
  <2>6. reported' \in [Thread -> SUBSET (Choices \cup {Undecided})]
        /\ \A u \in Thread : Restarted(u) => reported'[u] = {}
    BY <1>1, <2>2, WorkerFacts DEF Recorded, Snapshot
  <2>7. QED
    BY <1>1, <2>1, <2>2, <2>4, <2>5, <2>6, NodeTypes, WorkerFacts
<1>8. CASE put_checkpoint(i)
  <2>1. /\ saved' = [saved EXCEPT ![t] = mem[i]] /\ dirty' = dirty \ {i}
        /\ UNCHANGED <<up, crashes, overlaps, memory, offline, mem, copy, files, history>>
    BY <1>8 DEF put_checkpoint
  <2>2. saved' \in [Thread -> Snapshot] /\ \A u \in Thread : SnapshotOK(saved'[u])
    BY <1>1, <2>1, WorkerFacts DEF TypeInv, ServiceTypeOK, Tidy, SnapshotsOK
  <2>3. ServiceTypeOK'
    BY <2>1, <2>2 DEF TypeInv, ServiceTypeOK, memory, history
  <2>4. Threads' /\ NobodyWithoutProcess' /\ Contested'
    BY <2>1, SameThreads
    DEF TypeInv, Tidy, Threads, NobodyWithoutProcess, Contested, memory, history
  <2>5. \A k \in Invocation : Working(k)' <=> Working(k)
    BY <2>1, WhoWorks, WhoWorksNext DEF Invocation, At, memory
  <2>6. HandsOff' /\ SnapshotsOK'
    BY <2>1, <2>2, <2>5 DEF TypeInv, Tidy, HandsOff, SnapshotsOK, SnapshotOK
  <2>7. QED
    BY <2>3, <2>4, <2>6 DEF TypeInv, Tidy
<1>9. QED
  BY <1>3, <1>4, <1>5, <1>6, <1>7, <1>8 DEF Graph

\* What a decision is given to is a state, and what has come in is recorded for
\* the threads with one review.
LEMMA DeliverTypes ==
  ASSUME TypeInv, NEW i \in Invocation, NEW t \in Thread,
         NEW choice \in Choices, Deliver(i, t, choice)
  PROVE  /\ SnapshotOK(Loaded(t, choice))
         /\ mem' = [mem EXCEPT ![i] = Loaded(t, choice)]
         /\ mem' \in [Invocation -> Snapshot] /\ mem'[i] = Loaded(t, choice)
         /\ \A k \in Invocation \ {i} : mem'[k] = mem[k]
         /\ dirty' \in {dirty, dirty \cup {i}}
         /\ delivered' \in [Thread -> SUBSET Choices]
         /\ \A u \in Thread : Restarted(u) => delivered'[u] = {}
<1>1. SnapshotOK(saved[t])
  BY DEF TypeInv, Tidy, SnapshotsOK
<1>2. SnapshotOK([saved[t] EXCEPT !.hitl = choice, !.next = "decide"])
  BY <1>1 DEF SnapshotOK, Snapshot, Position
<1>3. SnapshotOK(Loaded(t, choice))
  BY <1>1, <1>2 DEF Loaded
<1>4. mem' = [mem EXCEPT ![i] = Loaded(t, choice)]
      /\ dirty' \in {dirty, dirty \cup {i}}
      /\ delivered' \in {delivered, Recorded(delivered, t, choice)}
  BY DEF Deliver
<1>5. delivered \in [Thread -> SUBSET Choices]
      /\ (\A u \in Thread : Restarted(u) => delivered[u] = {})
      /\ mem \in [Invocation -> Snapshot]
  BY DEF TypeInv, ServiceTypeOK, Tidy, Contested
<1>6. delivered' \in [Thread -> SUBSET Choices]
      /\ \A u \in Thread : Restarted(u) => delivered'[u] = {}
  BY <1>4, <1>5 DEF Recorded
<1>7. QED
  BY <1>3, <1>4, <1>5, <1>6 DEF SnapshotOK

\* What a request, or the resumer, changes of its own is typed.
LEMMA RequestFacts ==
  ASSUME TypeInv
  PROVE  /\ req \in [Clients -> RequestRecord] /\ offline \in Thread \cup {NoThread}
         /\ runs \in [Thread -> RunState] /\ mem \in [Invocation -> Snapshot]
         /\ delivered \in [Thread -> SUBSET Choices]
         /\ \A t \in Thread : Restarted(t) => delivered[t] = {}
         /\ Idle \in RequestRecord /\ Idle.loc = "idle" /\ copy \in [Thread -> Nat]
BY DEF TypeInv, ServiceTypeOK, RequestRecord, Tidy, Contested, Idle

\* Every step of a request that was admitted keeps the types.
LEMMA EveryRequestTypes ==
  ASSUME TypeInv, NEW c \in Clients, Request(c)
  PROVE  TypeInv'
<1>1. c \in Invocation \ Jobs /\ c # Resumer
  BY WhoWorks
<1>2. CASE resume_review(c)
  <2>1. /\ up /\ req[c].loc = "checked" /\ Deliver(c, req[c].thread, req[c].choice)
        /\ req' = [req EXCEPT ![c].loc = "working"]
        /\ UNCHANGED <<up, crashes, overlaps, runs, job, offline, disk, reported>>
    BY <1>2 DEF resume_review
  <2>2. req[c].thread \in Thread /\ req[c].choice \in Choices
    BY <2>1 DEF TypeInv, Tidy, Threads
  <2>3. req' \in [Clients -> RequestRecord] /\ req'[c].loc = "working"
        /\ req'[c].thread = req[c].thread /\ req'[c].choice = req[c].choice
        /\ \A d \in Clients \ {c} : req'[d] = req[d]
    BY <2>1, RequestFacts DEF RequestRecord
  <2>4. Working(c)'
    BY <2>1, <2>3, WhoWorksNext
  <2>5. QED
    BY <1>1, <2>1, <2>2, <2>3, <2>4, DeliverTypes, RequestFacts, HandTypes
    DEF disk
<1>3. CASE resume_responds(c)
  <2>1. /\ up /\ c \notin dirty /\ req' = [req EXCEPT ![c] = Idle]
        /\ runs' = [runs EXCEPT ![req[c].thread] = "complete"]
        /\ mem' = [mem EXCEPT ![c] = Blank]
        /\ UNCHANGED <<up, crashes, overlaps, job, offline, dirty, disk, history>>
    BY <1>3, WhoWorks DEF resume_responds, Returned
  <2>2. mem' \in [Invocation -> Snapshot] /\ mem'[c] = Blank
        /\ \A k \in Invocation \ {c} : mem'[k] = mem[k]
    BY <1>1, <2>1, RequestFacts, BlankIsOK DEF SnapshotOK
  <2>3. req' \in [Clients -> RequestRecord] /\ req'[c] = Idle
        /\ \A d \in Clients \ {c} : req'[d] = req[d]
    BY <2>1, RequestFacts
  <2>4. runs' \in [Thread -> RunState]
    BY <2>1, RequestFacts DEF RunState
  <2>5. QED
    BY <1>1, <2>1, <2>2, <2>3, <2>4, BlankIsOK, RequestFacts, HandTypes
    DEF history, disk
<1>4. QED
  BY <1>2, <1>3 DEF Request

\* So does the admission of one.
LEMMA AdmissionTypes ==
  ASSUME TypeInv, NEW c \in Clients, NEW t \in Thread, NEW choice \in Choices,
         Admit(c, t, choice)
  PROVE  TypeInv'
<1>1. /\ up /\ req[c].loc = "idle" /\ overlaps' \in {overlaps, overlaps + 1}
      /\ UNCHANGED <<up, crashes, runs, job, offline, mem, dirty, disk, history>>
  BY DEF Admit
<1>2. /\ \A d \in Clients \ {c} :
           req'[d] = [req[d] EXCEPT !.alone = @ /\ req[d].thread # t]
      /\ req'[c].loc = "checked" /\ req'[c].thread = t /\ req'[c].choice = choice
      /\ req' \in [Clients -> RequestRecord]
  <2>1. req' = [d \in Clients |->
                 IF d = c
                 THEN [loc |-> "checked", thread |-> t, choice |-> choice,
                       alone |-> offline # t /\ (\A e \in Requests : req[e].thread # t)]
                 ELSE [req[d] EXCEPT !.alone = @ /\ req[d].thread # t]]
    BY DEF Admit
  <2>2. ASSUME NEW d \in Clients
        PROVE  [req[d] EXCEPT !.alone = @ /\ req[d].thread # t] \in RequestRecord
    BY RequestFacts DEF RequestRecord
  <2>3. \A b \in BOOLEAN :
          [loc |-> "checked", thread |-> t, choice |-> choice, alone |-> b]
            \in RequestRecord
    BY DEF RequestRecord
  <2>4. QED
    BY <2>1, <2>2, <2>3
<1>3. ServiceTypeOK'
  BY <1>1, <1>2 DEF TypeInv, ServiceTypeOK, RequestRecord, disk, history
<1>4. Threads'
  <2>1. ASSUME NEW d \in Clients \ {c}
        PROVE  /\ req'[d].loc = req[d].loc /\ req'[d].thread = req[d].thread
               /\ req'[d].choice = req[d].choice
               /\ req[d] = Idle => req'[d] = Idle
    <3>1. req[d] = Idle => req'[d] = Idle
      <4> SUFFICES ASSUME req[d] = Idle PROVE req'[d] = Idle
        OBVIOUS
      <4>1. Idle.alone = TRUE /\ Idle.thread = NoThread
        BY DEF Idle
      <4>2. (Idle.alone /\ Idle.thread # t) = TRUE
        BY <4>1, NoThreadIsNone
      <4>3. req'[d] = [Idle EXCEPT !.alone = (Idle.alone /\ Idle.thread # t)]
        BY <1>2
      <4>4. req'[d] = [Idle EXCEPT !.alone = TRUE]
        BY <4>2, <4>3
      <4>5. QED
        BY <4>4 DEF Idle
    <3>2. QED
      BY <1>2, <3>1, RequestFacts DEF RequestRecord
  <2>2. QED
    BY <1>1, <1>2, <2>1 DEF TypeInv, Tidy, Threads
<1>5. NobodyWithoutProcess' /\ SnapshotsOK' /\ Contested'
  BY <1>1, SameThreads
  DEF NobodyWithoutProcess, TypeInv, Tidy, SnapshotsOK, SnapshotOK, Contested,
      disk, history
<1>6. HandsOff'
  <2>1. \A d \in Clients : req'[d].loc = "working" => req[d].loc = "working"
    BY <1>2, RequestFacts DEF RequestRecord
  <2>2. \A d \in Clients : req[d].loc = "working" => req'[d].loc = "working"
    BY <1>1, <1>2, RequestFacts DEF RequestRecord
  <2>3. \A k \in Invocation : Working(k)' <=> Working(k)
    BY <1>1, <2>1, <2>2, WhoWorks, WhoWorksNext DEF Invocation, At
  <2>4. QED
    BY <1>1, <2>3 DEF TypeInv, Tidy, HandsOff
<1>7. QED
  BY <1>3, <1>4, <1>5, <1>6 DEF TypeInv, Tidy

\* The resumer takes up and leaves a thread in its types.
LEMMA ResumerTypes ==
  ASSUME TypeInv, (\E t \in Thread : run_resumer(t)) \/ resumer_exits
  PROVE  TypeInv'
<1>1. Resumer \in Invocation \ Jobs /\ Resumer \notin Clients
  BY WhoWorks
<1>2. ASSUME NEW t \in Thread, run_resumer(t) PROVE TypeInv'
  <2>1. /\ offline' = t
        /\ UNCHANGED <<up, crashes, overlaps, memory, disk, reported>>
        /\ IF pending_interrupt(t)
           THEN Deliver(Resumer, t, "reject")
           ELSE /\ mem' = [mem EXCEPT ![Resumer] = saved[t]]
                /\ UNCHANGED <<dirty, delivered>>
    BY <1>2 DEF run_resumer
  <2>2. Working(Resumer)'
    BY <2>1, WhoWorksNext, NoThreadIsNone
  <2>3. /\ SnapshotOK(mem'[Resumer]) /\ mem' \in [Invocation -> Snapshot]
        /\ \A k \in Invocation \ {Resumer} : mem'[k] = mem[k]
        /\ dirty' \in {dirty, dirty \cup {Resumer}}
        /\ delivered' \in [Thread -> SUBSET Choices]
        /\ \A u \in Thread : Restarted(u) => delivered'[u] = {}
    <3>1. CASE pending_interrupt(t)
      BY <1>1, <2>1, <3>1, DeliverTypes DEF Choices
    <3>2. CASE ~pending_interrupt(t)
      <4>1. SnapshotOK(saved[t])
        BY DEF TypeInv, Tidy, SnapshotsOK
      <4>2. QED
        BY <1>1, <2>1, <3>2, <4>1, RequestFacts DEF SnapshotOK
    <3>3. QED
      BY <3>1, <3>2
  <2>4. QED
    BY <1>1, <2>1, <2>2, <2>3, RequestFacts, HandTypes DEF memory, disk
<1>3. CASE resumer_exits
  <2>1. /\ Resumer \notin dirty /\ offline' = NoThread
        /\ mem' = [mem EXCEPT ![Resumer] = Blank]
        /\ UNCHANGED <<up, crashes, overlaps, memory, dirty, disk, history>>
    BY <1>3 DEF resumer_exits, Returned
  <2>2. mem' \in [Invocation -> Snapshot] /\ mem'[Resumer] = Blank
        /\ \A k \in Invocation \ {Resumer} : mem'[k] = mem[k]
    BY <1>1, <2>1, RequestFacts, BlankIsOK DEF SnapshotOK
  <2>3. QED
    BY <1>1, <2>1, <2>2, BlankIsOK, RequestFacts, HandTypes
    DEF memory, history, disk
<1>4. QED
  BY <1>2, <1>3

\* The death of the process, and its restart, keep the types.
LEMMA CrashTypes ==
  ASSUME TypeInv, crash \/ restart
  PROVE  TypeInv'
<1>1. CASE crash
  <2>1. /\ up /\ ~up' /\ up' \in BOOLEAN /\ crashes' \in 0..MaxCrashes
        /\ UNCHANGED <<overlaps, offline, disk, history>>
        /\ dirty' = dirty \cap {Resumer}
    <3>1. up /\ up' = FALSE /\ crashes < MaxCrashes /\ crashes' = crashes + 1
          /\ UNCHANGED <<overlaps, offline, disk, history>>
          /\ dirty' = dirty \cap {Resumer}
      BY <1>1 DEF crash
    <3>2. crashes \in 0..MaxCrashes
      BY DEF TypeInv, ServiceTypeOK
    <3>3. crashes' \in 0..MaxCrashes
      BY <3>1, <3>2, MaxCrashesAssumption
    <3>4. QED
      BY <3>1, <3>3
  <2>2. /\ runs' = [t \in Thread |-> "absent"] /\ req' = [c \in Clients |-> Idle]
        /\ mem' = [i \in Invocation |-> IF i = Resumer THEN mem[i] ELSE Blank]
        /\ job' = [j \in Jobs |->
                     IF job[j].loc = "free" THEN NoJob
                     ELSE [job[j] EXCEPT !.loc = "done", !.paused = FALSE]]
    BY <1>1 DEF crash
  <2>3. ASSUME NEW j \in Jobs
        PROVE  /\ job'[j] \in JobRecord /\ job'[j].thread = job[j].thread
               /\ IF job[j].loc = "free" THEN job'[j] = NoJob
                  ELSE job'[j].loc = "done" /\ job'[j].thread \in Thread
    <3>1. job[j] \in JobRecord
      BY DEF TypeInv, ServiceTypeOK, JobRecord
    <3>2. CASE job[j].loc = "free"
      BY <2>2, <3>2 DEF TypeInv, Tidy, Threads, NoJob, JobRecord
    <3>3. CASE job[j].loc # "free"
      BY <2>2, <3>1, <3>3 DEF TypeInv, Tidy, Threads, JobRecord
    <3>4. QED
      BY <3>2, <3>3
  <2>4. job' \in [Jobs -> JobRecord] /\ req' \in [Clients -> RequestRecord]
        /\ runs' \in [Thread -> RunState]
    BY <2>2, <2>3, RequestFacts DEF RunState
  <2>5. \A i \in Invocation : SnapshotOK(mem'[i])
    BY <2>2, BlankIsOK DEF TypeInv, Tidy, SnapshotsOK
  <2>6. mem' \in [Invocation -> Snapshot]
    BY <2>2, <2>5 DEF SnapshotOK
  <2>7. ServiceTypeOK'
    BY <2>1, <2>4, <2>6
    DEF TypeInv, ServiceTypeOK, JobRecord, RequestRecord, disk, history
  <2>8. NoJob.loc = "free" /\ Idle.loc = "idle"
    BY DEF NoJob, Idle
  <2>9. Threads' /\ NobodyWithoutProcess'
    BY <2>2, <2>3, <2>8 DEF Threads, NobodyWithoutProcess
  <2>10. \A k \in Invocation : k # Resumer => ~Working(k)'
    BY <2>1, WhoWorksNext DEF Invocation, At
  <2>11. Working(Resumer)' <=> Working(Resumer)
    BY <2>1, WhoWorks, WhoWorksNext
  <2>12. HandsOff'
    BY <2>1, <2>2, <2>10, <2>11, WhoWorks DEF TypeInv, Tidy, HandsOff
  <2>13. SnapshotsOK' /\ Contested'
    BY <2>1, <2>3, <2>5, SameThreads
    DEF TypeInv, Tidy, SnapshotsOK, SnapshotOK, Contested, disk, history
  <2>14. QED
    BY <2>7, <2>9, <2>12, <2>13 DEF TypeInv, Tidy
<1>2. CASE restart
  <2>1. ~up /\ up' = TRUE
        /\ UNCHANGED <<crashes, overlaps, memory, offline, mem, dirty, disk, history>>
    BY <1>2 DEF restart
  <2>2. ServiceTypeOK'
    BY <2>1 DEF TypeInv, ServiceTypeOK, memory, disk, history
  <2>3. \A k \in Invocation : Working(k)' <=> Working(k)
    <3>1. \A j \in Jobs : job[j].loc # "working"
      BY <2>1 DEF TypeInv, Tidy, NobodyWithoutProcess
    <3>2. \A c \in Clients : req[c].loc # "working"
      BY <2>1 DEF TypeInv, Tidy, NobodyWithoutProcess
    <3>3. QED
      BY <2>1, <3>1, <3>2, WhoWorks, WhoWorksNext DEF Invocation, At, memory
  <2>4. Threads' /\ NobodyWithoutProcess' /\ HandsOff' /\ SnapshotsOK' /\ Contested'
    BY <2>1, <2>3, SameThreads
    DEF TypeInv, Tidy, Threads, NobodyWithoutProcess, HandsOff, SnapshotsOK,
        SnapshotOK, Contested, memory, disk, history
  <2>5. QED
    BY <2>2, <2>4 DEF TypeInv, Tidy
<1>3. QED
  BY <1>1, <1>2

\* So does a webhook: the thread of a second review is contested from then on.
LEMMA WebhookTypes ==
  ASSUME TypeInv, NEW j \in Jobs, NEW pr \in Prs, NEW kind \in Kind,
         NEW second \in Seconds, webhook_pr(j, pr, kind, second)
  PROVE  TypeInv'
<1> DEFINE new == [loc |-> "accepted", kind |-> kind,
                   thread |-> [pr |-> pr, at |-> second], paused |-> FALSE]
           reused == {t \in Thread : Restarted(t)'}
<1>1. /\ up /\ job[j].loc = "free" /\ job' = [job EXCEPT ![j] = new]
      /\ delivered' = [t \in Thread |-> IF t \in reused THEN {} ELSE delivered[t]]
      /\ reported' = [t \in Thread |-> IF t \in reused THEN {} ELSE reported[t]]
      /\ UNCHANGED <<up, crashes, overlaps, runs, req, offline, mem, dirty, disk>>
  BY DEF webhook_pr
<1>2. new \in JobRecord /\ new.loc = "accepted" /\ new.thread \in Thread
  BY DEF JobRecord, Thread
<1>3. /\ job' \in [Jobs -> JobRecord] /\ job'[j] = new
      /\ \A k \in Jobs \ {j} : job'[k] = job[k]
  BY <1>1, <1>2 DEF TypeInv, ServiceTypeOK, JobRecord
<1>4. ServiceTypeOK'
  BY <1>1, <1>3 DEF TypeInv, ServiceTypeOK, JobRecord, disk
<1>5. Threads' /\ NobodyWithoutProcess'
  BY <1>1, <1>2, <1>3 DEF TypeInv, Tidy, Threads, NobodyWithoutProcess
<1>6. HandsOff'
  <2>1. \A k \in Invocation : Working(k)' <=> Working(k)
    BY <1>1, <1>2, <1>3, WhoWorks, WhoWorksNext DEF Invocation, At
  <2>2. QED
    BY <1>1, <2>1 DEF TypeInv, Tidy, HandsOff
<1>7. SnapshotsOK'
  BY <1>1 DEF TypeInv, Tidy, SnapshotsOK, SnapshotOK, disk
<1>8. Contested'
  BY <1>1 DEF Contested
<1>9. QED
  BY <1>4, <1>5, <1>6, <1>7, <1>8 DEF TypeInv, Tidy

\* The service begins tidy.
LEMMA InitTypes ==
  ASSUME Init
  PROVE  TypeInv
<1>1. \A j \in Jobs : job[j] = NoJob /\ NoJob.loc = "free" /\ NoJob \in JobRecord
  BY DEF Init, NoJob, JobRecord
<1>2. \A c \in Clients : req[c] = Idle /\ Idle.loc = "idle" /\ Idle \in RequestRecord
  BY DEF Init, Idle, RequestRecord
<1>3. mem \in [Invocation -> Snapshot] /\ saved \in [Thread -> Snapshot]
  BY BlankIsOK DEF Init, SnapshotOK
<1>4. job \in [Jobs -> JobRecord] /\ req \in [Clients -> RequestRecord]
  BY <1>1, <1>2 DEF Init
<1>5. ServiceTypeOK
  BY <1>3, <1>4, MaxCrashesAssumption
  DEF Init, ServiceTypeOK, JobRecord, RequestRecord, RunState
<1>6. Threads /\ NobodyWithoutProcess
  BY <1>1, <1>2 DEF Init, Threads, NobodyWithoutProcess
<1>7. HandsOff /\ SnapshotsOK /\ Contested
  BY BlankIsOK DEF Init, HandsOff, SnapshotsOK, Contested
<1>8. QED
  BY <1>5, <1>6, <1>7 DEF TypeInv, Tidy

\* The types, and the tidiness they rest on, hold from the start and through
\* every step.
THEOREM ServiceTypes == Spec => [](ServiceTypeOK /\ Tidy)
<1>1. Init => TypeInv
  BY InitTypes
<1>2. TypeInv /\ [Next]_vars => TypeInv'
  <2> SUFFICES ASSUME TypeInv, [Next]_vars PROVE TypeInv'
    OBVIOUS
  <2>1. CASE UNCHANGED vars
    <3>1. \A k \in Invocation : Working(k)' <=> Working(k)
      BY <2>1, WhoWorks, WhoWorksNext DEF Invocation, At, vars, memory
    <3>2. ServiceTypeOK' /\ Threads' /\ NobodyWithoutProcess' /\ HandsOff'
          /\ SnapshotsOK' /\ Contested'
      BY <2>1, <3>1, SameThreads
      DEF vars, memory, disk, history, TypeInv, ServiceTypeOK, Tidy, Threads,
          NobodyWithoutProcess, HandsOff, SnapshotsOK, SnapshotOK, Contested
    <3>3. QED
      BY <3>2 DEF TypeInv, Tidy
  <2>2. ASSUME NEW c \in Clients, NEW t \in Thread, NEW choice \in Choices,
               resume(c, t, choice)
        PROVE  TypeInv'
    BY <2>2, AdmissionTypes DEF resume
  <2>3. QED
    BY <2>1, <2>2, CrashTypes, ResumerTypes, EveryTaskTypes, WebhookTypes,
       EveryNodeTypes, EveryRequestTypes
    DEF Next
<1>3. QED
  BY <1>1, <1>2, PTL DEF Spec, TypeInv

-----------------------------------------------------------------------------
(***************************************************************************)
(* That nobody goes round, nor is set back by another.                     *)
(***************************************************************************)

\* Who is not in the hands of a step is not moved by it.
LEMMA OthersUndisturbed ==
  ASSUME NEW i \in Invocation,
         \A j \in Jobs \ {i} : job'[j].loc = job[j].loc,
         \A c \in Clients \ {i} : req'[c].loc = req[c].loc,
         i # Resumer => offline' = offline,
         \A k \in Invocation \ {i} : mem'[k] = mem[k],
         dirty' \ {i} = dirty \ {i}
  PROVE  \A k \in Invocation \ {i} : Undisturbed(k)
<1> SUFFICES ASSUME NEW k \in Invocation \ {i}
             PROVE  Undisturbed(k)
  OBVIOUS
<1>1. Stage(k)' = Stage(k)
  <2>1. CASE k \in Jobs
    BY <2>1 DEF Stage
  <2>2. CASE k \in Clients
    BY <2>2, WhoWorks DEF Stage
  <2>3. CASE k = Resumer
    BY <2>3, WhoWorks DEF Stage
  <2>4. QED
    BY <2>1, <2>2, <2>3 DEF Invocation
<1>2. QED
  BY <1>1 DEF Undisturbed

\* Every stage is a number, and whoever works in the graph is at one of them.
LEMMA StageFacts ==
  ASSUME TypeInv, NEW i \in Invocation
  PROVE  Stage(i) \in Nat /\ (Working(i) => Stage(i) \in Nat \ {0})
<1>1. CASE i \in Jobs
  BY <1>1, WhoWorks DEF Stage, TaskStage, TypeInv, ServiceTypeOK, At
<1>2. CASE i \in Clients
  BY <1>2, WhoWorks DEF Stage, RequestStage, TypeInv, ServiceTypeOK
<1>3. CASE i = Resumer
  BY <1>3, WhoWorks DEF Stage
<1>4. QED
  BY <1>1, <1>2, <1>3 DEF Invocation

\* A node brings its invocation on.
LEMMA NodeAdvances ==
  ASSUME TypeInv, NEW i \in Invocation, Graph(i), ~node_raises(i)
  PROVE  Nearer(i) /\ \A k \in Invocation \ {i} : Undisturbed(k)
<1>1. /\ UNCHANGED <<job, req, offline>> /\ Working(i)
      /\ dirty' \ {i} = dirty \ {i}
  BY DEF Graph, intake, scan, apply_fix, hitl_approval, apply_decision,
         persist_report, upload_report, put_checkpoint, Step, AtNode, memory
<1>2. Stage(i)' = Stage(i)
  BY <1>1 DEF Stage
<1>3. mem \in [Invocation -> Snapshot] /\ SnapshotOK(mem[i]) /\ mem[i] \in Snapshot
  BY <1>1, WorkerFacts
<1>4. mem[i].iteration \in 0..MaxIter /\ mem[i].next \in Position
  BY <1>3 DEF Snapshot
<1>5. CASE put_checkpoint(i)
  <2>1. mem' = mem /\ i \in dirty \ dirty'
    BY <1>5 DEF put_checkpoint
  <2>2. QED
    BY <1>1, <1>2, <2>1, OthersUndisturbed DEF Nearer
<1>6. CASE apply_fix(i)
  <2>1. mem[i].next = "fix"
    BY <1>6 DEF apply_fix, AtNode
  <2>2. PICK s : mem' = [mem EXCEPT ![i] = s] /\ s.iteration = mem[i].iteration + 1
    <3>1. /\ [mem[i] EXCEPT !.patched = TRUE, !.next = "scan",
                            !.iteration = @ + 1].iteration = mem[i].iteration + 1
          /\ [mem[i] EXCEPT !.next = "scan", !.iteration = @ + 1].iteration
               = mem[i].iteration + 1
      BY <1>3 DEF Snapshot
    <3>2. QED
      BY <1>6, <3>1 DEF apply_fix, Step
  <2>3. mem'[i].iteration \in (mem[i].iteration + 1)..MaxIter
    BY <1>3, <1>4, <2>1, <2>2, ServiceMaxIterAssumption DEF SnapshotOK
  <2>4. \A k \in Invocation \ {i} : mem'[k] = mem[k]
    BY <1>3, <2>2
  <2>5. QED
    BY <1>1, <1>2, <2>3, <2>4, OthersUndisturbed DEF Nearer
<1>7. CASE ~put_checkpoint(i) /\ ~apply_fix(i)
  <2>1. /\ mem'[i].iteration = mem[i].iteration
        /\ NodesAhead[mem'[i].next] < NodesAhead[mem[i].next]
        /\ \A k \in Invocation \ {i} : mem'[k] = mem[k]
    <3>1. \A p \in Position :
            /\ [mem[i] EXCEPT !.next = p].iteration = mem[i].iteration
            /\ [mem[i] EXCEPT !.next = p].next = p
      BY <1>3 DEF Snapshot
    <3>2. \A p \in Position : \A v :
            /\ [mem[i] EXCEPT !.seen = v, !.next = p].iteration = mem[i].iteration
            /\ [mem[i] EXCEPT !.seen = v, !.next = p].next = p
      BY <1>3 DEF Snapshot
    <3>3. \A p \in Position : \A v :
            /\ [mem[i] EXCEPT !.next = p, !.path = v].iteration = mem[i].iteration
            /\ [mem[i] EXCEPT !.next = p, !.path = v].next = p
      BY <1>3 DEF Snapshot
    <3>4. /\ {"report", "scan", "hitl", "fix"} \subseteq Position
          /\ {"paused", "upload", "end"} \subseteq Position
      BY DEF Position
    <3>5. CASE intake(i)
      <4>1. mem[i].next = "intake"
        BY <3>5 DEF intake, AtNode
      <4>2. PICK p \in {"report", "scan"} : mem' = [mem EXCEPT ![i] = [mem[i] EXCEPT !.next = p]]
        BY <3>5 DEF intake, Step
      <4>3. /\ mem'[i] = [mem[i] EXCEPT !.next = p]
            /\ \A k \in Invocation \ {i} : mem'[k] = mem[k]
        BY <1>3, <4>2
      <4>4. mem'[i].next \in {"report", "scan"} /\ mem'[i].iteration = mem[i].iteration
        <5>1. p \in Position
          BY <3>4
        <5>2. /\ [mem[i] EXCEPT !.next = p].iteration = mem[i].iteration
              /\ [mem[i] EXCEPT !.next = p].next = p
          BY ONLY <3>1, <5>1
        <5>3. QED
          BY ONLY <4>3, <5>2, p \in {"report", "scan"}
      <4>5. QED
        BY <4>1, <4>3, <4>4 DEF NodesAhead
    <3>6. CASE scan(i)
      <4>1. mem[i].next = "scan"
        BY <3>6 DEF scan, AtNode
      <4>2. PICK p \in {"hitl", "report", "fix"} :
              mem' = [mem EXCEPT ![i] = [mem[i] EXCEPT !.seen = copy[ThreadOf(i)], !.next = p]]
        BY <3>6 DEF scan, Step
      <4> DEFINE read == [mem[i] EXCEPT !.seen = copy[ThreadOf(i)], !.next = p]
      <4>3. mem'[i] = read /\ \A k \in Invocation \ {i} : mem'[k] = mem[k]
        BY <1>3, <4>2
      <4>4. mem'[i].next \in {"hitl", "report", "fix"} /\ mem'[i].iteration = mem[i].iteration
        <5>1. p \in Position
          BY <3>4
        <5>2. read.iteration = mem[i].iteration /\ read.next = p
          BY ONLY <3>2, <5>1
        <5> HIDE DEF read
        <5>3. QED
          BY ONLY <4>3, <5>2, p \in {"hitl", "report", "fix"}
      <4>5. QED
        BY <4>1, <4>3, <4>4 DEF NodesAhead
    <3>7. CASE hitl_approval(i)
      <4>1. mem[i].next = "hitl" /\ mem' = [mem EXCEPT ![i] = [mem[i] EXCEPT !.next = "paused"]]
        BY <1>3, <3>7 DEF hitl_approval, AtNode, Step
      <4>2. /\ mem'[i] = [mem[i] EXCEPT !.next = "paused"]
            /\ \A k \in Invocation \ {i} : mem'[k] = mem[k]
        BY <1>3, <4>1
      <4>3. mem'[i].next = "paused" /\ mem'[i].iteration = mem[i].iteration
        BY ONLY <3>1, <3>4, <4>2
      <4>4. QED
        BY <4>1, <4>2, <4>3 DEF NodesAhead
    <3>8. CASE apply_decision(i)
      <4>1. mem[i].next = "decide" /\ mem' = [mem EXCEPT ![i] = [mem[i] EXCEPT !.next = "report"]]
        BY <1>3, <3>8 DEF apply_decision, AtNode, Step
      <4>2. /\ mem'[i] = [mem[i] EXCEPT !.next = "report"]
            /\ \A k \in Invocation \ {i} : mem'[k] = mem[k]
        BY <1>3, <4>1
      <4>3. mem'[i].next = "report" /\ mem'[i].iteration = mem[i].iteration
        BY ONLY <3>1, <3>4, <4>2
      <4>4. QED
        BY <4>1, <4>2, <4>3 DEF NodesAhead
    <3>9. CASE persist_report(i)
      <4>1. mem[i].next = "report"
        BY <3>9 DEF persist_report, AtNode
      <4>2. PICK v : mem' = [mem EXCEPT ![i] = [mem[i] EXCEPT !.next = "upload", !.path = v]]
        BY <1>3, <3>9 DEF persist_report
      <4>3. /\ mem'[i] = [mem[i] EXCEPT !.next = "upload", !.path = v]
            /\ \A k \in Invocation \ {i} : mem'[k] = mem[k]
        BY <1>3, <4>2
      <4>4. mem'[i].next = "upload" /\ mem'[i].iteration = mem[i].iteration
        BY ONLY <3>3, <3>4, <4>3
      <4>5. QED
        BY <4>1, <4>3, <4>4 DEF NodesAhead
    <3>10. CASE upload_report(i)
      <4>1. mem[i].next = "upload" /\ mem' = [mem EXCEPT ![i] = [mem[i] EXCEPT !.next = "end"]]
        BY <3>10 DEF upload_report, AtNode, Step
      <4>2. /\ mem'[i] = [mem[i] EXCEPT !.next = "end"]
            /\ \A k \in Invocation \ {i} : mem'[k] = mem[k]
        BY <1>3, <4>1
      <4>3. mem'[i].next = "end" /\ mem'[i].iteration = mem[i].iteration
        BY ONLY <3>1, <3>4, <4>2
      <4>4. QED
        BY <4>1, <4>2, <4>3 DEF NodesAhead
    <3>11. QED
      BY <1>7, <3>5, <3>6, <3>7, <3>8, <3>9, <3>10 DEF Graph
  <2>2. QED
    BY <1>1, <1>2, <2>1, OthersUndisturbed DEF Nearer
<1>8. QED
  BY <1>5, <1>6, <1>7

\* A task that fails, or takes its next stage, is nearer to its end.
LEMMA TaskMoves ==
  ASSUME TypeInv, NEW j \in Jobs, NEW from, NEW to,
         from \in DOMAIN TaskStage, to \in DOMAIN TaskStage,
         TaskStage[to] < TaskStage[from], job[j].loc = from, job'[j].loc = to,
         \A k \in Jobs \ {j} : job'[k] = job[k],
         \A k \in Invocation \ {j} : mem'[k] = mem[k],
         dirty' \ {j} = dirty \ {j},
         UNCHANGED <<req, offline>>
  PROVE  Nearer(j) /\ \A k \in Invocation \ {j} : Undisturbed(k)
<1>1. j \in Invocation /\ j # Resumer
  BY WhoWorks
<1>2. Stage(j)' \in 0..(Stage(j) - 1)
  BY DEF Stage, TaskStage
<1>3. QED
  BY <1>1, <1>2, OthersUndisturbed DEF Nearer

LEMMA FailureAdvances ==
  ASSUME TypeInv, NEW j \in Jobs, Fails(j),
         job[j].loc \in {"materialising", "cleared", "working"}
  PROVE  Nearer(j) /\ \A k \in Invocation \ {j} : Undisturbed(k)
<1>1. job \in [Jobs -> JobRecord] /\ job[j] \in JobRecord
      /\ mem \in [Invocation -> Snapshot]
  BY DEF TypeInv, ServiceTypeOK, JobRecord
<1>2. /\ job' = [job EXCEPT ![j].loc = "done"] /\ mem' = [mem EXCEPT ![j] = Blank]
      /\ dirty' = dirty \ {j} /\ UNCHANGED <<req, offline>>
  BY DEF Fails
<1>3. /\ job'[j].loc = "done" /\ \A k \in Jobs \ {j} : job'[k] = job[k]
      /\ \A k \in Invocation \ {j} : mem'[k] = mem[k]
  BY <1>1, <1>2 DEF JobRecord
<1>4. /\ "done" \in DOMAIN TaskStage /\ job[j].loc \in DOMAIN TaskStage
      /\ TaskStage["done"] < TaskStage[job[j].loc]
  BY DEF TaskStage
<1>5. QED
  BY <1>2, <1>3, <1>4, TaskMoves

LEMMA TaskAdvances ==
  ASSUME TypeInv, NEW j \in Jobs, Task(j)
  PROVE  Nearer(j) /\ \A k \in Invocation \ {j} : Undisturbed(k)
<1>1. job \in [Jobs -> JobRecord] /\ job[j] \in JobRecord
      /\ mem \in [Invocation -> Snapshot] /\ j \in Invocation
  BY WhoWorks DEF TypeInv, ServiceTypeOK, JobRecord
<1>2. CASE materialize_raises(j) \/ materialise_refuses(j) \/ materialise_escapes(j)
  BY <1>2, FailureAdvances
  DEF materialize_raises, materialise_refuses, materialise_escapes, At
<1>3. CASE ~(materialize_raises(j) \/ materialise_refuses(j) \/ materialise_escapes(j))
  <2>1. /\ UNCHANGED <<req, offline, dirty>>
        /\ \/ mem' = mem
           \/ \E s : mem' = [mem EXCEPT ![j] = s]
    BY <1>3 DEF Task, run_review, materialize_clear, materialize_copy,
                materialise_inline, invoke_returns, run_review_ends, Begin
  <2>2. \A k \in Invocation \ {j} : mem'[k] = mem[k]
    BY <1>1, <2>1
  <2>3. \A k \in Jobs \ {j} : job'[k] = job[k]
    BY <1>1, <1>3
    DEF Task, run_review, materialize_clear, materialize_copy,
        materialise_inline, invoke_returns, run_review_ends, Begin
  <2>4. \/ job[j].loc = "accepted" /\ job'[j].loc = "materialising"
        \/ job[j].loc = "materialising" /\ job'[j].loc = "cleared"
        \/ job[j].loc \in {"materialising", "cleared"} /\ job'[j].loc = "working"
        \/ job[j].loc = "working" /\ job'[j].loc = "returned"
        \/ job[j].loc = "returned" /\ job'[j].loc = "done"
    <3>1. CASE run_review(j)
      BY <1>1, <3>1 DEF run_review, At, JobRecord
    <3>2. CASE materialize_clear(j)
      BY <1>1, <3>2 DEF materialize_clear, At, JobRecord
    <3>3. CASE materialize_copy(j) \/ materialise_inline(j)
      BY <1>1, <3>3 DEF materialize_copy, materialise_inline, Begin, At, JobRecord
    <3>4. CASE invoke_returns(j)
      BY <1>1, <3>4, WhoWorks DEF invoke_returns, Returned, At, JobRecord
    <3>5. CASE run_review_ends(j)
      BY <1>1, <3>5 DEF run_review_ends, At, JobRecord
    <3>6. QED
      BY <1>3, <3>1, <3>2, <3>3, <3>4, <3>5 DEF Task
  <2>5. /\ job[j].loc \in DOMAIN TaskStage /\ job'[j].loc \in DOMAIN TaskStage
        /\ TaskStage[job'[j].loc] < TaskStage[job[j].loc]
    BY <2>4 DEF TaskStage
  <2>6. QED
    BY <2>1, <2>2, <2>3, <2>5, TaskMoves
<1>4. QED
  BY <1>2, <1>3

\* A request, or the resumer, that leaves the graph has come to its end.
LEMMA LeaverAdvances ==
  ASSUME TypeInv, NEW i \in Invocation \ Jobs, Working(i), UNCHANGED job,
         IF i \in Clients THEN req' = [req EXCEPT ![i] = Idle] /\ UNCHANGED offline
         ELSE offline' = NoThread /\ UNCHANGED req,
         mem' = [mem EXCEPT ![i] = Blank], dirty' \in {dirty, dirty \ {i}}
  PROVE  Nearer(i) /\ \A k \in Invocation \ {i} : Undisturbed(k)
<1>1. /\ mem \in [Invocation -> Snapshot] /\ req \in [Clients -> RequestRecord]
      /\ Resumer \notin Clients \cup Jobs /\ (i \in Clients \/ i = Resumer)
  BY ResumerAssumption DEF TypeInv, ServiceTypeOK, RequestRecord, Invocation
<1>2. /\ \A k \in Invocation \ {i} : mem'[k] = mem[k]
      /\ \A c \in Clients \ {i} : req'[c].loc = req[c].loc
      /\ dirty' \ {i} = dirty \ {i}
      /\ i # Resumer => offline' = offline
  BY <1>1
<1>3. Stage(i) \in Nat \ {0}
  BY StageFacts
<1>4. Stage(i)' = 0
  BY <1>1 DEF Stage, RequestStage, Idle
<1>5. QED
  BY <1>2, <1>3, <1>4, OthersUndisturbed DEF Nearer

\* An exception in the graph ends the task, the request or the resumer.
LEMMA RaisingAdvances ==
  ASSUME TypeInv, NEW i \in Invocation, node_raises(i)
  PROVE  Nearer(i) /\ \A k \in Invocation \ {i} : Undisturbed(k)
<1>1. Working(i)
  BY RaiseFacts
<1>2. CASE i \in Jobs
  <2>1. Fails(i) /\ job[i].loc = "working"
    BY <1>2, RaiseFacts
  <2>2. QED
    BY <1>2, <2>1, FailureAdvances
<1>3. CASE i \notin Jobs
  <2>1. /\ mem' = [mem EXCEPT ![i] = Blank] /\ dirty' = dirty \ {i} /\ UNCHANGED job
        /\ IF i \in Clients THEN req' = [req EXCEPT ![i] = Idle] /\ UNCHANGED offline
           ELSE offline' = NoThread /\ UNCHANGED req
    BY <1>3, RaiseFacts
  <2>2. QED
    BY <1>1, <1>3, <2>1, LeaverAdvances
<1>4. QED
  BY <1>2, <1>3

\* A request that was admitted takes up the graph, then answers.
LEMMA RequestAdvances ==
  ASSUME TypeInv, NEW c \in Clients, Request(c)
  PROVE  Nearer(c) /\ \A k \in Invocation \ {c} : Undisturbed(k)
<1>1. /\ c \in Invocation \ Jobs /\ c # Resumer
      /\ mem \in [Invocation -> Snapshot] /\ req \in [Clients -> RequestRecord]
  BY WhoWorks DEF TypeInv, ServiceTypeOK, RequestRecord
<1>2. CASE resume_review(c)
  <2>1. /\ req[c].loc = "checked" /\ req' = [req EXCEPT ![c].loc = "working"]
        /\ \E s : mem' = [mem EXCEPT ![c] = s]
        /\ dirty' \in {dirty, dirty \cup {c}}
        /\ UNCHANGED <<job, offline>>
    BY <1>2 DEF resume_review, Deliver
  <2>2. /\ req'[c].loc = "working" /\ \A d \in Clients \ {c} : req'[d].loc = req[d].loc
        /\ \A k \in Invocation \ {c} : mem'[k] = mem[k]
        /\ dirty' \ {c} = dirty \ {c}
    BY <1>1, <2>1 DEF RequestRecord
  <2>3. Stage(c)' = 1 /\ Stage(c) = 2
    BY <1>1, <2>1, <2>2 DEF Stage, RequestStage
  <2>4. QED
    BY <1>1, <2>1, <2>2, <2>3, OthersUndisturbed DEF Nearer
<1>3. CASE resume_responds(c)
  BY <1>1, <1>3, LeaverAdvances DEF resume_responds, Returned
<1>4. QED
  BY <1>2, <1>3 DEF Request

\* A webhook, a request and the resumer begin with somebody who was at rest.
LEMMA SomebodyBegins ==
  ASSUME TypeInv,
         \/ \E j \in Jobs, pr \in Prs, kind \in Kind, second \in Seconds :
              webhook_pr(j, pr, kind, second)
         \/ \E c \in Clients, t \in Thread, choice \in Choices : resume(c, t, choice)
         \/ \E t \in Thread : run_resumer(t)
  PROVE  \E i \in Invocation : /\ Stage(i) = 0 /\ Stage(i)' > 0
                               /\ \A k \in Invocation \ {i} : Undisturbed(k)
<1>1. /\ job \in [Jobs -> JobRecord] /\ req \in [Clients -> RequestRecord]
      /\ mem \in [Invocation -> Snapshot]
      /\ Resumer \in Invocation /\ Resumer \notin Jobs \cup Clients
  BY ResumerAssumption
  DEF TypeInv, ServiceTypeOK, JobRecord, RequestRecord, Invocation
<1>2. ASSUME NEW j \in Jobs, NEW pr, NEW kind, NEW second,
             webhook_pr(j, pr, kind, second)
      PROVE  /\ j \in Invocation /\ Stage(j) = 0 /\ Stage(j)' > 0
             /\ \A k \in Invocation \ {j} : Undisturbed(k)
  <2>1. /\ job[j].loc = "free" /\ j \in Invocation /\ j # Resumer
        /\ UNCHANGED <<req, offline, mem, dirty>>
    BY <1>2, WhoWorks DEF webhook_pr
  <2>2. job'[j].loc = "accepted" /\ \A k \in Jobs \ {j} : job'[k] = job[k]
    BY <1>1, <1>2 DEF webhook_pr
  <2>3. Stage(j) = 0 /\ Stage(j)' = 5
    BY <2>1, <2>2 DEF Stage, TaskStage
  <2>4. QED
    BY <2>1, <2>2, <2>3, OthersUndisturbed
<1>3. ASSUME NEW c \in Clients, NEW t, NEW choice, resume(c, t, choice)
      PROVE  /\ c \in Invocation /\ Stage(c) = 0 /\ Stage(c)' > 0
             /\ \A k \in Invocation \ {c} : Undisturbed(k)
  <2>1. /\ req[c].loc = "idle" /\ c \in Invocation \ Jobs /\ c # Resumer
        /\ UNCHANGED <<job, offline, mem, dirty>>
    BY <1>3, WhoWorks DEF resume, Admit
  <2>2. req' = [d \in Clients |->
                  IF d = c
                  THEN [loc |-> "checked", thread |-> t, choice |-> choice,
                        alone |-> offline # t /\ (\A e \in Requests : req[e].thread # t)]
                  ELSE [req[d] EXCEPT !.alone = @ /\ req[d].thread # t]]
    BY <1>3 DEF resume, Admit
  <2>3. req'[c].loc = "checked" /\ \A d \in Clients \ {c} : req'[d].loc = req[d].loc
    BY <1>1, <2>2 DEF RequestRecord
  <2>4. Stage(c) = 0 /\ Stage(c)' = 2
    BY <2>1, <2>3 DEF Stage, RequestStage
  <2>5. QED
    BY <2>1, <2>3, <2>4, OthersUndisturbed
<1>4. ASSUME NEW t \in Thread, run_resumer(t)
      PROVE  /\ Stage(Resumer) = 0 /\ Stage(Resumer)' > 0
             /\ \A k \in Invocation \ {Resumer} : Undisturbed(k)
  <2>1. /\ offline = NoThread /\ offline' = t /\ UNCHANGED <<job, req>>
        /\ \E s : mem' = [mem EXCEPT ![Resumer] = s]
        /\ dirty' \in {dirty, dirty \cup {Resumer}}
    BY <1>4 DEF run_resumer, Deliver, memory
  <2>2. /\ \A k \in Invocation \ {Resumer} : mem'[k] = mem[k]
        /\ dirty' \ {Resumer} = dirty \ {Resumer}
    BY <1>1, <2>1
  <2>3. Stage(Resumer) = 0 /\ Stage(Resumer)' = 1
    BY <1>1, <2>1, NoThreadIsNone DEF Stage
  <2>4. QED
    BY <1>1, <2>1, <2>2, <2>3, OthersUndisturbed
<1>5. QED
  BY <1>1, <1>2, <1>3, <1>4

\* Whoever is under way only comes nearer to their end, until the process dies:
\* no task, request or resumer works for ever, and none sets another back.
THEOREM NobodyGoesRound == Spec => ServiceAdvances
<1> DEFINE
      Begins == \E i \in Invocation :
                  /\ (Stage(i) = 0 /\ Stage(i)' > 0) \/ Nearer(i)
                  /\ \A k \in Invocation \ {i} : Undisturbed(k)
      Restarts == ~up /\ up' /\ \A i \in Invocation : Undisturbed(i)
      Advance == crashes' \in (crashes + 1)..MaxCrashes \/ Restarts \/ Begins
<1>1. ServiceTypeOK /\ Tidy /\ [Next]_vars => [Advance]_vars
  <2> SUFFICES ASSUME ServiceTypeOK, Tidy, Next PROVE Advance
    OBVIOUS
  <2>0. TypeInv
    BY DEF TypeInv
  <2>1. CASE crash
    <3>1. crashes < MaxCrashes /\ crashes' = crashes + 1 /\ crashes \in 0..MaxCrashes
      BY <2>1 DEF crash, ServiceTypeOK
    <3>2. crashes' \in (crashes + 1)..MaxCrashes
      BY ONLY <3>1, MaxCrashesAssumption
    <3>3. QED
      BY <3>2
  <2>2. CASE restart
    <3>1. ~up /\ up' /\ UNCHANGED <<job, req, offline, mem, dirty>>
      BY <2>2 DEF restart, memory
    <3>2. ASSUME NEW i \in Invocation PROVE Undisturbed(i)
      BY <3>1 DEF Undisturbed, Stage
    <3>3. QED
      BY <3>1, <3>2
  <2>3. CASE resumer_exits
    <3>1. /\ Resumer \in Invocation \ Jobs /\ Resumer \notin Clients /\ Working(Resumer)
      BY <2>3, ResumerAssumption DEF resumer_exits, Returned, Invocation
    <3>2. QED
      BY <2>0, <2>3, <3>1, LeaverAdvances DEF resumer_exits, memory
  <2>4. ASSUME NEW j \in Jobs, Task(j) PROVE Advance
    BY <2>0, <2>4, TaskAdvances, WhoWorks
  <2>5. ASSUME NEW i \in Invocation, Graph(i) PROVE Advance
    BY <2>0, <2>5, NodeAdvances, RaisingAdvances
  <2>6. ASSUME NEW c \in Clients, Request(c) PROVE Advance
    BY <2>0, <2>6, RequestAdvances, WhoWorks
  <2>7. CASE \/ \E j \in Jobs, pr \in Prs, kind \in Kind, second \in Seconds :
                  webhook_pr(j, pr, kind, second)
             \/ \E c \in Clients, t \in Thread, choice \in Choices : resume(c, t, choice)
             \/ \E t \in Thread : run_resumer(t)
    BY <2>0, <2>7, SomebodyBegins
  <2>8. QED
    BY <2>1, <2>2, <2>3, <2>4, <2>5, <2>6, <2>7 DEF Next
<1>2. QED
  BY <1>1, ServiceTypes, PTL DEF Spec, ServiceAdvances

=============================================================================
