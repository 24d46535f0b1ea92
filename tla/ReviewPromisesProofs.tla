------------------------ MODULE ReviewPromisesProofs ------------------------
(***************************************************************************)
(* Proofs of what the service promises about its files, its refusals, its  *)
(* answers, the code its verdicts are about and the status it shows, and   *)
(* that no review stops half-way: for any number of reviews, requests and  *)
(* crashes.                                                                *)
(***************************************************************************)
EXTENDS ReviewRegisterProofs

(***************************************************************************)
(* Frames: what the steps of a kind leave alone.                           *)
(***************************************************************************)

\* The steps by which somebody stops, prepares or is stopped.
TaskHalts(j) == Task(j) /\ ~materialize_copy(j) /\ ~materialise_inline(j)

Halting ==
  \/ \E j \in Jobs : TaskHalts(j)
  \/ \E i \in Invocation : node_raises(i)
  \/ \E c \in Clients : resume_responds(c)
  \/ resumer_exits \/ crash \/ restart \/ UNCHANGED vars

\* Whoever still works does so as before.
WorkersContinue ==
  \A k \in Invocation : Working(k)' =>
    /\ Working(k) /\ ThreadOf(k)' = ThreadOf(k)
    /\ mem'[k] = mem[k] /\ (k \in dirty' <=> k \in dirty)

RequestsContinue == \A c \in Clients : req'[c].loc # "idle" => req'[c] = req[c]

\* One task at most moves, and not into the graph.
TasksContinue ==
  \A j \in Jobs :
    /\ job'[j].thread = job[j].thread /\ job'[j].kind = job[j].kind
    /\ job'[j].loc = "working" => job[j].loc = "working"

HaltFacts ==
  /\ WorkersContinue /\ RequestsContinue /\ TasksContinue
  /\ UNCHANGED <<saved, files, delivered, reported>>
  /\ offline' \in {offline, NoThread}

\* The frame of a task that halts.
LEMMA TaskFrame ==
  ASSUME TypeInv, NEW j \in Jobs, TaskHalts(j)
  PROVE  /\ up /\ job[j].loc # "free" /\ job'[j].loc # "working"
         /\ \A k \in Jobs \ {j} : job'[k] = job[k]
         /\ job'[j].thread = job[j].thread /\ job'[j].kind = job[j].kind
         /\ \A k \in Invocation \ {j} : mem'[k] = mem[k]
         /\ dirty' \in {dirty, dirty \ {j}}
         /\ UNCHANGED <<up, req, offline, saved, files, delivered, reported>>
<1>1. up /\ job[j].loc # "free"
  BY WhoWorks
  DEF TaskHalts, Task, run_review, materialize_clear, materialize_raises,
      materialise_refuses, materialise_escapes,
      invoke_returns, run_review_ends, Returned, At
<1>2. job \in [Jobs -> JobRecord] /\ job[j] \in JobRecord
  BY <1>1, TaskFacts
<1>3. PICK l \in {"materialising", "cleared", "returned", "done"}, b \in BOOLEAN :
        job' \in {[job EXCEPT ![j].loc = l],
                  [job EXCEPT ![j].loc = l, ![j].paused = b],
                  [job EXCEPT ![j] = [@ EXCEPT !.loc = l, !.paused = b]]}
  BY DEF TaskHalts, Task, run_review, materialize_clear, materialize_raises,
         materialise_refuses, materialise_escapes, Fails,
         invoke_returns, run_review_ends, pending_interrupt
<1>4. /\ job'[j].loc = l /\ \A k \in Jobs \ {j} : job'[k] = job[k]
      /\ job'[j].thread = job[j].thread /\ job'[j].kind = job[j].kind
  <2>1. CASE job' = [job EXCEPT ![j].loc = l]
    BY <1>2, <2>1 DEF JobRecord
  <2>2. CASE job' = [job EXCEPT ![j].loc = l, ![j].paused = b]
    BY <1>2, <2>2 DEF JobRecord
  <2>3. CASE job' = [job EXCEPT ![j] = [@ EXCEPT !.loc = l, !.paused = b]]
    BY <1>2, <2>3 DEF JobRecord
  <2>4. QED
    BY <1>3, <2>1, <2>2, <2>3
<1>5. /\ mem' \in {mem, [mem EXCEPT ![j] = Blank]} /\ dirty' \in {dirty, dirty \ {j}}
      /\ UNCHANGED <<up, req, offline, saved, files, delivered, reported>>
  BY DEF TaskHalts, Task, run_review, materialize_clear, materialize_raises,
         materialise_refuses, materialise_escapes, Fails,
         invoke_returns, run_review_ends, disk, history
<1>6. \A k \in Invocation \ {j} : mem'[k] = mem[k]
  BY <1>5, RequestFacts
<1>7. QED
  BY <1>1, <1>4, <1>5, <1>6

\* The frame of an invocation that leaves the graph and is no task.
LEMMA LeaverFrame ==
  ASSUME TypeInv, NEW i \in Invocation \ Jobs,
         \/ node_raises(i)
         \/ i \in Clients /\ resume_responds(i)
         \/ i = Resumer /\ resumer_exits
  PROVE  /\ \A k \in Invocation \ {i} : mem'[k] = mem[k]
         /\ dirty' \in {dirty, dirty \ {i}}
         /\ \A c \in Clients : req'[c] = IF c = i THEN Idle ELSE req[c]
         /\ offline' = IF i = Resumer THEN NoThread ELSE offline
         /\ UNCHANGED <<up, job, saved, files, delivered, reported>>
<1>1. i \in Clients <=> i # Resumer
  BY WhoWorks DEF Invocation
<1>2. mem' = [mem EXCEPT ![i] = Blank] /\ dirty' \in {dirty, dirty \ {i}}
      /\ UNCHANGED <<up, job, saved, files, delivered, reported>>
  BY RaiseFacts DEF resume_responds, resumer_exits, memory, disk, history
<1>3. CASE i \in Clients
  <2>1. req' = [req EXCEPT ![i] = Idle] /\ UNCHANGED offline
    BY <1>1, <1>3, RaiseFacts DEF resume_responds
  <2>2. QED
    BY <1>1, <1>2, <1>3, <2>1, RequestFacts
<1>4. CASE i = Resumer
  <2>1. offline' = NoThread /\ UNCHANGED req
    BY <1>1, <1>4, RaiseFacts DEF resumer_exits, memory
  <2>2. QED
    BY <1>1, <1>2, <1>4, <2>1, RequestFacts
<1>5. QED
  BY <1>1, <1>3, <1>4

\* The frame of the death of the process.
LEMMA DeathFrame ==
  ASSUME TypeInv, crash
  PROVE  /\ ~up' /\ UNCHANGED <<offline, saved, copy, files, delivered, reported>>
         /\ mem'[Resumer] = mem[Resumer] /\ (Resumer \in dirty' <=> Resumer \in dirty)
         /\ \A c \in Clients : req'[c] = Idle
         /\ \A t \in Thread : runs'[t] = "absent"
         /\ \A j \in Jobs : /\ job'[j].thread = job[j].thread
                            /\ job'[j].kind = job[j].kind
                            /\ job'[j].loc \in {"free", "done"}
<1>1. /\ up' = FALSE /\ UNCHANGED <<overlaps, offline, disk, history>>
      /\ dirty' = dirty \cap {Resumer} /\ req' = [c \in Clients |-> Idle]
      /\ runs' = [t \in Thread |-> "absent"]
      /\ mem' = [i \in Invocation |-> IF i = Resumer THEN mem[i] ELSE Blank]
      /\ job' = [j \in Jobs |->
                   IF job[j].loc = "free" THEN NoJob
                   ELSE [job[j] EXCEPT !.loc = "done", !.paused = FALSE]]
  BY DEF crash
<1>2. ASSUME NEW j \in Jobs
      PROVE  /\ job'[j].thread = job[j].thread /\ job'[j].kind = job[j].kind
             /\ job'[j].loc \in {"free", "done"}
  <2>1. job[j] \in JobRecord /\ (job[j].loc = "free" => job[j] = NoJob)
    BY DEF TypeInv, ServiceTypeOK, JobRecord, Tidy, Threads
  <2>2. CASE job[j].loc = "free"
    BY <1>1, <2>1, <2>2 DEF NoJob
  <2>3. CASE job[j].loc # "free"
    <3>1. job'[j] = [job[j] EXCEPT !.loc = "done", !.paused = FALSE]
      BY <1>1, <2>3
    <3>2. QED
      BY <2>1, <3>1 DEF JobRecord
  <2>4. QED
    BY <2>2, <2>3
<1>3. Resumer \in Invocation
  BY WhoWorks
<1>4. QED
  BY <1>1, <1>2, <1>3 DEF disk, history

\* The frame of all of them.
LEMMA HaltFrame ==
  ASSUME TypeInv, Halting
  PROVE  HaltFacts
<1>1. Idle.loc = "idle"
  BY DEF Idle
<1>2. ASSUME NEW i \in Invocation, ~Working(i)',
             UNCHANGED up,
             \A j \in Jobs \ {i} : job'[j] = job[j],
             \A c \in Clients \ {i} : req'[c] = req[c],
             i # Resumer => offline' = offline,
             \A k \in Invocation \ {i} : mem'[k] = mem[k],
             dirty' \in {dirty, dirty \ {i}}
      PROVE  WorkersContinue
  <2> SUFFICES ASSUME NEW k \in Invocation \ {i}, Working(k)'
               PROVE  Working(k) /\ ThreadOf(k)' = ThreadOf(k)
    BY <1>2 DEF WorkersContinue
  <2>1. CASE k \in Jobs
    BY <1>2, <2>1, WhoWorks, WhoWorksNext DEF At
  <2>2. CASE k \in Clients
    BY <1>2, <2>2, WhoWorks, WhoWorksNext
  <2>3. CASE k = Resumer
    BY <1>2, <2>3, WhoWorks, WhoWorksNext
  <2>4. QED
    BY <2>1, <2>2, <2>3 DEF Invocation
<1>3. ASSUME NEW j \in Jobs, TaskHalts(j) PROVE HaltFacts
  <2>1. /\ up /\ job[j].loc # "free" /\ job'[j].loc # "working"
        /\ \A k \in Jobs \ {j} : job'[k] = job[k]
        /\ job'[j].thread = job[j].thread /\ job'[j].kind = job[j].kind
        /\ \A k \in Invocation \ {j} : mem'[k] = mem[k]
        /\ dirty' \in {dirty, dirty \ {j}}
        /\ UNCHANGED <<up, req, offline, saved, files, delivered, reported>>
    BY <1>3, TaskFrame
  <2>2. j \in Invocation /\ ~Working(j)' /\ j \notin Clients
    BY <2>1, WhoWorks, WhoWorksNext DEF At
  <2>3. WorkersContinue
    BY <1>2, <2>1, <2>2
  <2>4. QED
    BY <2>1, <2>3 DEF HaltFacts, RequestsContinue, TasksContinue
<1>4. ASSUME NEW i \in Invocation \ Jobs,
             \/ node_raises(i)
             \/ i \in Clients /\ resume_responds(i)
             \/ i = Resumer /\ resumer_exits
      PROVE  HaltFacts
  <2>1. /\ \A k \in Invocation \ {i} : mem'[k] = mem[k]
        /\ dirty' \in {dirty, dirty \ {i}}
        /\ \A c \in Clients : req'[c] = IF c = i THEN Idle ELSE req[c]
        /\ offline' = IF i = Resumer THEN NoThread ELSE offline
        /\ UNCHANGED <<up, job, saved, files, delivered, reported>>
    BY <1>4, LeaverFrame
  <2>2. ~Working(i)'
    BY <1>1, <2>1, WhoWorksNext DEF Invocation
  <2>3. WorkersContinue
    BY <1>2, <2>1, <2>2
  <2>4. QED
    BY <1>1, <2>1, <2>3 DEF HaltFacts, RequestsContinue, TasksContinue
<1>5. ASSUME NEW i \in Jobs, node_raises(i) PROVE HaltFacts
  <2>1. Fails(i) /\ up /\ job[i].loc # "free"
    BY <1>5, RaiseFacts, WhoWorks
  <2>2. /\ job' = [job EXCEPT ![i].loc = "done"] /\ mem' = [mem EXCEPT ![i] = Blank]
        /\ dirty' = dirty \ {i}
        /\ UNCHANGED <<up, req, offline, saved, files, delivered, reported>>
    BY <2>1 DEF Fails, history
  <2>3. /\ job'[i].loc = "done" /\ job'[i].thread = job[i].thread
        /\ job'[i].kind = job[i].kind /\ \A k \in Jobs \ {i} : job'[k] = job[k]
    BY <2>1, <2>2, TaskFacts DEF JobRecord
  <2>4. \A k \in Invocation \ {i} : mem'[k] = mem[k]
    BY <2>2, RequestFacts
  <2>5. i \in Invocation /\ ~Working(i)'
    BY <2>3, WhoWorks, WhoWorksNext DEF At
  <2>6. WorkersContinue
    BY <1>2, <2>2, <2>3, <2>4, <2>5
  <2>7. QED
    BY <2>2, <2>3, <2>6 DEF HaltFacts, RequestsContinue, TasksContinue
<1>6. CASE crash
  <2>1. WorkersContinue
    <3>1. \A k \in Invocation : k # Resumer => ~Working(k)'
      BY <1>6, DeathFrame, WhoWorksNext DEF Invocation, At
    <3>2. offline' = offline /\ Resumer \in Invocation
      BY <1>6, DeathFrame, WhoWorks
    <3>3. (Working(Resumer)' => Working(Resumer)) /\ ThreadOf(Resumer)' = ThreadOf(Resumer)
      BY <3>2, WhoWorks, WhoWorksNext
    <3>4. QED
      BY <1>6, <3>1, <3>3, DeathFrame DEF WorkersContinue
  <2>2. RequestsContinue /\ TasksContinue
    BY <1>1, <1>6, DeathFrame DEF RequestsContinue, TasksContinue
  <2>3. QED
    BY <1>6, <2>1, <2>2, DeathFrame DEF HaltFacts
<1>7. CASE restart \/ UNCHANGED vars
  <2>1. UNCHANGED <<job, req, offline, mem, dirty, saved, files, delivered, reported>>
        /\ (~up \/ up' = up)
    BY <1>7 DEF restart, vars, memory, disk, history
  <2>2. \A k \in Invocation : (Working(k)' => Working(k)) /\ ThreadOf(k)' = ThreadOf(k)
    <3>1. CASE ~up
      <4>1. /\ \A j \in Jobs : job[j].loc # "working"
            /\ \A c \in Clients : req[c].loc # "working"
        BY <3>1 DEF TypeInv, Tidy, NobodyWithoutProcess
      <4>2. QED
        BY <2>1, <4>1, WhoWorks, WhoWorksNext DEF Invocation, At
    <3>2. CASE up' = up
      BY <2>1, <3>2, WhoWorks, WhoWorksNext DEF Invocation, At
    <3>3. QED
      BY <2>1, <3>1, <3>2
  <2>3. QED
    BY <2>1, <2>2 DEF HaltFacts, WorkersContinue, RequestsContinue, TasksContinue
<1>8. \A c \in Clients : c \in Invocation \ Jobs
  BY WhoWorks
<1>9. Resumer \in Invocation \ Jobs
  BY WhoWorks
<1>10. QED
  BY <1>3, <1>4, <1>5, <1>6, <1>7, <1>8, <1>9 DEF Halting

\* The frame of a node.
Nodes(i) == Graph(i) /\ ~put_checkpoint(i) /\ ~node_raises(i)

LEMMA NodeFrame ==
  ASSUME TypeInv, NEW i \in Invocation, Nodes(i)
  PROVE  /\ Working(i)
         /\ \A k \in Invocation : (Working(k)' <=> Working(k)) /\ ThreadOf(k)' = ThreadOf(k)
         /\ \A k \in Invocation \ {i} : mem'[k] = mem[k]
         /\ dirty' \in {dirty, dirty \cup {i}}
         /\ UNCHANGED <<up, runs, job, req, offline, saved, delivered>>
<1>1. /\ Working(i) /\ \E s : mem' = [mem EXCEPT ![i] = s]
      /\ dirty' \in {dirty, dirty \cup {i}}
      /\ UNCHANGED <<up, runs, job, req, offline, saved, delivered>>
  BY DEF Nodes, Graph, intake, scan, apply_fix, hitl_approval, apply_decision,
         persist_report, upload_report, AtNode, Step, memory, history
<1>2. \A k \in Invocation : (Working(k)' <=> Working(k)) /\ ThreadOf(k)' = ThreadOf(k)
  BY <1>1, WhoWorks, WhoWorksNext DEF Invocation, At
<1>3. \A k \in Invocation \ {i} : mem'[k] = mem[k]
  BY <1>1, RequestFacts
<1>4. QED
  BY <1>1, <1>2, <1>3

\* The frame of a checkpoint.
LEMMA PutFrame ==
  ASSUME TypeInv, NEW i \in Invocation, put_checkpoint(i)
  PROVE  /\ Working(i) /\ i \in dirty /\ dirty' = dirty \ {i}
         /\ mem[i].next # "upload" /\ ThreadOf(i) \in Thread
         /\ saved'[ThreadOf(i)] = mem[i]
         /\ \A t \in Thread \ {ThreadOf(i)} : saved'[t] = saved[t]
         /\ \A k \in Invocation : (Working(k)' <=> Working(k)) /\ ThreadOf(k)' = ThreadOf(k)
         /\ UNCHANGED <<up, runs, job, req, offline, mem, copy, files, delivered, reported>>
<1>1. /\ Working(i) /\ i \in dirty /\ dirty' = dirty \ {i} /\ mem[i].next # "upload"
      /\ saved' = [saved EXCEPT ![ThreadOf(i)] = mem[i]]
      /\ UNCHANGED <<up, runs, job, req, offline, mem, copy, files, delivered, reported>>
  BY DEF put_checkpoint, memory, history
<1>2. ThreadOf(i) \in Thread
  BY <1>1, WorkersHaveThreads DEF TypeInv, Tidy
<1>3. \A k \in Invocation : (Working(k)' <=> Working(k)) /\ ThreadOf(k)' = ThreadOf(k)
  BY <1>1, WhoWorks, WhoWorksNext DEF Invocation, At
<1>4. QED
  BY <1>1, <1>2, <1>3 DEF TypeInv, ServiceTypeOK

\* The frame of a review that begins.
Begins(j) == materialize_copy(j) \/ materialise_inline(j)

LEMMA BeginFrame ==
  ASSUME TypeInv, NEW j \in Jobs, Begins(j)
  PROVE  LET u == job[j].thread IN
         /\ up /\ u \in Thread /\ job[j].loc \in {"materialising", "cleared"}
         /\ job'[j].loc = "working" /\ \A k \in Jobs \ {j} : job'[k] = job[k]
         /\ \A k \in Jobs : job'[k].thread = job[k].thread
         /\ job[j].kind \notin Refused \/ job[j].loc = "cleared"
         /\ job'[j].kind \in Refused => job[j].kind \in Refused
         /\ mem'[j].next = "intake" /\ mem'[j].hitl = Undecided /\ mem'[j].seen = 0
         /\ mem'[j].patched = saved[u].patched
         /\ \A k \in Invocation \ {j} : mem'[k] = mem[k]
         /\ saved'[u] = mem'[j] /\ \A t \in Thread \ {u} : saved'[t] = saved[t]
         /\ Working(j)' /\ ThreadOf(j)' = u
         /\ \A k \in Invocation \ {j} : (Working(k)' <=> Working(k))
                                       /\ ThreadOf(k)' = ThreadOf(k)
         /\ \A t \in Thread \ {u} : copy'[t] = copy[t]
         /\ UNCHANGED <<up, runs, req, offline, dirty, files, delivered, reported>>
<1> DEFINE u == job[j].thread
           input == [Blank EXCEPT !.next = "intake", !.patched = saved[u].patched]
<1>1. /\ up /\ job[j].loc \in {"materialising", "cleared"}
      /\ job[j].kind = "inline" \/ job[j].loc = "cleared"
      /\ copy' = [copy EXCEPT ![u] = 1] /\ Begin(j)
  BY DEF Begins, materialize_copy, materialise_inline, At
<1>2. /\ mem' = [mem EXCEPT ![j] = input] /\ saved' = [saved EXCEPT ![u] = input]
      /\ job' = [job EXCEPT ![j].loc = "working",
                            ![j].kind = IF @ = "inline" THEN "fixture" ELSE @]
      /\ UNCHANGED <<up, runs, req, offline, dirty, files, delivered, reported>>
  BY <1>1 DEF Begin, history
<1>3. /\ job'[j].loc = "working" /\ \A k \in Jobs \ {j} : job'[k] = job[k]
      /\ \A k \in Jobs : job'[k].thread = job[k].thread
      /\ job'[j].kind = IF job[j].kind = "inline" THEN "fixture" ELSE job[j].kind
      /\ u \in Thread /\ j \in Invocation
  BY <1>1, <1>2, TaskFacts DEF JobRecord
<1>4. /\ input.next = "intake" /\ input.hitl = Undecided /\ input.seen = 0
      /\ input.patched = saved[u].patched
  BY DEF Blank
<1>5. /\ mem'[j] = input /\ \A k \in Invocation \ {j} : mem'[k] = mem[k]
      /\ saved'[u] = input /\ \A t \in Thread \ {u} : saved'[t] = saved[t]
      /\ \A t \in Thread \ {u} : copy'[t] = copy[t]
  BY <1>1, <1>2, <1>3 DEF TypeInv, ServiceTypeOK
<1>6. "fixture" \notin Refused /\ "inline" \notin Refused
  BY DEF Refused, enforce, detect_injection, Fixture, load_pull_request_raises
<1>7. Working(j)' /\ ThreadOf(j)' = u
  BY <1>1, <1>2, <1>3, WhoWorksNext DEF At
<1>8. \A k \in Invocation \ {j} : (Working(k)' <=> Working(k)) /\ ThreadOf(k)' = ThreadOf(k)
  <2>. up' = up /\ req' = req /\ offline' = offline
    BY <1>2
  <2>1. \A k \in Jobs \ {j} : (Working(k)' <=> Working(k)) /\ ThreadOf(k)' = ThreadOf(k)
    BY <1>3, WhoWorks, WhoWorksNext DEF At
  <2>2. \A k \in Clients : (Working(k)' <=> Working(k)) /\ ThreadOf(k)' = ThreadOf(k)
    BY WhoWorks, WhoWorksNext
  <2>3. (Working(Resumer)' <=> Working(Resumer)) /\ ThreadOf(Resumer)' = ThreadOf(Resumer)
    BY WhoWorks, WhoWorksNext
  <2>4. QED
    BY <2>1, <2>2, <2>3 DEF Invocation
<1>9. QED
  BY <1>1, <1>2, <1>3, <1>4, <1>5, <1>6, <1>7, <1>8

\* The frame of a webhook.
LEMMA WebhookFrame ==
  ASSUME TypeInv, NEW j \in Jobs, NEW pr \in Prs, NEW kind \in Kind,
         NEW second \in Seconds, webhook_pr(j, pr, kind, second)
  PROVE  LET u == [pr |-> pr, at |-> second] IN
         /\ u \in Thread /\ job[j].loc = "free"
         /\ job'[j].loc = "accepted" /\ \A k \in Jobs \ {j} : job'[k] = job[k]
         /\ \A t \in Thread : Starts(t)' = IF t = u THEN Starts(t) \cup {j} ELSE Starts(t)
         /\ \A t \in Thread : j \notin Starts(t)
         /\ ~Restarted(u)' => Starts(u) = {} /\ ~Restarted(u)
         /\ \A t \in Thread \ {u} : Restarted(t)' = Restarted(t)
         /\ \A t \in Thread : ~Restarted(t)' =>
              delivered'[t] = delivered[t] /\ reported'[t] = reported[t]
         /\ \A k \in Invocation :
              /\ Working(k)' <=> Working(k)
              /\ Working(k) => ThreadOf(k)' = ThreadOf(k)
         /\ UNCHANGED <<up, runs, req, offline, mem, dirty, saved, copy, files>>
<1> DEFINE u == [pr |-> pr, at |-> second]
<1>1. /\ up /\ job[j].loc = "free"
      /\ job' = [job EXCEPT ![j] = [loc |-> "accepted", kind |-> kind, thread |-> u,
                                    paused |-> FALSE]]
      /\ delivered' = [t \in Thread |-> IF t \in {v \in Thread : Restarted(v)'}
                                        THEN {} ELSE delivered[t]]
      /\ reported' = [t \in Thread |-> IF t \in {v \in Thread : Restarted(v)'}
                                       THEN {} ELSE reported[t]]
      /\ UNCHANGED <<up, runs, req, offline, mem, dirty, saved, copy, files>>
  BY DEF webhook_pr, disk
<1>2. /\ job'[j].thread = u /\ \A k \in Jobs \ {j} : job'[k] = job[k]
      /\ job'[j].loc = "accepted" /\ u \in Thread /\ job[j].thread = NoThread
  BY <1>1 DEF TypeInv, ServiceTypeOK, Thread, Tidy, Threads, NoJob
<1>3. /\ \A t \in Thread : Starts(t)' = IF t = u THEN Starts(t) \cup {j} ELSE Starts(t)
      /\ \A t \in Thread : j \notin Starts(t)
  BY <1>2, NoThreadIsNone DEF Starts
<1>4. \A t \in Thread \ {u} : Restarted(t)' = Restarted(t)
  BY <1>3 DEF Restarted
<1>5. ASSUME ~Restarted(u)' PROVE Starts(u) = {} /\ ~Restarted(u)
  <2>1. j \in Starts(u)' /\ Starts(u)' \subseteq Jobs /\ ~(Cardinality(Starts(u)') > 1)
    BY <1>2, <1>3, <1>5 DEF Starts, Restarted
  <2>2. \A k \in Starts(u)' : k = j
    BY <2>1, CountedToOne
  <2>3. Starts(u) = {}
    BY <1>2, <1>3, <2>2
  <2>4. Cardinality({}) = 0
    BY FS_EmptySet
  <2>5. QED
    BY <2>3, <2>4 DEF Restarted
<1>6. \A t \in Thread : ~Restarted(t)' =>
         delivered'[t] = delivered[t] /\ reported'[t] = reported[t]
  BY <1>1
<1>7. \A k \in Invocation : /\ Working(k)' <=> Working(k)
                            /\ Working(k) => ThreadOf(k)' = ThreadOf(k)
  <2>. up' = up /\ req' = req /\ offline' = offline
    BY <1>1
  <2>1. \A k \in Jobs \ {j} : (Working(k)' <=> Working(k)) /\ ThreadOf(k)' = ThreadOf(k)
    BY <1>2, WhoWorks, WhoWorksNext DEF At
  <2>2. \A k \in Clients : (Working(k)' <=> Working(k)) /\ ThreadOf(k)' = ThreadOf(k)
    BY WhoWorks, WhoWorksNext
  <2>3. (Working(Resumer)' <=> Working(Resumer)) /\ ThreadOf(Resumer)' = ThreadOf(Resumer)
    BY WhoWorks, WhoWorksNext
  <2>4. ~Working(j) /\ ~Working(j)'
    BY <1>1, <1>2, WhoWorks, WhoWorksNext DEF At
  <2>5. QED
    BY <2>1, <2>2, <2>3, <2>4 DEF Invocation
<1>8. QED
  BY <1>1, <1>2, <1>3, <1>4, <1>5, <1>6, <1>7

\* The frame of a request that is admitted.
LEMMA AdmissionFrame ==
  ASSUME TypeInv, NEW c \in Clients, NEW u \in Thread, NEW choice \in Choices,
         resume(c, u, choice)
  PROVE  /\ up /\ saved[u].next = "paused" /\ req[c].loc = "idle"
         /\ req'[c].loc = "checked" /\ req'[c].thread = u /\ req'[c].choice = choice
         /\ req'[c].alone => offline # u /\ \A e \in Requests : req[e].thread # u
         /\ \A d \in Clients \ {c} :
              /\ req'[d].loc = req[d].loc /\ req'[d].thread = req[d].thread
              /\ req'[d].choice = req[d].choice
              /\ req'[d].alone => req[d].alone /\ req[d].thread # u
         /\ \A k \in Invocation :
              /\ Working(k)' <=> Working(k)
              /\ Working(k) => ThreadOf(k)' = ThreadOf(k)
         /\ UNCHANGED <<up, runs, job, offline, mem, dirty, saved, copy, files,
                        delivered, reported>>
<1>1. /\ up /\ saved[u].next = "paused" /\ req[c].loc = "idle"
      /\ UNCHANGED <<up, runs, job, offline, mem, dirty, saved, copy, files,
                     delivered, reported>>
  BY DEF resume, pending_interrupt, Admit, disk, history
<1>2. /\ req'[c].loc = "checked" /\ req'[c].thread = u /\ req'[c].choice = choice
      /\ req'[c].alone => offline # u /\ \A e \in Requests : req[e].thread # u
      /\ \A d \in Clients \ {c} :
            /\ req'[d].loc = req[d].loc /\ req'[d].thread = req[d].thread
            /\ req'[d].choice = req[d].choice
            /\ req'[d].alone => req[d].alone /\ req[d].thread # u
  <2>1. req' = [d \in Clients |->
                 IF d = c
                 THEN [loc |-> "checked", thread |-> u, choice |-> choice,
                       alone |-> offline # u /\ (\A e \in Requests : req[e].thread # u)]
                 ELSE [req[d] EXCEPT !.alone = @ /\ req[d].thread # u]]
    BY DEF resume, Admit
  <2>2. QED
    BY <2>1, RequestFacts DEF RequestRecord
<1>3. \A k \in Invocation : /\ Working(k)' <=> Working(k)
                            /\ Working(k) => ThreadOf(k)' = ThreadOf(k)
  <2>. up' = up /\ job' = job /\ offline' = offline
    BY <1>1
  <2>1. \A k \in Jobs : (Working(k)' <=> Working(k)) /\ ThreadOf(k)' = ThreadOf(k)
    BY WhoWorks, WhoWorksNext DEF At
  <2>2. \A k \in Clients : /\ Working(k)' <=> Working(k)
                           /\ Working(k) => ThreadOf(k)' = ThreadOf(k)
    BY <1>1, <1>2, WhoWorks, WhoWorksNext
  <2>3. (Working(Resumer)' <=> Working(Resumer)) /\ ThreadOf(Resumer)' = ThreadOf(Resumer)
    BY WhoWorks, WhoWorksNext
  <2>4. QED
    BY <2>1, <2>2, <2>3 DEF Invocation
<1>4. QED
  BY <1>1, <1>2, <1>3

\* What is loaded to be given a decision.
LEMMA LoadedFacts ==
  ASSUME TypeInv, NEW t \in Thread, NEW choice \in Choices
  PROVE  LET s == Loaded(t, choice) IN
         /\ s.seen = saved[t].seen /\ s.patched = saved[t].patched
         /\ s.path = saved[t].path
         /\ saved[t].next = "paused" => s.next = "decide" /\ s.hitl = choice
         /\ s # saved[t] => s.next = "decide"
<1>1. saved[t] \in Snapshot
  BY DEF TypeInv, ServiceTypeOK
<1>2. QED
  BY <1>1 DEF Loaded, Snapshot

\* The frame of a decision.
LEMMA DecisionFrame ==
  ASSUME TypeInv, NEW c \in Clients, resume_review(c)
  PROVE  LET u == req[c].thread IN
         /\ up /\ u \in Thread /\ req[c].loc = "checked" /\ req[c].choice \in Choices
         /\ req'[c].loc = "working" /\ req'[c].thread = u
         /\ req'[c].choice = req[c].choice /\ req'[c].alone = req[c].alone
         /\ \A d \in Clients \ {c} : req'[d] = req[d]
         /\ mem'[c] = Loaded(u, req[c].choice)
         /\ \A k \in Invocation \ {c} : mem'[k] = mem[k]
         /\ ~Working(c) /\ Working(c)' /\ ThreadOf(c)' = u
         /\ \A k \in Invocation \ {c} : (Working(k)' <=> Working(k))
                                       /\ ThreadOf(k)' = ThreadOf(k)
         /\ \A k \in Invocation \ {c} : k \in dirty' <=> k \in dirty
         /\ UNCHANGED <<up, runs, job, offline, saved, copy, files, reported>>
<1> DEFINE u == req[c].thread
<1>1. /\ up /\ req[c].loc = "checked" /\ Deliver(c, u, req[c].choice)
      /\ req' = [req EXCEPT ![c].loc = "working"]
      /\ UNCHANGED <<up, runs, job, offline, saved, copy, files, reported>>
  BY DEF resume_review, disk
<1>2. u \in Thread /\ req[c].choice \in Choices /\ c \in Invocation
  BY <1>1, WhoWorks DEF TypeInv, Tidy, Threads
<1>3. /\ req'[c].loc = "working" /\ req'[c].thread = u
      /\ req'[c].choice = req[c].choice /\ req'[c].alone = req[c].alone
      /\ \A d \in Clients \ {c} : req'[d] = req[d]
  BY <1>1, RequestFacts DEF RequestRecord
<1>4. /\ mem'[c] = Loaded(u, req[c].choice)
      /\ \A k \in Invocation \ {c} : mem'[k] = mem[k]
      /\ \A k \in Invocation \ {c} : k \in dirty' <=> k \in dirty
  BY <1>1, <1>2, DeliverTypes
<1>5. ~Working(c) /\ Working(c)' /\ ThreadOf(c)' = u
  BY <1>1, <1>3, WhoWorks, WhoWorksNext
<1>6. \A k \in Invocation \ {c} : (Working(k)' <=> Working(k)) /\ ThreadOf(k)' = ThreadOf(k)
  <2>. up' = up /\ job' = job /\ offline' = offline
    BY <1>1
  <2>1. \A k \in Jobs : (Working(k)' <=> Working(k)) /\ ThreadOf(k)' = ThreadOf(k)
    BY WhoWorks, WhoWorksNext DEF At
  <2>2. \A k \in Clients \ {c} : (Working(k)' <=> Working(k)) /\ ThreadOf(k)' = ThreadOf(k)
    BY <1>3, WhoWorks, WhoWorksNext
  <2>3. (Working(Resumer)' <=> Working(Resumer)) /\ ThreadOf(Resumer)' = ThreadOf(Resumer)
    BY WhoWorks, WhoWorksNext
  <2>4. QED
    BY <2>1, <2>2, <2>3 DEF Invocation
<1>7. QED
  BY <1>1, <1>2, <1>3, <1>4, <1>5, <1>6

\* The frame of the resumer when it takes up a thread.
LEMMA ResumerFrame ==
  ASSUME TypeInv, NEW u \in Thread, run_resumer(u)
  PROVE  /\ ~up /\ saved[u].next \notin {"none", "end"}
         /\ \A c \in Clients : req[c].loc = "idle"
         /\ \A j \in Jobs : job[j].loc \in {"free", "done"}
         /\ mem'[Resumer] = IF saved[u].next = "paused" THEN Loaded(u, "reject")
                           ELSE saved[u]
         /\ \A k \in Invocation : ~Working(k) /\ (Working(k)' <=> k = Resumer)
         /\ ThreadOf(Resumer)' = u /\ offline' = u
         /\ UNCHANGED <<up, runs, job, req, saved, copy, files, reported>>
<1>1. /\ ~up /\ offline = NoThread /\ saved[u].next \notin {"none", "end"}
      /\ offline' = u
      /\ UNCHANGED <<up, runs, job, req, saved, copy, files, reported>>
      /\ IF saved[u].next = "paused"
         THEN Deliver(Resumer, u, "reject")
         ELSE mem' = [mem EXCEPT ![Resumer] = saved[u]]
  BY DEF run_resumer, pending_interrupt, memory, disk
<1>2. /\ \A c \in Clients : req[c].loc = "idle"
      /\ \A j \in Jobs : job[j].loc \in {"free", "done"}
  BY <1>1 DEF TypeInv, Tidy, NobodyWithoutProcess
<1>3. Resumer \in Invocation /\ Resumer \notin Jobs /\ Resumer \notin Clients
  BY WhoWorks
<1>4. \A k \in Invocation : ~Working(k) /\ (Working(k)' <=> k = Resumer)
  <2>1. \A k \in Jobs : ~Working(k) /\ ~Working(k)'
    BY <1>1, WhoWorks, WhoWorksNext DEF At
  <2>2. \A k \in Clients : ~Working(k) /\ ~Working(k)'
    BY <1>1, WhoWorks, WhoWorksNext
  <2>3. ~Working(Resumer) /\ Working(Resumer)'
    BY <1>1, WhoWorks, WhoWorksNext, NoThreadIsNone
  <2>4. QED
    BY <1>3, <2>1, <2>2, <2>3 DEF Invocation
<1>5. ThreadOf(Resumer)' = u
  BY <1>1, WhoWorksNext
<1>6. mem'[Resumer] = IF saved[u].next = "paused" THEN Loaded(u, "reject") ELSE saved[u]
  <2>1. CASE saved[u].next = "paused"
    BY <1>1, <1>3, <2>1, DeliverTypes DEF Choices
  <2>2. CASE saved[u].next # "paused"
    BY <1>1, <1>3, <2>2, RequestFacts
  <2>3. QED
    BY <2>1, <2>2
<1>7. QED
  BY <1>1, <1>2, <1>4, <1>5, <1>6

\* A step is of one of these kinds.
LEMMA StepKinds ==
  ASSUME [Next]_vars
  PROVE  \/ Halting
         \/ \E j \in Jobs : Begins(j)
         \/ \E i \in Invocation : Nodes(i)
         \/ \E i \in Invocation : put_checkpoint(i)
         \/ \E j \in Jobs, pr \in Prs, kind \in Kind, second \in Seconds :
              webhook_pr(j, pr, kind, second)
         \/ \E c \in Clients, u \in Thread, choice \in Choices : resume(c, u, choice)
         \/ \E c \in Clients : resume_review(c)
         \/ \E u \in Thread : run_resumer(u)
BY DEF Next, Halting, TaskHalts, Begins, Nodes, Request

-----------------------------------------------------------------------------
(***************************************************************************)
(* The report of a finished review.                                        *)
(***************************************************************************)
HasFile(t, s) == s.path \in Seconds /\ files[<<t.pr, s.path>>] # NoThread

Written == {"upload", "end"}

PastWriting(i) == Working(i) /\ mem[i].next \in Written

\* Whoever is past the writing of the report has it on disk, and no checkpoint
\* is taken between the writing and the upload.
FilesInv ==
  /\ \A i \in Invocation : PastWriting(i) => HasFile(ThreadOf(i), mem[i])
  /\ \A t \in Thread : saved[t].next # "upload"
  /\ \A t \in Thread : saved[t].next = "end" => HasFile(t, saved[t])

\* It is kept when it is for everyone who is past it.
LEMMA FilesKept ==
  ASSUME \A i \in Invocation : Working(i)' /\ mem'[i].next \in Written =>
            mem'[i].path \in Seconds /\ files'[<<ThreadOf(i)'.pr, mem'[i].path>>] # NoThread,
         \A t \in Thread : saved'[t].next # "upload",
         \A t \in Thread : saved'[t].next = "end" =>
            saved'[t].path \in Seconds /\ files'[<<t.pr, saved'[t].path>>] # NoThread
  PROVE  FilesInv'
<1>1. \A i \in Invocation : PastWriting(i)' => HasFile(ThreadOf(i), mem[i])'
  BY DEF PastWriting, HasFile
<1>2. \A t \in Thread : saved'[t].next = "end" => HasFile(t, saved[t])'
  BY DEF HasFile
<1>3. QED
  BY <1>1, <1>2 DEF FilesInv

\* No file is taken away: the one that is written last stays.
LEMMA FilesStay ==
  ASSUME TypeInv, NEW i \in Invocation, Nodes(i), NEW t \in Thread,
         NEW second \in Seconds, files[<<t.pr, second>>] # NoThread
  PROVE  files'[<<t.pr, second>>] # NoThread
<1>1. CASE persist_report(i)
  <2>1. PICK now \in Reading(ThreadOf(i)) :
          files' = [files EXCEPT ![<<ThreadOf(i).pr, now>>] = ThreadOf(i)]
    BY <1>1 DEF persist_report
  <2>2. ThreadOf(i) \in Thread /\ files \in [Prs \X Seconds -> Thread \cup {NoThread}]
        /\ t.pr \in Prs
    BY NodeFrame, WorkerFacts DEF Thread
  <2>3. <<t.pr, second>> \in Prs \X Seconds
    BY <2>2
  <2>4. files'[<<t.pr, second>>] \in {ThreadOf(i), files[<<t.pr, second>>]}
    BY <2>1, <2>2, <2>3
  <2>5. QED
    BY <2>2, <2>4, NoThreadIsNone
<1>2. CASE ~persist_report(i)
  BY <1>2 DEF Nodes, Graph, intake, scan, apply_fix, hitl_approval,
              apply_decision, upload_report
<1>3. QED
  BY <1>1, <1>2

\* Only the writing of the report leads to its upload, and only that to the end.
LEMMA WritingLeadsToTheEnd ==
  ASSUME TypeInv, NEW i \in Invocation, Nodes(i), mem'[i].next \in Written
  PROVE  \/ persist_report(i)
         \/ mem[i].next = "upload" /\ mem'[i].path = mem[i].path /\ files' = files
<1>1. mem \in [Invocation -> Snapshot] /\ mem[i] \in Snapshot
  BY DEF TypeInv, ServiceTypeOK
<1>2. CASE intake(i) \/ hitl_approval(i) \/ apply_decision(i)
  <2>1. \E p \in Position \ Written : Step(i, [mem[i] EXCEPT !.next = p])
    BY <1>2 DEF intake, hitl_approval, apply_decision, Position, Written
  <2>2. QED
    BY <1>1, <2>1 DEF Step, Snapshot
<1>3. CASE scan(i)
  <2>1. \E p \in {"hitl", "report", "fix"} :
          Step(i, [mem[i] EXCEPT !.seen = copy[ThreadOf(i)], !.next = p])
    BY <1>3 DEF scan
  <2>2. QED
    BY <1>1, <2>1 DEF Step, Snapshot, Written
<1>4. CASE apply_fix(i)
  <2>1. \/ mem' = [mem EXCEPT ![i] = [mem[i] EXCEPT !.patched = TRUE, !.next = "scan",
                                                   !.iteration = @ + 1]]
        \/ mem' = [mem EXCEPT ![i] = [mem[i] EXCEPT !.next = "scan", !.iteration = @ + 1]]
    BY <1>4 DEF apply_fix, Step
  <2>2. /\ [mem[i] EXCEPT !.patched = TRUE, !.next = "scan", !.iteration = @ + 1].next = "scan"
        /\ [mem[i] EXCEPT !.next = "scan", !.iteration = @ + 1].next = "scan"
    BY <1>1 DEF Snapshot
  <2>3. QED
    BY <1>1, <2>1, <2>2 DEF Written
<1>5. CASE upload_report(i)
  <2>1. mem' = [mem EXCEPT ![i] = [mem[i] EXCEPT !.next = "end"]]
        /\ mem[i].next = "upload" /\ files' = files
    BY <1>5 DEF upload_report, AtNode, Step
  <2>2. QED
    BY <1>1, <2>1 DEF Snapshot
<1>6. QED
  BY <1>2, <1>3, <1>4, <1>5 DEF Nodes, Graph

\* Every step keeps the reports.
LEMMA FilesStep ==
  ASSUME TypeInv, FilesInv, [Next]_vars
  PROVE  FilesInv'
<1>1. /\ \A i \in Invocation : Working(i) /\ mem[i].next \in Written =>
           mem[i].path \in Seconds /\ files[<<ThreadOf(i).pr, mem[i].path>>] # NoThread
      /\ \A t \in Thread : saved[t].next # "upload"
      /\ \A t \in Thread : saved[t].next = "end" =>
           saved[t].path \in Seconds /\ files[<<t.pr, saved[t].path>>] # NoThread
  BY DEF FilesInv, PastWriting, HasFile
<1>2. CASE Halting
  <2>1. /\ \A k \in Invocation : Working(k)' =>
             Working(k) /\ ThreadOf(k)' = ThreadOf(k) /\ mem'[k] = mem[k]
        /\ saved' = saved /\ files' = files
    BY <1>2, HaltFrame DEF HaltFacts, WorkersContinue
  <2>2. QED
    BY <1>1, <2>1, FilesKept
<1>3. ASSUME NEW j \in Jobs, Begins(j) PROVE FilesInv'
  <2> DEFINE u == job[j].thread
  <2>1. /\ mem'[j].next = "intake" /\ saved'[u] = mem'[j] /\ u \in Thread
        /\ \A k \in Invocation \ {j} : mem'[k] = mem[k]
        /\ \A t \in Thread \ {u} : saved'[t] = saved[t]
        /\ \A k \in Invocation \ {j} : (Working(k)' <=> Working(k))
                                       /\ ThreadOf(k)' = ThreadOf(k)
        /\ files' = files
    BY <1>3, BeginFrame
  <2>2. "intake" \notin Written /\ "intake" # "upload" /\ "intake" # "end"
    BY DEF Written
  <2>3. QED
    BY <1>1, <2>1, <2>2, FilesKept
<1>4. ASSUME NEW i \in Invocation, Nodes(i) PROVE FilesInv'
  <2>1. /\ Working(i) /\ ThreadOf(i) \in Thread /\ ThreadOf(i).pr \in Prs
        /\ \A k \in Invocation : (Working(k)' <=> Working(k)) /\ ThreadOf(k)' = ThreadOf(k)
        /\ \A k \in Invocation \ {i} : mem'[k] = mem[k]
        /\ saved' = saved
    BY <1>4, NodeFrame, WorkerFacts
  <2>2. \A t \in Thread, second \in Seconds :
           files[<<t.pr, second>>] # NoThread => files'[<<t.pr, second>>] # NoThread
    BY <1>4, FilesStay
  <2>3. \A k \in Invocation : Working(k) => ThreadOf(k) \in Thread
    BY WorkerFacts
  <2>4. ASSUME NEW k \in Invocation \ {i}, Working(k)', mem'[k].next \in Written
        PROVE  mem'[k].path \in Seconds /\ files'[<<ThreadOf(k)'.pr, mem'[k].path>>] # NoThread
    <3>1. Working(k) /\ mem'[k] = mem[k] /\ ThreadOf(k)' = ThreadOf(k)
      BY <2>1, <2>4
    <3>2. mem[k].path \in Seconds /\ files[<<ThreadOf(k).pr, mem[k].path>>] # NoThread
      BY <1>1, <2>4, <3>1
    <3>3. QED
      BY <2>2, <2>3, <3>1, <3>2
  <2>5. ASSUME mem'[i].next \in Written
        PROVE  mem'[i].path \in Seconds /\ files'[<<ThreadOf(i)'.pr, mem'[i].path>>] # NoThread
    <3>1. CASE persist_report(i)
      <4>1. PICK now \in Reading(ThreadOf(i)) :
              /\ files' = [files EXCEPT ![<<ThreadOf(i).pr, now>>] = ThreadOf(i)]
              /\ mem' = [mem EXCEPT ![i] = [@ EXCEPT !.next = "upload", !.path = now]]
        BY <3>1 DEF persist_report
      <4>2. now \in Seconds
        BY <2>1, <4>1, WorkerFacts, MaxClockAssumption DEF Reading, Seconds
      <4>3. mem'[i].path = now
        BY <2>1, <4>1, WorkerFacts DEF Snapshot
      <4>4. <<ThreadOf(i).pr, now>> \in Prs \X Seconds
        BY <2>1, <4>2
      <4>5. files'[<<ThreadOf(i).pr, now>>] = ThreadOf(i)
        BY <2>1, <4>1, <4>4, WorkerFacts
      <4>6. QED
        BY <2>1, <4>2, <4>3, <4>5, NoThreadIsNone
    <3>2. CASE ~persist_report(i)
      <4>1. mem[i].next = "upload" /\ mem'[i].path = mem[i].path /\ files' = files
        BY <1>4, <2>5, <3>2, WritingLeadsToTheEnd
      <4>2. QED
        BY <1>1, <2>1, <4>1 DEF Written
    <3>3. QED
      BY <3>1, <3>2
  <2>6. \A t \in Thread : saved'[t].next # "upload"
    BY <1>1, <2>1
  <2>7. \A t \in Thread : saved'[t].next = "end" =>
           saved'[t].path \in Seconds /\ files'[<<t.pr, saved'[t].path>>] # NoThread
    BY <1>1, <2>1, <2>2
  <2>8. QED
    BY <2>4, <2>5, <2>6, <2>7, FilesKept
<1>5. ASSUME NEW i \in Invocation, put_checkpoint(i) PROVE FilesInv'
  <2>1. /\ Working(i) /\ mem[i].next # "upload" /\ ThreadOf(i) \in Thread
        /\ saved'[ThreadOf(i)] = mem[i]
        /\ \A t \in Thread \ {ThreadOf(i)} : saved'[t] = saved[t]
        /\ \A k \in Invocation : (Working(k)' <=> Working(k)) /\ ThreadOf(k)' = ThreadOf(k)
        /\ mem' = mem /\ files' = files
    BY <1>5, PutFrame
  <2>2. mem[i].next = "end" =>
          mem[i].path \in Seconds /\ files[<<ThreadOf(i).pr, mem[i].path>>] # NoThread
    BY <1>1, <2>1 DEF Written
  <2>3. QED
    BY <1>1, <2>1, <2>2, FilesKept
<1>6. ASSUME mem' = mem, saved' = saved, files' = files,
             \A k \in Invocation : Working(k)' =>
                Working(k) /\ ThreadOf(k)' = ThreadOf(k)
      PROVE  FilesInv'
  <2>1. \A k \in Invocation : Working(k)' =>
           Working(k) /\ ThreadOf(k)' = ThreadOf(k) /\ mem'[k] = mem[k]
    BY <1>6
  <2>2. QED
    BY <1>1, <1>6, <2>1, FilesKept
<1>7. ASSUME NEW j \in Jobs, NEW pr \in Prs, NEW kind \in Kind, NEW second \in Seconds,
             webhook_pr(j, pr, kind, second)
      PROVE  FilesInv'
  BY <1>6, <1>7, WebhookFrame
<1>8. ASSUME NEW c \in Clients, NEW u \in Thread, NEW choice \in Choices,
             resume(c, u, choice)
      PROVE  FilesInv'
  BY <1>6, <1>8, AdmissionFrame
<1>9. ASSUME NEW c \in Clients, resume_review(c) PROVE FilesInv'
  <2> DEFINE u == req[c].thread
  <2>1. /\ u \in Thread /\ req[c].choice \in Choices
        /\ mem'[c] = Loaded(u, req[c].choice) /\ ThreadOf(c)' = u
        /\ \A k \in Invocation \ {c} : mem'[k] = mem[k]
        /\ \A k \in Invocation \ {c} : (Working(k)' <=> Working(k))
                                       /\ ThreadOf(k)' = ThreadOf(k)
        /\ saved' = saved /\ files' = files
    BY <1>9, DecisionFrame
  <2>2. mem'[c].path = saved[u].path /\ mem'[c].next \in {saved[u].next, "decide"}
    BY <2>1, LoadedFacts
  <2>3. mem'[c].next \in Written => saved[u].next = "end"
    BY <1>1, <2>1, <2>2 DEF Written
  <2>4. QED
    BY <1>1, <2>1, <2>2, <2>3, FilesKept
<1>10. ASSUME NEW u \in Thread, run_resumer(u) PROVE FilesInv'
  <2>1. /\ saved[u].next # "end"
        /\ mem'[Resumer] = IF saved[u].next = "paused" THEN Loaded(u, "reject") ELSE saved[u]
        /\ \A k \in Invocation : Working(k)' <=> k = Resumer
        /\ saved' = saved /\ files' = files
    BY <1>10, ResumerFrame
  <2>2. mem'[Resumer].next \notin Written
    <3>1. "reject" \in Choices /\ "decide" \notin Written
      BY DEF Choices, Written
    <3>2. CASE saved[u].next = "paused"
      <4>1. mem'[Resumer].next = "decide"
        BY <2>1, <3>1, <3>2, LoadedFacts
      <4>2. QED
        BY <3>1, <4>1
    <3>3. CASE saved[u].next # "paused"
      BY <1>1, <2>1, <3>3 DEF Written
    <3>4. QED
      BY <3>2, <3>3
  <2>3. QED
    BY <1>1, <2>1, <2>2, FilesKept
<1>11. QED
  BY <1>2, <1>3, <1>4, <1>5, <1>7, <1>8, <1>9, <1>10, StepKinds

\* A finished review's report is on the local disk, through every crash: that
\* of the review, or of one of the same pull request and second.
THEOREM FinishedHaveReports == Spec => []EndedHasReport
<1>1. Init => FilesInv
  <2> SUFFICES ASSUME Init PROVE FilesInv
    OBVIOUS
  <2>1. /\ up = TRUE /\ offline = NoThread
        /\ \A c \in Clients : req[c].loc = "idle"
        /\ \A j \in Jobs : job[j].loc = "free"
        /\ \A t \in Thread : saved[t].next = "none"
    BY DEF Init, Idle, NoJob, Blank
  <2>2. \A i \in Invocation : ~Working(i)
    BY <2>1, WhoWorks DEF Invocation, At
  <2>3. QED
    BY <2>1, <2>2 DEF FilesInv, PastWriting
<1>2. TypeInv /\ FilesInv /\ [Next]_vars => FilesInv'
  BY FilesStep
<1>3. Spec => []TypeInv
  BY ServiceTypes DEF TypeInv
<1>4. FilesInv => EndedHasReport
  BY DEF FilesInv, EndedHasReport, HasFile
<1>5. QED
  BY <1>1, <1>2, <1>3, <1>4, PTL DEF Spec

-----------------------------------------------------------------------------
(***************************************************************************)
(* A human who was alone with the thread.                                  *)
(***************************************************************************)
Alone(c) ==
  req[c].loc # "idle" /\ req[c].alone /\ ~Restarted(req[c].thread)

\* Nobody else is there to answer the pause, and the answer is theirs.
OwnAnswer(c) ==
  /\ offline # req[c].thread
  /\ \A d \in Clients \ {c} : req[d].loc # "idle" => req[d].thread # req[c].thread
  /\ req[c].loc = "checked" => saved[req[c].thread].next = "paused"
  /\ req[c].loc = "working" => mem[c].hitl = req[c].choice

AloneInv == \A c \in Clients : Alone(c) => OwnAnswer(c)

\* It is kept when it is for every request that is still alone.
LEMMA AloneKept ==
  ASSUME \A c \in Clients :
           Alone(c)' =>
             /\ offline' # req'[c].thread
             /\ \A d \in Clients \ {c} :
                  req'[d].loc # "idle" => req'[d].thread # req'[c].thread
             /\ req'[c].loc = "checked" => saved'[req'[c].thread].next = "paused"
             /\ req'[c].loc = "working" => mem'[c].hitl = req'[c].choice
  PROVE  AloneInv'
BY DEF AloneInv, OwnAnswer

\* No node changes the answer it runs with.
LEMMA NodesKeepTheAnswer ==
  ASSUME TypeInv, NEW i \in Invocation, Nodes(i)
  PROVE  mem'[i].hitl = mem[i].hitl
<1>1. Working(i)
  BY NodeFrame
<1>2. mem \in [Invocation -> Snapshot] /\ mem[i] \in Snapshot
  BY <1>1, WorkerFacts
<1>3. QED
  BY <1>2 DEF Nodes, Graph, intake, scan, apply_fix, hitl_approval, apply_decision,
              persist_report, upload_report, Step, Snapshot

\* Requests that are under way are for a thread.
LEMMA RequestsHaveThreads ==
  ASSUME TypeInv, NEW c \in Clients, req[c].loc # "idle"
  PROVE  req[c].thread \in Thread
BY DEF TypeInv, Tidy, Threads

\* No checkpoint is written under a human who is alone with the pause.
LEMMA PauseStaysForTheirs ==
  ASSUME TypeInv, HandsInv, AloneInv, NEW c \in Clients, Alone(c),
         req[c].loc = "checked", NEW i \in Invocation, put_checkpoint(i)
  PROVE  ThreadOf(i) # req[c].thread
<1> DEFINE t == req[c].thread
<1>1. SUFFICES ASSUME ThreadOf(i) = t PROVE FALSE
  OBVIOUS
<1>2. Working(i) /\ i \in dirty /\ t \in Thread /\ WorksOn(i, t)
  BY <1>1, PutFrame DEF WorksOn
<1>3. saved[t].next = "paused" /\ offline # t /\ InHand(i, t)
      /\ \A d \in Clients \ {c} : req[d].loc # "idle" => req[d].thread # t
  BY <1>2 DEF AloneInv, OwnAnswer, Alone, HandsInv, Hands
<1>4. CASE i \in Clients
  BY <1>1, <1>2, <1>3, <1>4, WhoWorks
<1>5. CASE i = Resumer
  BY <1>1, <1>3, <1>5, WhoWorks
<1>6. CASE i \in Jobs
  <2>1. ~Answered(mem[i])
    BY <1>3, <1>6 DEF InHand
  <2>2. i \notin Clients
    BY <1>6, WhoWorks
  <2>3. QED
    BY <1>2, <1>3, <2>1, <2>2 DEF InHand, Parked, Sole
<1>7. QED
  BY <1>4, <1>5, <1>6 DEF Invocation

\* No review begins under a human who was shown its pause.
LEMMA NobodyWasAskedBefore ==
  ASSUME TypeInv, HandsInv, NEW j \in Jobs, Begins(j), NEW c \in Clients,
         req[c].loc # "idle", ~Restarted(job[j].thread)
  PROVE  req[c].thread # job[j].thread
<1> DEFINE u == job[j].thread
<1>1. u \in Thread /\ job[j].loc \in {"materialising", "cleared"} /\ j \in Starts(u)
  BY BeginFrame DEF Starts
<1>2. \A k \in Starts(u) : job[k].loc \in PreWork
  BY <1>1, OneReview DEF PreWork
<1>3. Untouched(u)
  BY <1>1, <1>2 DEF HandsInv, Hands
<1>4. QED
  BY <1>3 DEF Untouched, NobodyAsks

\* Who is alone after a step is under way, on a thread that is not contested.
LEMMA AloneNext ==
  ASSUME NEW c \in Clients, Alone(c)', NEW t, req'[c].thread = t
  PROVE  req'[c].loc # "idle" /\ req'[c].alone /\ ~Restarted(t)'
BY DEF Alone, Restarted, Starts

\* Where the requests and the threads are the same, the same are alone.
LEMMA SameAlone ==
  ASSUME \A j \in Jobs : job'[j].thread = job[j].thread,
         NEW c \in Clients, Alone(c)', req'[c] = req[c]
  PROVE  Alone(c)
<1>1. req[c].loc # "idle" /\ req[c].alone /\ ~Restarted(req[c].thread)'
  BY AloneNext
<1>2. QED
  BY <1>1, SameThreads DEF Alone

\* No step takes the pause from under a human who is alone with it.
LEMMA AloneStep ==
  ASSUME TypeInv, TypeInv', HandsInv, AloneInv, [Next]_vars
  PROVE  AloneInv'
<1>1. \A c \in Clients : Alone(c) =>
        /\ offline # req[c].thread
        /\ \A d \in Clients \ {c} : req[d].loc # "idle" => req[d].thread # req[c].thread
        /\ req[c].loc = "checked" => saved[req[c].thread].next = "paused"
        /\ req[c].loc = "working" => mem[c].hitl = req[c].choice
  BY DEF AloneInv, OwnAnswer
<1>2. CASE Halting
  <2>1. /\ WorkersContinue /\ RequestsContinue /\ TasksContinue
        /\ saved' = saved /\ offline' \in {offline, NoThread}
    BY <1>2, HaltFrame DEF HaltFacts
  <2>2. ASSUME NEW c \in Clients, Alone(c)'
        PROVE  Alone(c) /\ req'[c] = req[c] /\ req[c].thread \in Thread
               /\ (req[c].loc = "working" => mem'[c] = mem[c])
    <3>1. req'[c].loc # "idle"
      BY <2>2, AloneNext
    <3>2. req'[c] = req[c]
      BY <2>1, <3>1 DEF RequestsContinue
    <3>3. Alone(c)
      BY <2>1, <2>2, <3>2, SameAlone DEF TasksContinue
    <3>4. up'
      BY <3>1 DEF TypeInv, Tidy, NobodyWithoutProcess
    <3>5. req[c].loc = "working" => mem'[c] = mem[c]
      BY <2>1, <3>2, <3>4, WhoWorks, WhoWorksNext DEF WorkersContinue
    <3>6. QED
      BY <3>1, <3>2, <3>3, <3>5, RequestsHaveThreads
  <2>3. \A d \in Clients : req'[d].loc # "idle" => req'[d] = req[d]
    BY <2>1 DEF RequestsContinue
  <2>4. QED
    BY <1>1, <2>1, <2>2, <2>3, AloneKept, NoThreadIsNone
<1>3. ASSUME NEW j \in Jobs, Begins(j) PROVE AloneInv'
  <2> DEFINE u == job[j].thread
  <2>1. /\ req' = req /\ offline' = offline /\ u \in Thread
        /\ \A k \in Jobs : job'[k].thread = job[k].thread
        /\ \A k \in Invocation \ {j} : mem'[k] = mem[k]
        /\ \A t \in Thread \ {u} : saved'[t] = saved[t]
    BY <1>3, BeginFrame
  <2>2. ASSUME NEW c \in Clients, Alone(c)'
        PROVE  Alone(c) /\ req[c].thread \in Thread \ {u} /\ mem'[c] = mem[c]
    <3>1. Alone(c)
      BY <2>1, <2>2, SameAlone
    <3>2. req[c].loc # "idle" /\ ~Restarted(req[c].thread)
      BY <3>1 DEF Alone
    <3>3. req[c].thread \in Thread /\ req[c].thread # u
      BY <1>3, <3>2, RequestsHaveThreads, NobodyWasAskedBefore
    <3>4. QED
      BY <2>1, <3>1, <3>3, WhoWorks
  <2>3. QED
    BY <1>1, <2>1, <2>2, AloneKept
<1>4. ASSUME NEW i \in Invocation, Nodes(i) PROVE AloneInv'
  <2>1. /\ req' = req /\ offline' = offline /\ job' = job /\ saved' = saved
        /\ \A k \in Invocation \ {i} : mem'[k] = mem[k]
    BY <1>4, NodeFrame
  <2>2. \A k \in Invocation : mem'[k].hitl = mem[k].hitl
    BY <1>4, <2>1, NodesKeepTheAnswer
  <2>3. \A c \in Clients : Alone(c)' => Alone(c)
    BY <2>1, SameAlone
  <2>4. \A c \in Clients : c \in Invocation
    BY WhoWorks
  <2>5. QED
    BY <1>1, <2>1, <2>2, <2>3, <2>4, AloneKept
<1>5. ASSUME NEW i \in Invocation, put_checkpoint(i) PROVE AloneInv'
  <2>1. /\ req' = req /\ offline' = offline /\ job' = job /\ mem' = mem
        /\ \A t \in Thread \ {ThreadOf(i)} : saved'[t] = saved[t]
    BY <1>5, PutFrame
  <2>2. ASSUME NEW c \in Clients, Alone(c)'
        PROVE  Alone(c)
               /\ (req[c].loc = "checked" => req[c].thread \in Thread \ {ThreadOf(i)})
    <3>1. Alone(c)
      BY <2>1, <2>2, SameAlone
    <3>2. req[c].loc # "idle"
      BY <3>1 DEF Alone
    <3>3. QED
      BY <1>5, <3>1, <3>2, RequestsHaveThreads, PauseStaysForTheirs
  <2>3. QED
    BY <1>1, <2>1, <2>2, AloneKept
<1>6. ASSUME NEW j \in Jobs, NEW pr \in Prs, NEW kind \in Kind, NEW second \in Seconds,
             webhook_pr(j, pr, kind, second)
      PROVE  AloneInv'
  <2> DEFINE u == [pr |-> pr, at |-> second]
  <2>1. /\ req' = req /\ offline' = offline /\ mem' = mem /\ saved' = saved
        /\ ~Restarted(u)' => ~Restarted(u)
        /\ \A t \in Thread \ {u} : Restarted(t)' = Restarted(t)
    BY <1>6, WebhookFrame
  <2>2. ASSUME NEW c \in Clients, Alone(c)' PROVE Alone(c)
    <3>1. req[c].loc # "idle" /\ req[c].alone /\ ~Restarted(req[c].thread)'
      BY <2>1, <2>2, AloneNext
    <3>2. ~Restarted(req[c].thread)
      BY <2>1, <3>1, RequestsHaveThreads
    <3>3. QED
      BY <3>1, <3>2 DEF Alone
  <2>3. QED
    BY <1>1, <2>1, <2>2, AloneKept
<1>7. ASSUME NEW c \in Clients, NEW u \in Thread, NEW choice \in Choices,
             resume(c, u, choice)
      PROVE  AloneInv'
  <2>1. /\ saved[u].next = "paused" /\ saved' = saved /\ mem' = mem
        /\ offline' = offline /\ job' = job
        /\ req'[c].loc = "checked" /\ req'[c].thread = u
        /\ req'[c].alone => offline # u /\ \A e \in Requests : req[e].thread # u
        /\ \A d \in Clients \ {c} :
              /\ req'[d].loc = req[d].loc /\ req'[d].thread = req[d].thread
              /\ req'[d].choice = req[d].choice
              /\ req'[d].alone => req[d].alone /\ req[d].thread # u
    BY <1>7, AdmissionFrame
  <2>2. ASSUME Alone(c)'
        PROVE  /\ offline' # u
               /\ \A d \in Clients \ {c} : req'[d].loc # "idle" => req'[d].thread # u
    <3>1. req'[c].alone
      BY <2>2, AloneNext
    <3>2. \A d \in Clients \ {c} : req[d].loc # "idle" => d \in Requests
      BY DEF Requests
    <3>3. QED
      BY <2>1, <3>1, <3>2
  <2>3. ASSUME NEW d \in Clients \ {c}, Alone(d)'
        PROVE  Alone(d) /\ req[d].thread # u
    <3>1. req[d].loc # "idle" /\ req[d].alone /\ req[d].thread # u
          /\ ~Restarted(req[d].thread)'
      BY <2>1, <2>3, AloneNext
    <3>2. ~Restarted(req[d].thread)
      BY <2>1, <3>1, SameThreads
    <3>3. QED
      BY <3>1, <3>2 DEF Alone
  <2>4. ASSUME NEW d \in Clients \ {c}, Alone(d)'
        PROVE  /\ offline' # req'[d].thread
               /\ \A e \in Clients \ {d} :
                    req'[e].loc # "idle" => req'[e].thread # req'[d].thread
               /\ req'[d].loc = "checked" => saved'[req'[d].thread].next = "paused"
               /\ req'[d].loc = "working" => mem'[d].hitl = req'[d].choice
    BY <1>1, <2>1, <2>3, <2>4
  <2>5. ASSUME Alone(c)'
        PROVE  /\ offline' # req'[c].thread
               /\ \A e \in Clients \ {c} :
                    req'[e].loc # "idle" => req'[e].thread # req'[c].thread
               /\ req'[c].loc = "checked" => saved'[req'[c].thread].next = "paused"
               /\ req'[c].loc = "working" => mem'[c].hitl = req'[c].choice
    BY <2>1, <2>2, <2>5
  <2>6. QED
    BY <2>4, <2>5, AloneKept
<1>8. ASSUME NEW c \in Clients, resume_review(c) PROVE AloneInv'
  <2> DEFINE u == req[c].thread
  <2>1. /\ u \in Thread /\ req[c].loc = "checked" /\ req[c].choice \in Choices
        /\ req'[c].loc = "working" /\ req'[c].thread = u
        /\ req'[c].choice = req[c].choice /\ req'[c].alone = req[c].alone
        /\ \A d \in Clients \ {c} : req'[d] = req[d]
        /\ mem'[c] = Loaded(u, req[c].choice)
        /\ \A k \in Invocation \ {c} : mem'[k] = mem[k]
        /\ job' = job /\ offline' = offline /\ saved' = saved
    BY <1>8, DecisionFrame
  <2>2. ASSUME Alone(c)' PROVE Alone(c) /\ mem'[c].hitl = req[c].choice
    <3>1. req[c].alone /\ ~Restarted(u)'
      BY <2>1, <2>2, AloneNext
    <3>2. ~Restarted(u)
      BY <2>1, <3>1, SameThreads
    <3>3. Alone(c)
      BY <2>1, <3>1, <3>2 DEF Alone
    <3>4. saved[u].next = "paused"
      BY <1>1, <2>1, <3>3
    <3>5. QED
      BY <2>1, <3>3, <3>4, LoadedFacts
  <2>3. \A d \in Clients \ {c} : Alone(d)' => Alone(d)
    BY <2>1, SameAlone
  <2>4. \A d \in Clients \ {c} : mem'[d] = mem[d]
    BY <2>1, WhoWorks
  <2>5. ASSUME NEW d \in Clients \ {c}, Alone(d)'
        PROVE  /\ offline' # req'[d].thread
               /\ \A e \in Clients \ {d} :
                    req'[e].loc # "idle" => req'[e].thread # req'[d].thread
               /\ req'[d].loc = "checked" => saved'[req'[d].thread].next = "paused"
               /\ req'[d].loc = "working" => mem'[d].hitl = req'[d].choice
    BY <1>1, <2>1, <2>3, <2>4, <2>5
  <2>6. ASSUME Alone(c)'
        PROVE  /\ offline' # req'[c].thread
               /\ \A e \in Clients \ {c} :
                    req'[e].loc # "idle" => req'[e].thread # req'[c].thread
               /\ req'[c].loc = "checked" => saved'[req'[c].thread].next = "paused"
               /\ req'[c].loc = "working" => mem'[c].hitl = req'[c].choice
    BY <1>1, <2>1, <2>2, <2>6
  <2>7. QED
    BY <2>5, <2>6, AloneKept
<1>9. ASSUME NEW u \in Thread, run_resumer(u) PROVE AloneInv'
  <2>1. \A c \in Clients : req'[c].loc = "idle"
    BY <1>9, ResumerFrame
  <2>2. \A c \in Clients : ~Alone(c)'
    BY <2>1, AloneNext
  <2>3. QED
    BY <2>2, AloneKept
<1>10. QED
  BY <1>2, <1>3, <1>4, <1>5, <1>6, <1>7, <1>8, <1>9, StepKinds

\* A human whose request was alone with the thread is answered with the
\* decision they sent: nobody takes the pause from under it.
THEOREM OwnDecisionsStand == Spec => []OwnDecisionHonoured
<1>1. Init => AloneInv
  BY DEF Init, Idle, AloneInv, Alone
<1>2. TypeInv /\ TypeInv' /\ HandsInv /\ AloneInv /\ [Next]_vars => AloneInv'
  BY AloneStep
<1>3. TypeInv /\ AloneInv => OwnDecisionHonoured
  <2> SUFFICES ASSUME TypeInv, AloneInv, NEW c \in Clients, Returned(c),
                      req[c].alone, ~Restarted(req[c].thread)
               PROVE  mem[c].hitl = req[c].choice
    BY DEF OwnDecisionHonoured
  <2>1. req[c].loc = "working"
    BY WhoWorks DEF Returned
  <2>2. QED
    BY <2>1 DEF AloneInv, Alone, OwnAnswer
<1>4. QED
  BY <1>1, <1>2, <1>3, ReviewsInHand, PTL DEF Spec

-----------------------------------------------------------------------------
(***************************************************************************)
(* What a refused payload leaves behind.                                   *)
(***************************************************************************)
RefusedOnly(t) == \A j \in Starts(t) : job[j].kind \in Refused

\* The tasks of a thread whose payloads are all refused never reach the graph,
\* so there is no pause to ask about and no checkpoint to take up.
Barren == {"free", "accepted", "materialising", "done"}

NothingOf(t) ==
  /\ copy[t] = 0 /\ saved[t] = Blank /\ offline # t /\ NobodyAsks(t)
  /\ \A j \in Starts(t) : job[j].loc \in Barren

RefusedInv == \A t \in Thread : RefusedOnly(t) => NothingOf(t)

\* It is kept when it is for every thread whose payloads are all refused.
LEMMA RefusedKept ==
  ASSUME \A t \in Thread : RefusedOnly(t)' =>
           /\ copy'[t] = 0 /\ saved'[t] = Blank /\ offline' # t
           /\ \A c \in Clients : req'[c].loc # "idle" => req'[c].thread # t
           /\ \A j \in Jobs : job'[j].thread = t => job'[j].loc \in Barren
  PROVE  RefusedInv'
BY DEF RefusedInv, NothingOf, NobodyAsks, Starts

\* The same, unfolded.
LEMMA NothingYet ==
  ASSUME RefusedInv, NEW t \in Thread, RefusedOnly(t)
  PROVE  /\ copy[t] = 0 /\ saved[t] = Blank /\ offline # t
         /\ \A c \in Clients : req[c].loc # "idle" => req[c].thread # t
         /\ \A j \in Jobs : job[j].thread = t =>
              job[j].loc \in Barren /\ job[j].kind \in Refused
BY DEF RefusedInv, RefusedOnly, NothingOf, NobodyAsks, Starts

\* No step makes a payload a refused one.
LEMMA RefusedBefore ==
  ASSUME \A j \in Jobs : /\ job'[j].thread = job[j].thread
                         /\ job'[j].kind \in Refused => job[j].kind \in Refused,
         NEW t \in Thread, RefusedOnly(t)'
  PROVE  RefusedOnly(t)
BY DEF RefusedOnly, Starts

\* Nobody works on such a thread.
LEMMA NobodyWorksThere ==
  ASSUME TypeInv, RefusedInv, NEW t \in Thread, RefusedOnly(t),
         NEW i \in Invocation, Working(i)
  PROVE  ThreadOf(i) # t
<1>1. CASE i \in Jobs
  BY <1>1, WhoWorks, NothingYet DEF At, Barren
<1>2. CASE i \in Clients
  BY <1>2, WhoWorks, NothingYet
<1>3. CASE i = Resumer
  BY <1>3, WhoWorks, NothingYet
<1>4. QED
  BY <1>1, <1>2, <1>3 DEF Invocation

\* Only a task of another thread does more than begin and be refused.
LEMMA TaskIsRefused ==
  ASSUME TypeInv, RefusedInv, NEW t \in Thread, RefusedOnly(t),
         NEW j \in Jobs, TaskHalts(j)
  PROVE  /\ copy'[t] = 0
         /\ \A k \in Jobs : job[k].thread = t => job'[k].loc \in Barren
<1>1. /\ up /\ job[j].loc # "free" /\ \A k \in Jobs \ {j} : job'[k] = job[k]
  BY TaskFrame
<1>2. /\ job \in [Jobs -> JobRecord] /\ job[j].thread \in Thread
      /\ copy \in [Thread -> Nat] /\ copy[t] = 0
      /\ \A k \in Jobs : job[k].thread = t =>
            job[k].loc \in Barren /\ job[k].kind \in Refused
  BY <1>1, TaskFacts, NothingYet
<1>3. CASE job[j].thread = t
  <2>1. job[j].loc \in {"accepted", "materialising", "done"} /\ job[j].kind \in Refused
    BY <1>1, <1>2, <1>3 DEF Barren
  <2>2. job[j].kind \notin Fixture /\ job[j].kind \notin {"inline", "escaping"}
    BY <2>1 DEF Refused, enforce, load_pull_request_raises, detect_injection, Fixture
  <2>3. run_review(j) \/ materialise_refuses(j)
    <3>1. job[j].loc \notin {"cleared", "working", "returned"}
      BY <2>1
    <3>2. ~materialize_clear(j) /\ ~materialize_raises(j) /\ ~materialise_escapes(j)
      BY <2>2, <3>1 DEF materialize_clear, materialize_raises, materialise_escapes, At
    <3>3. ~invoke_returns(j) /\ ~run_review_ends(j)
      BY <3>1, WhoWorks DEF invoke_returns, run_review_ends, Returned, At
    <3>4. QED
      BY <3>2, <3>3 DEF TaskHalts, Task
  <2>4. copy' = copy /\ job'[j].loc \in {"materialising", "done"}
    BY <1>2, <2>3 DEF run_review, materialise_refuses, Fails, disk, JobRecord
  <2>5. QED
    BY <1>1, <1>2, <2>4 DEF Barren
<1>4. CASE job[j].thread # t
  <2>1. copy'[t] = copy[t]
    BY <1>2, <1>4
    DEF TaskHalts, Task, run_review, materialize_clear, materialize_raises,
        materialise_refuses, materialise_escapes, invoke_returns, run_review_ends, disk
  <2>2. QED
    BY <1>1, <1>2, <1>4, <2>1
<1>5. QED
  BY <1>3, <1>4

\* Whoever stops leaves the thread as it is.
LEMMA HaltingLeavesNothing ==
  ASSUME TypeInv, RefusedInv, NEW t \in Thread, RefusedOnly(t), Halting
  PROVE  /\ copy'[t] = 0
         /\ \A k \in Jobs : job[k].thread = t => job'[k].loc \in Barren
<1>1. /\ copy[t] = 0
      /\ \A k \in Jobs : job[k].thread = t => job[k].loc \in Barren
  BY NothingYet
<1>2. ASSUME NEW j \in Jobs, TaskHalts(j)
      PROVE  /\ copy'[t] = 0
             /\ \A k \in Jobs : job[k].thread = t => job'[k].loc \in Barren
  BY <1>2, TaskIsRefused
<1>3. ASSUME NEW i \in Invocation, node_raises(i)
      PROVE  /\ copy'[t] = 0
             /\ \A k \in Jobs : job[k].thread = t => job'[k].loc \in Barren
  <2>1. copy'[t] = 0
    <3>1. ThreadOf(i) # t /\ ThreadOf(i) \in Thread /\ copy \in [Thread -> Nat]
      BY <1>3, RaiseFacts, NobodyWorksThere, WorkerFacts
    <3>2. copy' = copy \/ copy' = [copy EXCEPT ![ThreadOf(i)] = @ + 1]
      BY <1>3, RaiseFacts
    <3>3. QED
      BY <1>1, <3>1, <3>2
  <2>2. CASE i \notin Jobs
    <3>1. job' = job
      BY <1>3, <2>2, LeaverFrame
    <3>2. QED
      BY <1>1, <2>1, <3>1
  <2>3. CASE i \in Jobs
    <3>1. job' = [job EXCEPT ![i].loc = "done"] /\ job \in [Jobs -> JobRecord]
      BY <1>3, <2>3, RaiseFacts, TaskFacts DEF Fails
    <3>2. QED
      BY <1>1, <2>1, <2>3, <3>1 DEF Barren, JobRecord
  <2>4. QED
    BY <2>2, <2>3
<1>4. ASSUME crash
      PROVE  /\ copy'[t] = 0
             /\ \A k \in Jobs : job[k].thread = t => job'[k].loc \in Barren
  BY <1>1, <1>4, DeathFrame DEF Barren
<1>5. ASSUME \/ \E c \in Clients : resume_responds(c)
             \/ resumer_exits \/ restart \/ UNCHANGED vars
      PROVE  copy' = copy /\ job' = job
  BY <1>5 DEF resume_responds, resumer_exits, restart, vars, memory, disk
<1>6. QED
  BY <1>1, <1>2, <1>3, <1>4, <1>5 DEF Halting

\* No step leaves anything of a refused payload.
LEMMA RefusedStep ==
  ASSUME TypeInv, RefusedInv, [Next]_vars
  PROVE  RefusedInv'
<1>1. CASE Halting
  <2>1. /\ RequestsContinue /\ TasksContinue /\ saved' = saved
        /\ offline' \in {offline, NoThread}
    BY <1>1, HaltFrame DEF HaltFacts
  <2>2. \A t \in Thread : RefusedOnly(t)' => RefusedOnly(t)
    BY <2>1, RefusedBefore DEF TasksContinue
  <2>3. \A t \in Thread : RefusedOnly(t)' =>
          /\ copy'[t] = 0
          /\ \A k \in Jobs : job'[k].thread = t => job'[k].loc \in Barren
    BY <1>1, <2>1, <2>2, HaltingLeavesNothing DEF TasksContinue
  <2>4. \A c \in Clients : req'[c].loc # "idle" => req'[c] = req[c]
    BY <2>1 DEF RequestsContinue
  <2>5. ASSUME NEW t \in Thread, RefusedOnly(t)'
        PROVE  /\ saved'[t] = Blank /\ offline' # t
               /\ \A c \in Clients : req'[c].loc # "idle" => req'[c].thread # t
    BY <2>1, <2>2, <2>4, <2>5, NothingYet, NoThreadIsNone
  <2>6. QED
    BY <2>3, <2>5, RefusedKept
<1>2. ASSUME NEW j \in Jobs, Begins(j) PROVE RefusedInv'
  <2> DEFINE u == job[j].thread
  <2>1. /\ u \in Thread /\ job[j].loc \in {"materialising", "cleared"}
        /\ job[j].kind \notin Refused \/ job[j].loc = "cleared"
        /\ \A k \in Jobs \ {j} : job'[k] = job[k]
        /\ \A k \in Jobs : job'[k].thread = job[k].thread
        /\ job'[j].kind \in Refused => job[j].kind \in Refused
        /\ \A t \in Thread \ {u} : saved'[t] = saved[t]
        /\ \A t \in Thread \ {u} : copy'[t] = copy[t]
        /\ req' = req /\ offline' = offline
    BY <1>2, BeginFrame
  <2>2. \A t \in Thread : RefusedOnly(t)' => RefusedOnly(t)
    BY <2>1, RefusedBefore
  <2>3. ASSUME NEW t \in Thread, RefusedOnly(t) PROVE t # u
    BY <2>1, <2>3, NothingYet DEF Barren
  <2>4. ASSUME NEW t \in Thread, RefusedOnly(t)'
        PROVE  \A k \in Jobs : job'[k].thread = t => job'[k].loc \in Barren
    BY <2>1, <2>2, <2>3, <2>4, NothingYet
  <2>5. \A t \in Thread : RefusedOnly(t)' => t \in Thread \ {u}
    BY <2>2, <2>3
  <2>6. \A t \in Thread : RefusedOnly(t)' =>
          copy'[t] = copy[t] /\ saved'[t] = saved[t] /\ RefusedOnly(t)
    BY <2>1, <2>2, <2>5
  <2>7. QED
    BY <2>1, <2>4, <2>6, NothingYet, RefusedKept
<1>3. ASSUME NEW i \in Invocation, Nodes(i) PROVE RefusedInv'
  <2>1. Working(i) /\ job' = job /\ req' = req /\ offline' = offline /\ saved' = saved
    BY <1>3, NodeFrame
  <2>2. copy \in [Thread -> Nat]
    BY <2>1, WorkerFacts
  <2>3. \A t \in Thread \ {ThreadOf(i)} : copy'[t] = copy[t]
    BY <1>3, <2>2
    DEF Nodes, Graph, intake, scan, apply_fix, Patches, hitl_approval, apply_decision,
        persist_report, upload_report
  <2>4. \A t \in Thread : RefusedOnly(t)' => RefusedOnly(t)
    BY <2>1, RefusedBefore
  <2>5. \A t \in Thread : RefusedOnly(t)' => copy'[t] = 0
    BY <2>1, <2>3, <2>4, NobodyWorksThere, NothingYet
  <2>6. QED
    BY <2>1, <2>4, <2>5, NothingYet, RefusedKept
<1>4. ASSUME NEW i \in Invocation, put_checkpoint(i) PROVE RefusedInv'
  <2>1. /\ Working(i) /\ job' = job /\ req' = req /\ offline' = offline /\ copy' = copy
        /\ \A t \in Thread \ {ThreadOf(i)} : saved'[t] = saved[t]
    BY <1>4, PutFrame
  <2>2. \A t \in Thread : RefusedOnly(t)' => RefusedOnly(t)
    BY <2>1, RefusedBefore
  <2>3. \A t \in Thread : RefusedOnly(t)' => saved'[t] = Blank
    BY <2>1, <2>2, NobodyWorksThere, NothingYet
  <2>4. QED
    BY <2>1, <2>2, <2>3, NothingYet, RefusedKept
<1>5. ASSUME NEW j \in Jobs, NEW pr \in Prs, NEW kind \in Kind, NEW second \in Seconds,
             webhook_pr(j, pr, kind, second)
      PROVE  RefusedInv'
  <2>1. /\ job'[j].loc = "accepted" /\ \A k \in Jobs \ {j} : job'[k] = job[k]
        /\ \A t \in Thread : j \notin Starts(t)
        /\ req' = req /\ offline' = offline /\ saved' = saved /\ copy' = copy
    BY <1>5, WebhookFrame
  <2>2. ASSUME NEW t \in Thread, RefusedOnly(t)' PROVE RefusedOnly(t)
    <3>1. \A k \in Starts(t) : k \in Jobs \ {j} /\ job'[k].thread = t
      BY <2>1 DEF Starts
    <3>2. \A k \in Jobs : job'[k].thread = t => job'[k].kind \in Refused
      BY <2>2 DEF RefusedOnly, Starts
    <3>3. QED
      BY <2>1, <3>1, <3>2 DEF RefusedOnly
  <2>3. ASSUME NEW t \in Thread, RefusedOnly(t)'
        PROVE  \A k \in Jobs : job'[k].thread = t => job'[k].loc \in Barren
    <3>1. \A k \in Jobs \ {j} : job'[k].thread = t => job'[k].loc \in Barren
      BY <2>1, <2>2, <2>3, NothingYet
    <3>2. QED
      BY <2>1, <3>1 DEF Barren
  <2>4. QED
    BY <2>1, <2>2, <2>3, NothingYet, RefusedKept
<1>6. ASSUME NEW c \in Clients, NEW u \in Thread, NEW choice \in Choices,
             resume(c, u, choice)
      PROVE  RefusedInv'
  <2>1. /\ saved[u].next = "paused" /\ req'[c].thread = u
        /\ \A d \in Clients \ {c} : req'[d].loc = req[d].loc /\ req'[d].thread = req[d].thread
        /\ job' = job /\ offline' = offline /\ saved' = saved /\ copy' = copy
    BY <1>6, AdmissionFrame
  <2>2. \A t \in Thread : RefusedOnly(t)' => RefusedOnly(t)
    BY <2>1, RefusedBefore
  <2>3. ASSUME NEW t \in Thread, RefusedOnly(t) PROVE t # u
    <3>1. saved[t].next = "none"
      BY <2>3, NothingYet DEF Blank
    <3>2. QED
      BY <2>1, <3>1
  <2>4. QED
    BY <2>1, <2>2, <2>3, NothingYet, RefusedKept
<1>7. ASSUME NEW c \in Clients, resume_review(c) PROVE RefusedInv'
  <2>1. /\ req[c].loc = "checked" /\ req'[c].thread = req[c].thread
        /\ \A d \in Clients \ {c} : req'[d] = req[d]
        /\ job' = job /\ offline' = offline /\ saved' = saved /\ copy' = copy
    BY <1>7, DecisionFrame
  <2>2. \A t \in Thread : RefusedOnly(t)' => RefusedOnly(t)
    BY <2>1, RefusedBefore
  <2>3. QED
    BY <2>1, <2>2, NothingYet, RefusedKept
<1>8. ASSUME NEW u \in Thread, run_resumer(u) PROVE RefusedInv'
  <2>1. /\ saved[u].next # "none" /\ offline' = u
        /\ job' = job /\ req' = req /\ saved' = saved /\ copy' = copy
    BY <1>8, ResumerFrame
  <2>2. \A t \in Thread : RefusedOnly(t)' => RefusedOnly(t)
    BY <2>1, RefusedBefore
  <2>3. ASSUME NEW t \in Thread, RefusedOnly(t) PROVE t # u
    <3>1. saved[t].next = "none"
      BY <2>3, NothingYet DEF Blank
    <3>2. QED
      BY <2>1, <3>1
  <2>4. QED
    BY <2>1, <2>2, <2>3, NothingYet, RefusedKept
<1>9. QED
  BY <1>1, <1>2, <1>3, <1>4, <1>5, <1>6, <1>7, <1>8, StepKinds

\* However often the process dies and the resumer runs, a thread whose payloads
\* are all refused has neither a working copy nor a checkpoint.
THEOREM RefusalsLeaveNothing == Spec => []RefusedLeavesNothing
<1>1. Init => RefusedInv
  <2> SUFFICES ASSUME Init PROVE RefusedInv
    OBVIOUS
  <2>1. /\ copy = [t \in Thread |-> 0] /\ saved = [t \in Thread |-> Blank]
        /\ offline = NoThread /\ \A c \in Clients : req[c].loc = "idle"
        /\ \A j \in Jobs : job[j].loc = "free"
    BY DEF Init, Idle, NoJob
  <2>2. QED
    BY <2>1, NoThreadIsNone DEF RefusedInv, NothingOf, NobodyAsks, Starts, Barren
<1>2. TypeInv /\ RefusedInv /\ [Next]_vars => RefusedInv'
  BY RefusedStep
<1>3. RefusedInv => RefusedLeavesNothing
  BY DEF RefusedInv, RefusedOnly, NothingOf, RefusedLeavesNothing, Blank
<1>4. Spec => []TypeInv
  BY ServiceTypes DEF TypeInv
<1>5. QED
  BY <1>1, <1>2, <1>3, <1>4, PTL DEF Spec

-----------------------------------------------------------------------------
(***************************************************************************)
(* The code a verdict is about.                                            *)
(***************************************************************************)
Analysing == {"intake", "scan", "fix"}

\* What a snapshot says of a working copy that is at version n.
OnTheCode(s, n) ==
  /\ s.patched => n > 1
  /\ s.next = "intake" => s.seen = 0
  /\ s.next \in Concluding => s.seen \in {0, n}

\* The checkpoint and everyone under way say what is so, and as long as the
\* analysis runs the checkpoint does not conclude it.
Code(t) ==
  /\ OnTheCode(saved[t], copy[t])
  /\ \A i \in Invocation : WorksOn(i, t) =>
       /\ OnTheCode(mem[i], copy[t])
       /\ mem[i].next \in Analysing => saved[t].next \in Analysing

CodeInv == \A t \in Thread : ~Restarted(t) => Code(t)

\* It is kept when it is for every thread with one review.
LEMMA CodeKept ==
  ASSUME \A t \in Thread : ~Restarted(t)' =>
           /\ OnTheCode(saved'[t], copy'[t])
           /\ \A i \in Invocation : Working(i)' /\ ThreadOf(i)' = t =>
                /\ OnTheCode(mem'[i], copy'[t])
                /\ mem'[i].next \in Analysing => saved'[t].next \in Analysing
  PROVE  CodeInv'
BY DEF CodeInv, Code, WorksOn, OnTheCode

\* The same, unfolded.
LEMMA CodeNow ==
  ASSUME CodeInv, NEW t \in Thread, ~Restarted(t)
  PROVE  /\ OnTheCode(saved[t], copy[t])
         /\ \A i \in Invocation : Working(i) /\ ThreadOf(i) = t =>
              /\ OnTheCode(mem[i], copy[t])
              /\ mem[i].next \in Analysing => saved[t].next \in Analysing
BY DEF CodeInv, Code, WorksOn

\* Whoever analyses is alone with the thread.
LEMMA AnalystIsAlone ==
  ASSUME HandsInv, NEW t \in Thread, ~Restarted(t), NEW i \in Invocation,
         WorksOn(i, t), mem[i].next \in Analysing
  PROVE  Sole(i, t)
<1>1. InHand(i, t) /\ mem[i].next \notin Decided /\ mem[i].next # "paused"
  BY DEF HandsInv, Hands, Analysing, Decided
<1>2. QED
  BY <1>1 DEF InHand, Parked

\* Until the review begins there is nothing that could speak of the code.
LEMMA NothingToSayYet ==
  ASSUME TypeInv, HandsInv, NEW j \in Jobs, job[j].loc \in PreWork,
         NEW t \in Thread, job[j].thread = t, ~Restarted(t)
  PROVE  saved[t] = Blank /\ \A i \in Invocation : ~(Working(i) /\ ThreadOf(i) = t)
<1>1. Hands(t) /\ j \in Starts(t)
  BY DEF HandsInv, Starts
<1>2. \A k \in Starts(t) : job[k].loc \in PreWork
  BY <1>1, OneReview
<1>3. QED
  BY <1>1, <1>2, WorkedOnIsTouched DEF Hands, Untouched, WorksOn

\* Blank says nothing of any code.
LEMMA BlankSaysNothing ==
  ASSUME NEW n
  PROVE  OnTheCode(Blank, n)
BY DEF OnTheCode, Blank, Concluding

\* A task that prepares or stops changes no working copy that is spoken of.
LEMMA TaskSparesTheCode ==
  ASSUME TypeInv, HandsInv, NEW j \in Jobs, TaskHalts(j),
         NEW t \in Thread, ~Restarted(t), copy'[t] # copy[t]
  PROVE  saved[t] = Blank /\ \A i \in Invocation : ~(Working(i) /\ ThreadOf(i) = t)
<1>1. up /\ job[j].loc # "free" /\ job[j].thread \in Thread /\ copy \in [Thread -> Nat]
  BY TaskFrame, TaskFacts
<1>2. materialize_clear(j) \/ materialise_escapes(j)
  BY DEF TaskHalts, Task, run_review, materialize_raises, materialise_refuses,
         invoke_returns, run_review_ends, disk
<1>3. job[j].loc \in PreWork
  BY <1>2 DEF materialize_clear, materialise_escapes, At, PreWork
<1>4. job[j].thread = t
  BY <1>1, <1>2 DEF materialize_clear, materialise_escapes
<1>5. QED
  BY <1>3, <1>4, NothingToSayYet

\* A pass that raises may have patched, and has nobody beside it.
LEMMA RaisingSparesTheCode ==
  ASSUME TypeInv, HandsInv, CodeInv, NEW i \in Invocation, node_raises(i),
         NEW t \in Thread, ~Restarted(t), copy'[t] # copy[t]
  PROVE  /\ OnTheCode(saved[t], copy'[t])
         /\ \A k \in Invocation : ~(Working(k)' /\ ThreadOf(k)' = t)
<1>1. /\ Working(i) /\ mem[i].next = "fix" /\ ThreadOf(i) = t
      /\ copy[t] \in Nat /\ copy[t] > 0 /\ copy'[t] = copy[t] + 1
  BY RaiseFacts, WorkerFacts
<1>2. Sole(i, t) /\ saved[t].next \in Analysing /\ OnTheCode(saved[t], copy[t])
  BY <1>1, AnalystIsAlone, CodeNow DEF WorksOn, Analysing
<1>3. OnTheCode(saved[t], copy'[t])
  BY <1>1, <1>2 DEF OnTheCode, Analysing, Concluding
<1>4. \A k \in Invocation : Working(k)' => Working(k) /\ ThreadOf(k)' = ThreadOf(k)
  BY HaltFrame DEF Halting, HaltFacts, WorkersContinue
<1>5. ~Working(i)'
  <2>1. CASE i \in Jobs
    <3>1. job' = [job EXCEPT ![i].loc = "done"] /\ job \in [Jobs -> JobRecord]
      BY <2>1, RaiseFacts, TaskFacts DEF Fails
    <3>2. QED
      BY <2>1, <3>1, WhoWorksNext DEF At, JobRecord
  <2>2. CASE i \notin Jobs
    <3>1. /\ \A c \in Clients : req'[c] = IF c = i THEN Idle ELSE req[c]
          /\ offline' = IF i = Resumer THEN NoThread ELSE offline
      BY <2>2, LeaverFrame
    <3>2. QED
      BY <2>2, <3>1, WhoWorksNext DEF Invocation, Idle
  <2>3. QED
    BY <2>1, <2>2
<1>6. QED
  BY <1>2, <1>3, <1>4, <1>5 DEF Sole, WorksOn

\* Whoever halts changes no working copy that is spoken of otherwise.
LEMMA HaltingSparesTheCode ==
  ASSUME TypeInv, HandsInv, CodeInv, Halting, NEW t \in Thread, ~Restarted(t),
         copy'[t] # copy[t]
  PROVE  /\ OnTheCode(saved[t], copy'[t])
         /\ \A k \in Invocation : ~(Working(k)' /\ ThreadOf(k)' = t)
<1>1. CASE \E j \in Jobs : TaskHalts(j)
  <2>1. saved[t] = Blank /\ \A i \in Invocation : ~(Working(i) /\ ThreadOf(i) = t)
    BY <1>1, TaskSparesTheCode
  <2>2. \A k \in Invocation : Working(k)' => Working(k) /\ ThreadOf(k)' = ThreadOf(k)
    BY HaltFrame DEF HaltFacts, WorkersContinue
  <2>3. QED
    BY <2>1, <2>2, BlankSaysNothing
<1>2. CASE \E i \in Invocation : node_raises(i)
  BY <1>2, RaisingSparesTheCode
<1>3. CASE ~(\E j \in Jobs : TaskHalts(j)) /\ ~(\E i \in Invocation : node_raises(i))
  BY <1>3 DEF Halting, resume_responds, resumer_exits, crash, restart, vars, disk
<1>4. QED
  BY <1>1, <1>2, <1>3

\* What a node makes of a snapshot that is on the code is on the code.
LEMMA NodeIsOnTheCode ==
  ASSUME TypeInv, HandsInv, CodeInv, NEW i \in Invocation, Nodes(i),
         ~Restarted(ThreadOf(i))
  PROVE  LET t == ThreadOf(i) IN
         /\ OnTheCode(mem'[i], copy'[t])
         /\ mem'[i].next \in Analysing => saved[t].next \in Analysing
         /\ copy'[t] # copy[t] =>
              /\ Sole(i, t) /\ saved[t].next \in Analysing
              /\ copy[t] \in Nat /\ copy'[t] = copy[t] + 1
<1> DEFINE t == ThreadOf(i)
<1>1. Working(i) /\ t \in Thread /\ WorksOn(i, t)
      /\ mem \in [Invocation -> Snapshot] /\ mem[i] \in Snapshot
      /\ copy \in [Thread -> Nat] /\ copy[t] \in Nat
  BY NodeFrame, WorkerFacts DEF WorksOn
<1>2. /\ OnTheCode(mem[i], copy[t])
      /\ mem[i].next \in Analysing => saved[t].next \in Analysing
  BY <1>1, CodeNow
<1>3. CASE intake(i) \/ scan(i)
  <2>1. copy' = copy
    BY <1>3 DEF intake, scan
  <2>2. mem[i].next \in {"intake", "scan"} /\ mem[i].next \in Analysing
    BY <1>3 DEF intake, scan, AtNode, Analysing
  <2>3. CASE intake(i)
    <3>1. mem[i].seen = 0 /\ (mem[i].patched => copy[t] > 1)
      BY <1>2, <2>3 DEF OnTheCode, intake, AtNode
    <3>2. \E next \in {"report", "scan"} : mem' = [mem EXCEPT ![i] = [mem[i] EXCEPT !.next = next]]
      BY <2>3 DEF intake, Step
    <3>3. mem'[i].seen = 0 /\ mem'[i].patched = mem[i].patched /\ mem'[i].next # "intake"
      BY <1>1, <3>1, <3>2 DEF Snapshot
    <3>4. QED
      BY <1>2, <2>1, <2>2, <3>1, <3>3 DEF OnTheCode
  <2>4. CASE scan(i)
    <3>1. \E next \in {"hitl", "report", "fix"} :
             mem' = [mem EXCEPT ![i] = [mem[i] EXCEPT !.seen = copy[t], !.next = next]]
      BY <2>4 DEF scan, Step
    <3>2. mem'[i].seen = copy[t] /\ mem'[i].patched = mem[i].patched /\ mem'[i].next # "intake"
      BY <1>1, <3>1 DEF Snapshot
    <3>3. QED
      BY <1>2, <2>1, <2>2, <3>2 DEF OnTheCode
  <2>5. QED
    BY <1>3, <2>3, <2>4
<1>4. CASE apply_fix(i)
  <2>1. mem[i].next = "fix" /\ mem[i].next \in Analysing
    BY <1>4 DEF apply_fix, AtNode, Analysing
  <2>2. Sole(i, t) /\ saved[t].next \in Analysing
    BY <1>1, <1>2, <2>1, AnalystIsAlone
  <2>3. CASE copy' = copy
    <3>1. /\ \/ mem' = [mem EXCEPT ![i] = [mem[i] EXCEPT !.next = "scan", !.iteration = @ + 1]]
             \/ copy' = [copy EXCEPT ![t] = @ + 1]
      BY <1>4 DEF apply_fix, Patches, Step
    <3>2. copy' # [copy EXCEPT ![t] = @ + 1]
      BY <1>1, <2>3
    <3>3. mem'[i].patched = mem[i].patched /\ mem'[i].next = "scan"
      BY <1>1, <3>1, <3>2 DEF Snapshot
    <3>4. QED
      BY <1>2, <2>2, <2>3, <3>3 DEF OnTheCode, Concluding
  <2>4. CASE copy' # copy
    <3>1. /\ Patches(i) /\ copy' = [copy EXCEPT ![t] = @ + 1]
          /\ mem' = [mem EXCEPT ![i] = [mem[i] EXCEPT !.patched = TRUE, !.next = "scan",
                                                      !.iteration = @ + 1]]
      BY <1>4, <2>4 DEF apply_fix, Patches, Step
    <3>2. copy[t] >= 1 /\ copy'[t] = copy[t] + 1
      BY <1>1, <3>1, MaxPatchesAssumption DEF Patches, CanPatch
    <3>3. copy'[t] > 1
      BY <1>1, <3>2
    <3>4. mem'[i].next = "scan"
      BY <1>1, <3>1 DEF Snapshot
    <3>5. QED
      BY <1>1, <2>2, <3>2, <3>3, <3>4 DEF OnTheCode, Concluding
  <2>5. QED
    BY <2>3, <2>4
<1>5. CASE hitl_approval(i) \/ apply_decision(i) \/ persist_report(i) \/ upload_report(i)
  <2>1. copy' = copy /\ mem[i].next \in Concluding
    BY <1>5 DEF hitl_approval, apply_decision, persist_report, upload_report, AtNode, Concluding
  <2>2. \/ \E next \in {"paused", "report", "end"} :
             mem' = [mem EXCEPT ![i] = [mem[i] EXCEPT !.next = next]]
        \/ \E now \in Reading(t) :
             mem' = [mem EXCEPT ![i] = [mem[i] EXCEPT !.next = "upload", !.path = now]]
    BY <1>5 DEF hitl_approval, apply_decision, persist_report, upload_report, Step
  <2>3. /\ mem'[i].seen = mem[i].seen /\ mem'[i].patched = mem[i].patched
        /\ mem'[i].next \in {"paused", "report", "end", "upload"}
    BY <1>1, <2>2 DEF Snapshot
  <2>4. QED
    BY <1>2, <2>1, <2>3 DEF OnTheCode, Analysing
<1>6. QED
  BY <1>3, <1>4, <1>5 DEF Nodes, Graph

\* A snapshot that is loaded is on the code as the checkpoint is.
LEMMA LoadedIsOnTheCode ==
  ASSUME TypeInv, NEW t \in Thread, NEW choice \in Choices,
         OnTheCode(saved[t], copy[t])
  PROVE  LET s == Loaded(t, choice) IN
         /\ OnTheCode(s, copy[t])
         /\ s.next \in Analysing => saved[t].next \in Analysing
<1> DEFINE s == Loaded(t, choice)
<1>1. saved[t] \in Snapshot
  BY DEF TypeInv, ServiceTypeOK
<1>2. CASE saved[t].next \in {"paused", "hitl"}
  <2>1. s.next = "decide" /\ s.seen = saved[t].seen /\ s.patched = saved[t].patched
    BY <1>1, <1>2 DEF Loaded, Snapshot
  <2>2. QED
    BY <1>2, <2>1 DEF OnTheCode, Concluding, Analysing
<1>3. CASE saved[t].next \notin {"paused", "hitl"}
  BY <1>3 DEF Loaded
<1>4. QED
  BY <1>2, <1>3

\* Every step keeps what is said of the code true.
LEMMA CodeStep ==
  ASSUME TypeInv, HandsInv, CodeInv, [Next]_vars
  PROVE  CodeInv'
<1>1. ASSUME NEW t \in Thread, ~Restarted(t)
      PROVE  /\ OnTheCode(saved[t], copy[t])
             /\ \A k \in Invocation : Working(k) /\ ThreadOf(k) = t =>
                  /\ OnTheCode(mem[k], copy[t])
                  /\ mem[k].next \in Analysing => saved[t].next \in Analysing
  BY <1>1, CodeNow
<1>2. CASE Halting
  <2>1. /\ WorkersContinue /\ TasksContinue /\ saved' = saved
    BY <1>2, HaltFrame DEF HaltFacts
  <2>2. \A k \in Invocation : Working(k)' =>
          Working(k) /\ ThreadOf(k)' = ThreadOf(k) /\ mem'[k] = mem[k]
    BY <2>1 DEF WorkersContinue
  <2>3. \A t \in Thread : ~Restarted(t)' => ~Restarted(t)
    BY <2>1, SameThreads DEF TasksContinue
  <2>4. ASSUME NEW t \in Thread, ~Restarted(t)'
        PROVE  /\ OnTheCode(saved'[t], copy'[t])
               /\ \A k \in Invocation : Working(k)' /\ ThreadOf(k)' = t =>
                    /\ OnTheCode(mem'[k], copy'[t])
                    /\ mem'[k].next \in Analysing => saved'[t].next \in Analysing
    <3>1. ~Restarted(t)
      BY <2>3, <2>4
    <3>2. CASE copy'[t] = copy[t]
      BY <1>1, <2>1, <2>2, <3>1, <3>2
    <3>3. CASE copy'[t] # copy[t]
      <4>1. /\ OnTheCode(saved[t], copy'[t])
            /\ \A k \in Invocation : ~(Working(k)' /\ ThreadOf(k)' = t)
        BY <1>2, <3>1, <3>3, HaltingSparesTheCode
      <4>2. QED
        BY <2>1, <4>1
    <3>4. QED
      BY <3>2, <3>3
  <2>5. QED
    BY <2>4, CodeKept
<1>3. ASSUME NEW j \in Jobs, Begins(j) PROVE CodeInv'
  <2> DEFINE u == job[j].thread
  <2>1. /\ u \in Thread /\ job[j].loc \in {"materialising", "cleared"}
        /\ \A k \in Jobs : job'[k].thread = job[k].thread
        /\ mem'[j].next = "intake" /\ mem'[j].seen = 0
        /\ mem'[j].patched = saved[u].patched
        /\ \A k \in Invocation \ {j} : mem'[k] = mem[k]
        /\ saved'[u] = mem'[j] /\ \A t \in Thread \ {u} : saved'[t] = saved[t]
        /\ Working(j)' /\ ThreadOf(j)' = u
        /\ \A k \in Invocation \ {j} : (Working(k)' <=> Working(k))
                                       /\ ThreadOf(k)' = ThreadOf(k)
        /\ \A t \in Thread \ {u} : copy'[t] = copy[t]
    BY <1>3, BeginFrame
  <2>2. \A t \in Thread : ~Restarted(t)' => ~Restarted(t)
    BY <2>1, SameThreads
  <2>3. ASSUME NEW t \in Thread, t = u, ~Restarted(t)'
        PROVE  /\ OnTheCode(saved'[t], copy'[t])
               /\ \A k \in Invocation : Working(k)' /\ ThreadOf(k)' = t =>
                    /\ OnTheCode(mem'[k], copy'[t])
                    /\ mem'[k].next \in Analysing => saved'[t].next \in Analysing
    <3>1. saved[u] = Blank /\ \A k \in Invocation : ~(Working(k) /\ ThreadOf(k) = u)
      BY <2>1, <2>2, <2>3, NothingToSayYet DEF PreWork
    <3>2. ~mem'[j].patched
      BY <2>1, <3>1 DEF Blank
    <3>3. OnTheCode(mem'[j], copy'[u]) /\ mem'[j].next \in Analysing
      BY <2>1, <3>2 DEF OnTheCode, Concluding, Analysing
    <3>4. QED
      BY <2>1, <2>3, <3>1, <3>3
  <2>4. ASSUME NEW t \in Thread \ {u}, ~Restarted(t)'
        PROVE  /\ OnTheCode(saved'[t], copy'[t])
               /\ \A k \in Invocation : Working(k)' /\ ThreadOf(k)' = t =>
                    /\ OnTheCode(mem'[k], copy'[t])
                    /\ mem'[k].next \in Analysing => saved'[t].next \in Analysing
    BY <1>1, <2>1, <2>2, <2>4
  <2>5. QED
    BY <2>3, <2>4, CodeKept
<1>4. ASSUME NEW i \in Invocation, Nodes(i) PROVE CodeInv'
  <2> DEFINE u == ThreadOf(i)
  <2>1. /\ Working(i) /\ u \in Thread /\ copy \in [Thread -> Nat]
        /\ \A k \in Invocation : (Working(k)' <=> Working(k)) /\ ThreadOf(k)' = ThreadOf(k)
        /\ \A k \in Invocation \ {i} : mem'[k] = mem[k]
        /\ job' = job /\ saved' = saved
    BY <1>4, NodeFrame, WorkerFacts
  <2>2. \A t \in Thread \ {u} : copy'[t] = copy[t]
    BY <1>4, <2>1
    DEF Nodes, Graph, intake, scan, apply_fix, Patches, hitl_approval, apply_decision,
        persist_report, upload_report
  <2>3. \A t \in Thread : ~Restarted(t)' => ~Restarted(t)
    BY <2>1, SameThreads
  <2>4. ASSUME NEW t \in Thread, t = u, ~Restarted(t)'
        PROVE  /\ OnTheCode(saved'[t], copy'[t])
               /\ \A k \in Invocation : Working(k)' /\ ThreadOf(k)' = t =>
                    /\ OnTheCode(mem'[k], copy'[t])
                    /\ mem'[k].next \in Analysing => saved'[t].next \in Analysing
    <3>1. ~Restarted(u)
      BY <2>1, <2>3, <2>4
    <3>2. /\ OnTheCode(mem'[i], copy'[u])
          /\ mem'[i].next \in Analysing => saved[u].next \in Analysing
          /\ copy'[u] # copy[u] =>
               /\ Sole(i, u) /\ saved[u].next \in Analysing
               /\ copy[u] \in Nat /\ copy'[u] = copy[u] + 1
      BY <1>4, <3>1, NodeIsOnTheCode
    <3>3. CASE copy'[u] = copy[u]
      BY <1>1, <2>1, <2>4, <3>1, <3>2, <3>3
    <3>4. CASE copy'[u] # copy[u]
      <4>1. OnTheCode(saved[u], copy'[u])
        <5>1. OnTheCode(saved[u], copy[u]) /\ saved[u].next \notin Concluding
          BY <1>1, <2>1, <3>1, <3>2, <3>4 DEF Concluding, Analysing
        <5>2. QED
          BY <3>2, <3>4, <5>1 DEF OnTheCode
      <4>2. \A k \in Invocation \ {i} : ~(Working(k) /\ ThreadOf(k) = u)
        BY <3>2, <3>4 DEF Sole, WorksOn
      <4>3. QED
        BY <2>1, <2>4, <3>2, <4>1, <4>2
    <3>5. QED
      BY <3>3, <3>4
  <2>5. ASSUME NEW t \in Thread \ {u}, ~Restarted(t)'
        PROVE  /\ OnTheCode(saved'[t], copy'[t])
               /\ \A k \in Invocation : Working(k)' /\ ThreadOf(k)' = t =>
                    /\ OnTheCode(mem'[k], copy'[t])
                    /\ mem'[k].next \in Analysing => saved'[t].next \in Analysing
    <3>1. ~Restarted(t) /\ copy'[t] = copy[t] /\ saved'[t] = saved[t]
      BY <2>1, <2>2, <2>3, <2>5
    <3>2. \A k \in Invocation : ThreadOf(k) = t => mem'[k] = mem[k]
      BY <2>1, <2>5
    <3>3. QED
      BY <1>1, <2>1, <2>5, <3>1, <3>2
  <2>6. QED
    BY <2>4, <2>5, CodeKept
<1>5. ASSUME NEW i \in Invocation, put_checkpoint(i) PROVE CodeInv'
  <2> DEFINE u == ThreadOf(i)
  <2>1. /\ Working(i) /\ u \in Thread /\ saved'[u] = mem[i]
        /\ \A t \in Thread \ {u} : saved'[t] = saved[t]
        /\ \A k \in Invocation : (Working(k)' <=> Working(k)) /\ ThreadOf(k)' = ThreadOf(k)
        /\ job' = job /\ mem' = mem /\ copy' = copy
    BY <1>5, PutFrame
  <2>2. \A t \in Thread : ~Restarted(t)' => ~Restarted(t)
    BY <2>1, SameThreads
  <2>3. ASSUME NEW t \in Thread, t = u, ~Restarted(t)'
        PROVE  /\ OnTheCode(saved'[t], copy'[t])
               /\ \A k \in Invocation : Working(k)' /\ ThreadOf(k)' = t =>
                    /\ OnTheCode(mem'[k], copy'[t])
                    /\ mem'[k].next \in Analysing => saved'[t].next \in Analysing
    <3>1. ~Restarted(u)
      BY <2>1, <2>2, <2>3
    <3>2. ASSUME NEW k \in Invocation, WorksOn(k, u), mem[k].next \in Analysing
          PROVE  k = i
      <4>1. Sole(k, u)
        BY <2>1, <3>1, <3>2, AnalystIsAlone
      <4>2. QED
        BY <2>1, <4>1 DEF Sole, WorksOn
    <3>3. \A k \in Invocation : Working(k) /\ ThreadOf(k) = u /\ mem[k].next \in Analysing
             => k = i
      BY <3>2 DEF WorksOn
    <3>4. QED
      BY <1>1, <2>1, <2>3, <3>1, <3>3
  <2>4. ASSUME NEW t \in Thread \ {u}, ~Restarted(t)'
        PROVE  /\ OnTheCode(saved'[t], copy'[t])
               /\ \A k \in Invocation : Working(k)' /\ ThreadOf(k)' = t =>
                    /\ OnTheCode(mem'[k], copy'[t])
                    /\ mem'[k].next \in Analysing => saved'[t].next \in Analysing
    BY <1>1, <2>1, <2>2, <2>4
  <2>5. QED
    BY <2>3, <2>4, CodeKept
<1>6. ASSUME mem' = mem, saved' = saved, copy' = copy,
             \A t \in Thread : ~Restarted(t)' => ~Restarted(t),
             \A k \in Invocation : Working(k)' =>
                Working(k) /\ ThreadOf(k)' = ThreadOf(k)
      PROVE  CodeInv'
  BY <1>1, <1>6, CodeKept
<1>7. ASSUME NEW j \in Jobs, NEW pr \in Prs, NEW kind \in Kind, NEW second \in Seconds,
             webhook_pr(j, pr, kind, second)
      PROVE  CodeInv'
  <2> DEFINE u == [pr |-> pr, at |-> second]
  <2>1. /\ ~Restarted(u)' => ~Restarted(u)
        /\ \A t \in Thread \ {u} : Restarted(t)' = Restarted(t)
        /\ \A k \in Invocation : /\ Working(k)' <=> Working(k)
                                 /\ Working(k) => ThreadOf(k)' = ThreadOf(k)
        /\ mem' = mem /\ saved' = saved /\ copy' = copy
    BY <1>7, WebhookFrame
  <2>2. QED
    BY <1>6, <2>1
<1>8. ASSUME NEW c \in Clients, NEW u \in Thread, NEW choice \in Choices,
             resume(c, u, choice)
      PROVE  CodeInv'
  <2>1. /\ \A k \in Invocation : /\ Working(k)' <=> Working(k)
                                 /\ Working(k) => ThreadOf(k)' = ThreadOf(k)
        /\ mem' = mem /\ saved' = saved /\ copy' = copy /\ job' = job
    BY <1>8, AdmissionFrame
  <2>2. \A t \in Thread : ~Restarted(t)' => ~Restarted(t)
    BY <2>1, SameThreads
  <2>3. QED
    BY <1>6, <2>1, <2>2
<1>9. ASSUME NEW i \in Invocation, NEW u \in Thread,
             mem'[i] = saved[u] \/ \E choice \in Choices : mem'[i] = Loaded(u, choice),
             \A k \in Invocation \ {i} : Working(k)' =>
                Working(k) /\ ThreadOf(k)' = ThreadOf(k) /\ mem'[k] = mem[k],
             ThreadOf(i)' = u, job' = job, saved' = saved, copy' = copy
      PROVE  CodeInv'
  <2>1. \A t \in Thread : ~Restarted(t)' => ~Restarted(t)
    BY <1>9, SameThreads
  <2>2. ASSUME ~Restarted(u)
        PROVE  /\ OnTheCode(mem'[i], copy[u])
               /\ mem'[i].next \in Analysing => saved[u].next \in Analysing
    <3>1. OnTheCode(saved[u], copy[u])
      BY <1>1, <1>9, <2>2
    <3>2. CASE mem'[i] = saved[u]
      BY <3>1, <3>2
    <3>3. ASSUME NEW choice \in Choices, mem'[i] = Loaded(u, choice)
          PROVE  /\ OnTheCode(mem'[i], copy[u])
                 /\ mem'[i].next \in Analysing => saved[u].next \in Analysing
      BY <1>9, <3>1, <3>3, LoadedIsOnTheCode
    <3>4. QED
      BY <1>9, <3>2, <3>3
  <2>3. QED
    BY <1>1, <1>9, <2>1, <2>2, CodeKept
<1>10. ASSUME NEW c \in Clients, resume_review(c) PROVE CodeInv'
  <2>1. /\ req[c].thread \in Thread /\ req[c].choice \in Choices
        /\ mem'[c] = Loaded(req[c].thread, req[c].choice)
        /\ \A k \in Invocation \ {c} : mem'[k] = mem[k]
        /\ ThreadOf(c)' = req[c].thread
        /\ \A k \in Invocation \ {c} : (Working(k)' <=> Working(k))
                                       /\ ThreadOf(k)' = ThreadOf(k)
        /\ job' = job /\ saved' = saved /\ copy' = copy
    BY <1>10, DecisionFrame
  <2>2. QED
    BY <1>9, <2>1, WhoWorks
<1>11. ASSUME NEW u \in Thread, run_resumer(u) PROVE CodeInv'
  <2>1. /\ mem'[Resumer] = IF saved[u].next = "paused" THEN Loaded(u, "reject")
                           ELSE saved[u]
        /\ \A k \in Invocation : Working(k)' <=> k = Resumer
        /\ ThreadOf(Resumer)' = u
        /\ job' = job /\ saved' = saved /\ copy' = copy
    BY <1>11, ResumerFrame
  <2>2. Resumer \in Invocation /\ "reject" \in Choices
    BY WhoWorks DEF Choices
  <2>3. QED
    BY <1>9, <2>1, <2>2
<1>12. QED
  BY <1>2, <1>3, <1>4, <1>5, <1>7, <1>8, <1>10, <1>11, StepKinds

\* The verdict of a finished, waiting or failed review is about the bytes of its
\* working copy, whoever made the passes and wherever they died.
THEOREM VerdictsAreOnTheCode == Spec => []VerdictIsOnTheCode
<1>1. Init => CodeInv
  <2> SUFFICES ASSUME Init PROVE CodeInv
    OBVIOUS
  <2>1. /\ up = TRUE /\ offline = NoThread
        /\ \A c \in Clients : req[c].loc = "idle"
        /\ \A j \in Jobs : job[j].loc = "free"
        /\ \A t \in Thread : saved[t] = Blank
    BY DEF Init, Idle, NoJob
  <2>2. \A i \in Invocation : ~Working(i)
    BY <2>1, WhoWorks DEF Invocation, At
  <2>3. QED
    BY <2>1, <2>2, BlankSaysNothing DEF CodeInv, Code, WorksOn
<1>2. TypeInv /\ HandsInv /\ CodeInv /\ [Next]_vars => CodeInv'
  BY CodeStep
<1>3. TypeInv /\ CodeInv => VerdictIsOnTheCode
  <2> SUFFICES ASSUME TypeInv, CodeInv PROVE VerdictIsOnTheCode
    OBVIOUS
  <2>1. \A t \in Thread : ~Restarted(t) => IsOnTheCode(saved[t], t)
    BY CodeNow DEF IsOnTheCode, OnTheCode
  <2>2. \A i \in Invocation : Working(i) => ThreadOf(i) \in Thread
    BY WorkerFacts
  <2>3. \A i \in Invocation :
          Working(i) /\ ~Restarted(ThreadOf(i)) => IsOnTheCode(mem[i], ThreadOf(i))
    BY <2>2, CodeNow DEF IsOnTheCode, OnTheCode
  <2>4. QED
    BY <2>1, <2>3 DEF VerdictIsOnTheCode
<1>4. QED
  BY <1>1, <1>2, <1>3, ReviewsInHand, PTL DEF Spec

-----------------------------------------------------------------------------
(***************************************************************************)
(* The report of a review that is called complete.                         *)
(***************************************************************************)

\* Whoever is past the writing of the report has reported.
ReportedInv ==
  \A t \in Thread : ~Restarted(t) =>
    /\ saved[t].next \in Written => reported[t] # {}
    /\ \A i \in Invocation :
         WorksOn(i, t) /\ mem[i].next \in Written => reported[t] # {}

\* It is kept when it is for every thread with one review.
LEMMA ReportedKept ==
  ASSUME \A t \in Thread : ~Restarted(t)' =>
           /\ saved'[t].next \in Written => reported'[t] # {}
           /\ \A i \in Invocation :
                Working(i)' /\ ThreadOf(i)' = t /\ mem'[i].next \in Written =>
                  reported'[t] # {}
  PROVE  ReportedInv'
BY DEF ReportedInv, WorksOn, Written

\* The same, unfolded.
LEMMA ReportedNow ==
  ASSUME ReportedInv, NEW t \in Thread, ~Restarted(t)
  PROVE  /\ saved[t].next \in Written => reported[t] # {}
         /\ \A i \in Invocation :
              Working(i) /\ ThreadOf(i) = t /\ mem[i].next \in Written => reported[t] # {}
BY DEF ReportedInv, WorksOn

\* What a node does to the reports.
LEMMA NodeReports ==
  ASSUME TypeInv, NEW i \in Invocation, Nodes(i), NEW t \in Thread, ~Restarted(t)
  PROVE  /\ reported[t] # {} => reported'[t] # {}
         /\ ThreadOf(i) = t /\ mem'[i].next \in Written =>
              mem[i].next \in Written \/ reported'[t] # {}
<1>1. Working(i) /\ ThreadOf(i) \in Thread
      /\ reported \in [Thread -> SUBSET (Choices \cup {Undecided})]
  BY NodeFrame, WorkerFacts
<1>2. CASE persist_report(i)
  <2>1. reported' = [reported EXCEPT ![ThreadOf(i)] =
                       IF Restarted(ThreadOf(i)) THEN {} ELSE @ \cup {mem[i].hitl}]
    BY <1>2 DEF persist_report, Recorded
  <2>2. CASE ThreadOf(i) = t
    <3>1. reported'[t] = reported[t] \cup {mem[i].hitl}
      BY <1>1, <2>1, <2>2
    <3>2. QED
      BY <3>1
  <2>3. CASE ThreadOf(i) # t
    BY <1>1, <2>1, <2>3
  <2>4. QED
    BY <2>2, <2>3
<1>3. CASE ~persist_report(i)
  <2>1. reported' = reported
    BY <1>3 DEF Nodes, Graph, intake, scan, apply_fix, hitl_approval, apply_decision,
                upload_report, history
  <2>2. mem'[i].next \in Written => mem[i].next = "upload"
    BY <1>3, WritingLeadsToTheEnd
  <2>3. QED
    BY <2>1, <2>2 DEF Written
<1>4. QED
  BY <1>2, <1>3

\* Who is past the writing has reported, after every step.
LEMMA ReportedStep ==
  ASSUME TypeInv, ReportedInv, [Next]_vars
  PROVE  ReportedInv'
<1>1. ASSUME NEW t \in Thread, ~Restarted(t)
      PROVE  /\ saved[t].next \in Written => reported[t] # {}
             /\ \A k \in Invocation :
                  Working(k) /\ ThreadOf(k) = t /\ mem[k].next \in Written => reported[t] # {}
  BY <1>1, ReportedNow
<1>2. ASSUME \A k \in Invocation : Working(k)' =>
                Working(k) /\ ThreadOf(k)' = ThreadOf(k) /\ mem'[k] = mem[k],
             \A t \in Thread : ~Restarted(t)' => ~Restarted(t) /\ reported'[t] = reported[t],
             saved' = saved
      PROVE  ReportedInv'
  BY <1>1, <1>2, ReportedKept
<1>3. CASE Halting
  <2>1. WorkersContinue /\ TasksContinue /\ saved' = saved /\ reported' = reported
    BY <1>3, HaltFrame DEF HaltFacts
  <2>2. \A t \in Thread : ~Restarted(t)' => ~Restarted(t) /\ reported'[t] = reported[t]
    BY <2>1, SameThreads DEF TasksContinue
  <2>3. QED
    BY <1>2, <2>1, <2>2 DEF WorkersContinue
<1>4. ASSUME NEW j \in Jobs, Begins(j) PROVE ReportedInv'
  <2> DEFINE u == job[j].thread
  <2>1. /\ u \in Thread
        /\ \A k \in Jobs : job'[k].thread = job[k].thread
        /\ mem'[j].next = "intake" /\ saved'[u] = mem'[j]
        /\ \A t \in Thread \ {u} : saved'[t] = saved[t]
        /\ \A k \in Invocation \ {j} : mem'[k] = mem[k]
        /\ \A k \in Invocation \ {j} : (Working(k)' <=> Working(k))
                                       /\ ThreadOf(k)' = ThreadOf(k)
        /\ reported' = reported
    BY <1>4, BeginFrame
  <2>2. \A t \in Thread : ~Restarted(t)' => ~Restarted(t)
    BY <2>1, SameThreads
  <2>3. mem'[j].next \notin Written /\ saved'[u].next \notin Written
    BY <2>1 DEF Written
  <2>4. QED
    BY <1>1, <2>1, <2>2, <2>3, ReportedKept
<1>5. ASSUME NEW i \in Invocation, Nodes(i) PROVE ReportedInv'
  <2>1. /\ Working(i)
        /\ \A k \in Invocation : (Working(k)' <=> Working(k)) /\ ThreadOf(k)' = ThreadOf(k)
        /\ \A k \in Invocation \ {i} : mem'[k] = mem[k]
        /\ job' = job /\ saved' = saved
    BY <1>5, NodeFrame
  <2>2. \A t \in Thread : ~Restarted(t)' => ~Restarted(t)
    BY <2>1, SameThreads
  <2>3. ASSUME NEW t \in Thread, ~Restarted(t)'
        PROVE  /\ reported[t] # {} => reported'[t] # {}
               /\ ThreadOf(i) = t /\ mem'[i].next \in Written =>
                    mem[i].next \in Written \/ reported'[t] # {}
    BY <1>5, <2>2, <2>3, NodeReports
  <2>4. QED
    BY <1>1, <2>1, <2>2, <2>3, ReportedKept
<1>6. ASSUME NEW i \in Invocation, put_checkpoint(i) PROVE ReportedInv'
  <2> DEFINE u == ThreadOf(i)
  <2>1. /\ Working(i) /\ saved'[u] = mem[i]
        /\ \A t \in Thread \ {u} : saved'[t] = saved[t]
        /\ \A k \in Invocation : (Working(k)' <=> Working(k)) /\ ThreadOf(k)' = ThreadOf(k)
        /\ job' = job /\ mem' = mem /\ reported' = reported
    BY <1>6, PutFrame
  <2>2. \A t \in Thread : ~Restarted(t)' => ~Restarted(t)
    BY <2>1, SameThreads
  <2>3. QED
    BY <1>1, <2>1, <2>2, ReportedKept
<1>7. ASSUME NEW j \in Jobs, NEW pr \in Prs, NEW kind \in Kind, NEW second \in Seconds,
             webhook_pr(j, pr, kind, second)
      PROVE  ReportedInv'
  <2> DEFINE u == [pr |-> pr, at |-> second]
  <2>1. /\ ~Restarted(u)' => ~Restarted(u)
        /\ \A t \in Thread \ {u} : Restarted(t)' = Restarted(t)
        /\ \A t \in Thread : ~Restarted(t)' => reported'[t] = reported[t]
        /\ \A k \in Invocation : /\ Working(k)' <=> Working(k)
                                 /\ Working(k) => ThreadOf(k)' = ThreadOf(k)
        /\ mem' = mem /\ saved' = saved
    BY <1>7, WebhookFrame
  <2>2. QED
    BY <1>2, <2>1
<1>8. ASSUME NEW c \in Clients, NEW u \in Thread, NEW choice \in Choices,
             resume(c, u, choice)
      PROVE  ReportedInv'
  <2>1. /\ \A k \in Invocation : /\ Working(k)' <=> Working(k)
                                 /\ Working(k) => ThreadOf(k)' = ThreadOf(k)
        /\ mem' = mem /\ saved' = saved /\ job' = job /\ reported' = reported
    BY <1>8, AdmissionFrame
  <2>2. \A t \in Thread : ~Restarted(t)' => ~Restarted(t)
    BY <2>1, SameThreads
  <2>3. QED
    BY <1>2, <2>1, <2>2
<1>9. ASSUME NEW i \in Invocation, NEW u \in Thread,
             mem'[i].next \in Written => saved[u].next \in Written,
             \A k \in Invocation \ {i} : Working(k)' =>
                Working(k) /\ ThreadOf(k)' = ThreadOf(k) /\ mem'[k] = mem[k],
             ThreadOf(i)' = u, job' = job, saved' = saved, reported' = reported
      PROVE  ReportedInv'
  <2>1. \A t \in Thread : ~Restarted(t)' => ~Restarted(t)
    BY <1>9, SameThreads
  <2>2. QED
    BY <1>1, <1>9, <2>1, ReportedKept
<1>10. ASSUME NEW c \in Clients, resume_review(c) PROVE ReportedInv'
  <2> DEFINE u == req[c].thread
  <2>1. /\ u \in Thread /\ req[c].choice \in Choices
        /\ mem'[c] = Loaded(u, req[c].choice)
        /\ \A k \in Invocation \ {c} : mem'[k] = mem[k]
        /\ ThreadOf(c)' = u
        /\ \A k \in Invocation \ {c} : (Working(k)' <=> Working(k))
                                       /\ ThreadOf(k)' = ThreadOf(k)
        /\ job' = job /\ saved' = saved /\ reported' = reported
    BY <1>10, DecisionFrame
  <2>2. mem'[c].next \in {saved[u].next, "decide"}
    BY <2>1, LoadedFacts
  <2>3. mem'[c].next \in Written => saved[u].next \in Written
    BY <2>2 DEF Written
  <2>4. QED
    BY <1>9, <2>1, <2>3, WhoWorks
<1>11. ASSUME NEW u \in Thread, run_resumer(u) PROVE ReportedInv'
  <2>1. /\ mem'[Resumer] = IF saved[u].next = "paused" THEN Loaded(u, "reject")
                           ELSE saved[u]
        /\ \A k \in Invocation : Working(k)' <=> k = Resumer
        /\ ThreadOf(Resumer)' = u
        /\ job' = job /\ saved' = saved /\ reported' = reported
    BY <1>11, ResumerFrame
  <2>2. Resumer \in Invocation /\ "reject" \in Choices
    BY WhoWorks DEF Choices
  <2>3. mem'[Resumer].next \in {saved[u].next, "decide"}
    BY <2>1, <2>2, LoadedFacts
  <2>4. mem'[Resumer].next \in Written => saved[u].next \in Written
    BY <2>3 DEF Written
  <2>5. QED
    BY <1>9, <2>1, <2>2, <2>4
<1>12. QED
  BY <1>3, <1>4, <1>5, <1>6, <1>7, <1>8, <1>10, <1>11, StepKinds

\* Who has the answer and has a checkpoint or the decision ahead does not raise.
Carries(i, t) ==
  WorksOn(i, t) /\ Answered(mem[i]) /\ (i \in dirty \/ mem[i].next = "decide")

\* The answer is on its way to the report, or was left just before it.
Carried(t) == Stranded(t) \/ \E i \in Invocation : Carries(i, t)

\* A report is there, or the answer is on its way to one.
Done(t) == reported[t] # {} \/ Carried(t)

\* The review is called complete, or its task is about to call it so: it found
\* no pause, or will find none where it left one.
Claimed(t) ==
  \/ runs[t] = "complete"
  \/ \E j \in Jobs :
       /\ job[j].thread = t
       /\ \/ job[j].loc = "returned" /\ ~job[j].paused
          \/ Working(j) /\ Parked(j) /\ saved[t].next # "paused"

ClaimInv == \A t \in Thread : ~Restarted(t) /\ Claimed(t) => Done(t)

\* Only a request or the resumer has an answer, and it is on its way out.
LEMMA WhoHasTheAnswer ==
  ASSUME HandsInv, NEW t \in Thread, ~Restarted(t), NEW i \in Invocation,
         WorksOn(i, t)
  PROVE  /\ Answered(mem[i]) => i \notin Jobs /\ mem[i].next \in Decided
         /\ i \in Clients => Answered(mem[i])
         /\ (i \in dirty \/ mem[i].next # "paused") /\ ~Answered(mem[i]) => Sole(i, t)
BY DEF HandsInv, Hands, InHand, Parked

\* Whoever carries the answer does so as long as nothing moves them.
LEMMA CarryingStays ==
  ASSUME NEW t \in Thread, NEW i \in Invocation, Carries(i, t),
         Working(i)' /\ ThreadOf(i)' = t, mem'[i] = mem[i], i \in dirty' <=> i \in dirty
  PROVE  Carried(t)'
<1>1. Carries(i, t)'
  BY DEF Carries, WorksOn, Answered
<1>2. QED
  BY <1>1 DEF Carried

\* The answer stays where it is when nothing moves it.
LEMMA CarriedStays ==
  ASSUME NEW t \in Thread, Carried(t), saved'[t] = saved[t],
         \A k \in Invocation : Working(k) =>
           /\ Working(k)' /\ ThreadOf(k)' = ThreadOf(k)
           /\ mem'[k] = mem[k] /\ (k \in dirty' <=> k \in dirty)
  PROVE  Carried(t)'
<1>1. CASE Stranded(t)
  BY <1>1 DEF Stranded, Carried
<1>2. ASSUME NEW i \in Invocation, Carries(i, t) PROVE Carried(t)'
  BY <1>2, CarryingStays DEF Carries, WorksOn
<1>3. QED
  BY <1>1, <1>2 DEF Carried

\* A node takes it on.
LEMMA NodeCarries ==
  ASSUME TypeInv, NEW i \in Invocation, Nodes(i), NEW t \in Thread, Carried(t)
  PROVE  Carried(t)'
<1>1. /\ \A k \in Invocation : (Working(k)' <=> Working(k)) /\ ThreadOf(k)' = ThreadOf(k)
      /\ \A k \in Invocation \ {i} : mem'[k] = mem[k]
      /\ dirty' \in {dirty, dirty \cup {i}} /\ saved' = saved
  BY NodeFrame
<1>2. CASE Stranded(t)
  BY <1>1, <1>2 DEF Stranded, Carried
<1>3. ASSUME NEW k \in Invocation \ {i}, Carries(k, t) PROVE Carried(t)'
  BY <1>1, <1>3, CarryingStays DEF Carries, WorksOn
<1>4. CASE Carries(i, t)
  <2>1. mem'[i].hitl = mem[i].hitl
    BY NodesKeepTheAnswer
  <2>2. i \in dirty'
    <3>1. CASE persist_report(i)
      BY <1>4, <3>1 DEF persist_report, AtNode, Carries
    <3>2. CASE ~persist_report(i)
      BY <3>2 DEF Nodes, Graph, intake, scan, apply_fix, hitl_approval, apply_decision,
                  upload_report, Step
    <3>3. QED
      BY <3>1, <3>2
  <2>3. Carries(i, t)'
    BY <1>1, <1>4, <2>1, <2>2 DEF Carries, WorksOn, Answered
  <2>4. QED
    BY <2>3 DEF Carried
<1>5. QED
  BY <1>2, <1>3, <1>4 DEF Carried

\* A checkpoint takes it on, or is that of the end.
LEMMA CheckpointCarries ==
  ASSUME TypeInv, HandsInv, NEW i \in Invocation, put_checkpoint(i),
         NEW t \in Thread, ~Restarted(t),
         Carried(t) \/ (ThreadOf(i) = t /\ Answered(mem[i]))
  PROVE  Carried(t)' \/ (ThreadOf(i) = t /\ mem[i].next = "end")
<1>1. /\ Working(i) /\ i \in dirty /\ dirty' = dirty \ {i} /\ mem[i].next # "upload"
      /\ saved'[ThreadOf(i)] = mem[i]
      /\ \A u \in Thread \ {ThreadOf(i)} : saved'[u] = saved[u]
      /\ \A k \in Invocation : (Working(k)' <=> Working(k)) /\ ThreadOf(k)' = ThreadOf(k)
      /\ mem' = mem
  BY PutFrame
<1>2. ASSUME NEW k \in Invocation \ {i}, Carries(k, t) PROVE Carried(t)'
  BY <1>1, <1>2, CarryingStays DEF Carries, WorksOn
<1>3. CASE ThreadOf(i) # t
  <2>1. ~Carries(i, t) /\ saved'[t] = saved[t]
    BY <1>1, <1>3 DEF Carries, WorksOn
  <2>2. CASE Stranded(t)
    BY <2>1, <2>2 DEF Stranded, Carried
  <2>3. QED
    BY <1>2, <1>3, <2>1, <2>2 DEF Carried
<1>4. CASE ThreadOf(i) = t
  <2>1. WorksOn(i, t)
    BY <1>1, <1>4 DEF WorksOn
  <2>2. Stranded(t) => Answered(mem[i])
    <3>1. SUFFICES ASSUME Stranded(t), ~Answered(mem[i]) PROVE FALSE
      OBVIOUS
    <3>2. delivered[t] = {}
      BY <1>1, <2>1, <3>1, WhoHasTheAnswer DEF Sole
    <3>3. saved[t].hitl \in delivered[t]
      BY <3>1 DEF Stranded, Answered, HandsInv, Hands, SavedInHand
    <3>4. QED
      BY <3>2, <3>3
  <2>3. CASE Answered(mem[i])
    <3>1. mem[i].next \in {"decide", "report", "end"}
      BY <1>1, <2>1, <2>3, WhoHasTheAnswer DEF Decided
    <3>2. CASE mem[i].next = "decide"
      BY <1>1, <2>1, <2>3, <3>2 DEF Carried, Carries, WorksOn, Answered
    <3>3. CASE mem[i].next = "report"
      BY <1>1, <1>4, <2>3, <3>3 DEF Carried, Stranded, Answered
    <3>4. QED
      BY <1>4, <3>1, <3>2, <3>3
  <2>4. CASE ~Answered(mem[i])
    <3>1. PICK k \in Invocation : Carries(k, t)
      BY <2>2, <2>4 DEF Carried
    <3>2. k # i
      BY <2>4, <3>1 DEF Carries
    <3>3. QED
      BY <1>2, <3>1, <3>2
  <2>5. QED
    BY <2>3, <2>4
<1>5. QED
  BY <1>3, <1>4

\* A review that begins has no answer.
LEMMA BeginningCarries ==
  ASSUME TypeInv, HandsInv, NEW j \in Jobs, Begins(j), NEW t \in Thread, ~Restarted(t),
         Carried(t)
  PROVE  Carried(t)'
<1> DEFINE u == job[j].thread
<1>1. /\ job[j].loc \in {"materialising", "cleared"}
      /\ \A k \in Invocation \ {j} : mem'[k] = mem[k]
      /\ \A v \in Thread \ {u} : saved'[v] = saved[v]
      /\ \A k \in Invocation \ {j} : (Working(k)' <=> Working(k))
                                     /\ ThreadOf(k)' = ThreadOf(k)
      /\ dirty' = dirty
  BY BeginFrame
<1>2. ~Working(j)
  BY <1>1, WhoWorks DEF At
<1>3. t # u
  <2>1. SUFFICES ASSUME t = u PROVE FALSE
    OBVIOUS
  <2>2. saved[t] = Blank /\ \A i \in Invocation : ~(Working(i) /\ ThreadOf(i) = t)
    BY <1>1, <2>1, NothingToSayYet DEF PreWork
  <2>3. QED
    BY <2>2 DEF Carried, Stranded, Carries, WorksOn, Blank
<1>4. \A k \in Invocation : Working(k) =>
        Working(k)' /\ ThreadOf(k)' = ThreadOf(k) /\ mem'[k] = mem[k]
  BY <1>1, <1>2
<1>5. QED
  BY <1>1, <1>3, <1>4, CarriedStays

\* Who is done stays done when the answer goes on, or has been reported.
LEMMA DoneStays ==
  ASSUME NEW t \in Thread, Done(t), reported[t] # {} => reported'[t] # {},
         Carried(t) => Carried(t)' \/ reported'[t] # {}
  PROVE  Done(t)'
BY DEF Done

\* What a claim after a step means.
LEMMA ClaimedNext ==
  ASSUME NEW t \in Thread, Claimed(t)'
  PROVE  \/ runs'[t] = "complete"
         \/ \E j \in Jobs :
              /\ job'[j].thread = t
              /\ \/ job'[j].loc = "returned" /\ ~job'[j].paused
                 \/ /\ Working(j)' /\ mem'[j].next = "paused" /\ ~(j \in dirty')
                    /\ saved'[t].next # "paused"
BY DEF Claimed, Parked

\* Where the claims come from the ones before, they are kept.
LEMMA SameClaims ==
  ASSUME NEW t \in Thread, Claimed(t)', runs'[t] = "complete" => runs[t] = "complete",
         \A j \in Jobs :
           /\ job'[j].thread = t /\ job'[j].loc = "returned" =>
                job[j].thread = t /\ job[j].loc = "returned" /\ job'[j].paused = job[j].paused
           /\ job'[j].thread = t /\ Working(j)' /\ mem'[j].next = "paused" /\ ~(j \in dirty')
              /\ saved'[t].next # "paused" =>
                /\ job[j].thread = t /\ Working(j) /\ mem[j].next = "paused"
                /\ j \notin dirty /\ saved[t].next # "paused"
  PROVE  Claimed(t)
BY ClaimedNext DEF Claimed, Parked

\* A task claims what it claimed, or what it has found.
LEMMA TaskClaims ==
  ASSUME TypeInv, ReportedInv, NEW j \in Jobs, TaskHalts(j),
         NEW t \in Thread, ~Restarted(t), Claimed(t)'
  PROVE  Claimed(t) \/ reported[t] # {}
<1> DEFINE u == job[j].thread
<1>1. /\ up /\ job[j].loc # "free" /\ \A k \in Jobs \ {j} : job'[k] = job[k]
      /\ job'[j].loc # "working" /\ job'[j].thread = u
      /\ \A k \in Invocation \ {j} : mem'[k] = mem[k]
      /\ dirty' \in {dirty, dirty \ {j}} /\ up' = up /\ saved' = saved
  BY TaskFrame
<1>2. /\ job \in [Jobs -> JobRecord] /\ job[j] \in JobRecord /\ u \in Thread
      /\ runs \in [Thread -> RunState]
  BY <1>1, TaskFacts
<1>3. ASSUME NEW k \in Jobs \ {j}
      PROVE  /\ Working(k)' => Working(k)
             /\ k \in Invocation /\ mem'[k] = mem[k] /\ (k \in dirty' <=> k \in dirty)
  BY <1>1, WhoWorks, WhoWorksNext DEF At
<1>4. ~Working(j)'
  BY <1>1, WhoWorksNext DEF At
<1>5. CASE ~invoke_returns(j) /\ ~run_review_ends(j)
  <2>1. /\ job'[j].loc # "returned"
        /\ runs'[t] = "complete" => runs[t] = "complete"
    BY <1>2, <1>5
    DEF TaskHalts, Task, run_review, materialize_clear, materialize_raises,
        materialise_refuses, materialise_escapes, Fails, JobRecord
  <2>2. QED
    BY <1>1, <1>3, <1>4, <2>1, SameClaims
<1>6. CASE run_review_ends(j)
  <2>1. /\ job[j].loc = "returned" /\ job'[j].loc = "done"
        /\ runs' = [runs EXCEPT ![u] = IF job[j].paused THEN "awaiting_human" ELSE "complete"]
    BY <1>2, <1>6 DEF run_review_ends, At, JobRecord
  <2>2. CASE u = t /\ ~job[j].paused
    BY <2>1, <2>2 DEF Claimed
  <2>3. CASE ~(u = t /\ ~job[j].paused)
    <3>1. runs'[t] = "complete" => runs[t] = "complete"
      BY <1>2, <2>1, <2>3
    <3>2. QED
      BY <1>1, <1>3, <1>4, <2>1, <3>1, SameClaims
  <2>4. QED
    BY <2>2, <2>3
<1>7. CASE invoke_returns(j)
  <2>1. /\ Working(j) /\ mem[j].next \in {"paused", "end"} /\ j \notin dirty /\ runs' = runs
        /\ job' = [job EXCEPT ![j].loc = "returned", ![j].paused = (saved[u].next = "paused")]
    BY <1>7 DEF invoke_returns, Returned, pending_interrupt
  <2>2. CASE u = t /\ saved[t].next # "paused"
    <3>1. CASE mem[j].next = "paused"
      BY <2>1, <2>2, <3>1 DEF Claimed, Parked
    <3>2. CASE mem[j].next = "end"
      <4>1. ThreadOf(j) = t /\ j \in Invocation
        BY <2>2, WhoWorks
      <4>2. QED
        BY <2>1, <3>2, <4>1, ReportedNow DEF Written
    <3>3. QED
      BY <2>1, <3>1, <3>2
  <2>3. CASE u = t /\ saved[t].next = "paused"
    <3>1. job'[j].paused
      BY <1>2, <2>1, <2>3 DEF JobRecord
    <3>2. saved'[t].next = "paused" /\ runs'[t] = runs[t]
      BY <1>1, <2>1, <2>3
    <3>3. \/ runs[t] = "complete"
          \/ \E k \in Jobs : /\ job'[k].thread = t
                             /\ job'[k].loc = "returned" /\ ~job'[k].paused
      BY <3>2, ClaimedNext
    <3>4. CASE runs[t] = "complete"
      BY <3>4 DEF Claimed
    <3>5. ASSUME NEW k \in Jobs, job'[k].thread = t, job'[k].loc = "returned",
                 ~job'[k].paused
          PROVE  Claimed(t)
      <4>1. k # j
        BY <3>1, <3>5
      <4>2. job'[k] = job[k]
        BY <1>1, <4>1
      <4>3. QED
        BY <3>5, <4>2 DEF Claimed
    <3>6. QED
      BY <3>3, <3>4, <3>5
  <2>4. CASE u # t
    BY <1>1, <1>3, <2>1, <2>4, SameClaims
  <2>5. QED
    BY <2>2, <2>3, <2>4
<1>8. QED
  BY <1>5, <1>6, <1>7

\* A dead process claims nothing.
LEMMA DeathClaimsNothing ==
  ASSUME TypeInv, crash, NEW t \in Thread
  PROVE  ~Claimed(t)'
<1>1. /\ ~up' /\ runs'[t] = "absent"
      /\ \A j \in Jobs : job'[j].loc \in {"free", "done"}
  BY DeathFrame
<1>2. \A j \in Jobs : ~Working(j)'
  BY <1>1, WhoWorksNext DEF At
<1>3. QED
  BY <1>1, <1>2, ClaimedNext

\* So does everybody else who stops or is stopped.
LEMMA HaltingClaims ==
  ASSUME TypeInv, HandsInv, ReportedInv, Halting,
         NEW t \in Thread, ~Restarted(t), Claimed(t)'
  PROVE  Claimed(t) \/ reported[t] # {}
<1>1. ASSUME NEW j \in Jobs, TaskHalts(j)
      PROVE  Claimed(t) \/ reported[t] # {}
  BY <1>1, TaskClaims
<1>2. ASSUME NEW i \in Invocation \ Jobs, UNCHANGED <<up, job, saved>>,
             \A k \in Invocation \ {i} : mem'[k] = mem[k],
             dirty' \in {dirty, dirty \ {i}},
             runs'[t] = "complete" => runs[t] = "complete" \/ reported[t] # {}
      PROVE  Claimed(t) \/ reported[t] # {}
  <2>1. \A k \in Jobs : /\ Working(k)' <=> Working(k)
                        /\ mem'[k] = mem[k] /\ (k \in dirty' <=> k \in dirty)
    BY <1>2, WhoWorks, WhoWorksNext DEF At
  <2>2. QED
    BY <1>2, <2>1, SameClaims
<1>3. ASSUME NEW i \in Invocation, node_raises(i)
      PROVE  Claimed(t) \/ reported[t] # {}
  <2>1. CASE i \in Jobs
    <3>1. /\ up /\ job[i].loc = "working" /\ job \in [Jobs -> JobRecord]
          /\ runs \in [Thread -> RunState] /\ mem \in [Invocation -> Snapshot]
      BY <1>3, <2>1, RaiseFacts, TaskFacts
    <3>2. /\ runs' = [runs EXCEPT ![job[i].thread] = "failed"]
          /\ job' = [job EXCEPT ![i].loc = "done"]
          /\ mem' = [mem EXCEPT ![i] = Blank]
          /\ dirty' = dirty \ {i} /\ up' = up /\ saved' = saved
      BY <1>3, <2>1 DEF node_raises, Fails
    <3>3. runs'[t] = "complete" => runs[t] = "complete"
      BY <3>1, <3>2
    <3>4. job'[i].loc = "done" /\ \A k \in Jobs \ {i} : job'[k] = job[k]
      BY <2>1, <3>1, <3>2 DEF JobRecord
    <3>5. ~Working(i)'
      BY <2>1, <3>4, WhoWorksNext DEF At
    <3>6. \A k \in Jobs \ {i} : /\ Working(k)' <=> Working(k)
                                /\ mem'[k] = mem[k] /\ (k \in dirty' <=> k \in dirty)
      BY <3>1, <3>2, <3>4, WhoWorks, WhoWorksNext DEF At
    <3>7. saved' = saved
      BY <3>2
    <3>8. QED
      BY <3>3, <3>4, <3>5, <3>6, <3>7, SameClaims
  <2>2. CASE i \notin Jobs
    <3>1. runs' = runs
      BY <1>3, <2>2 DEF node_raises
    <3>2. QED
      BY <1>2, <1>3, <2>2, <3>1, LeaverFrame
  <2>3. QED
    BY <2>1, <2>2
<1>4. ASSUME NEW c \in Clients, resume_responds(c)
      PROVE  Claimed(t) \/ reported[t] # {}
  <2> DEFINE u == req[c].thread
  <2>1. /\ Working(c) /\ mem[c].next \in {"paused", "end"}
        /\ runs' = [runs EXCEPT ![u] = "complete"]
        /\ runs \in [Thread -> RunState] /\ c \in Invocation \ Jobs
    BY <1>4, RequestFacts, WhoWorks DEF resume_responds, Returned
  <2>2. CASE u = t
    <3>1. WorksOn(c, t) /\ ThreadOf(c) = t
      BY <2>1, <2>2, WhoWorks DEF WorksOn
    <3>2. mem[c].next \in Decided
      BY <2>1, <3>1, WhoHasTheAnswer
    <3>3. mem[c].next \in Written
      BY <2>1, <3>2 DEF Decided, Written
    <3>4. QED
      BY <2>1, <3>1, <3>3, ReportedNow
  <2>3. CASE u # t
    <3>1. runs'[t] = runs[t]
      BY <2>1, <2>3
    <3>2. QED
      BY <1>2, <1>4, <2>1, <3>1, LeaverFrame
  <2>4. QED
    BY <2>2, <2>3
<1>5. ASSUME resumer_exits PROVE Claimed(t) \/ reported[t] # {}
  <2>1. runs' = runs /\ Resumer \in Invocation \ Jobs
    BY <1>5, WhoWorks DEF resumer_exits, memory
  <2>2. QED
    BY <1>2, <1>5, <2>1, LeaverFrame
<1>6. ~crash
  BY DeathClaimsNothing
<1>7. ASSUME restart \/ UNCHANGED vars PROVE Claimed(t) \/ reported[t] # {}
  <2>1. job' = job /\ runs' = runs /\ mem' = mem /\ dirty' = dirty /\ saved' = saved
    BY <1>7 DEF restart, vars, memory, disk
  <2>2. \A k \in Jobs : Working(k)' => Working(k)
    <3>1. CASE restart
      <4>1. \A k \in Jobs : job[k].loc \in {"free", "done"}
        BY <3>1 DEF restart, TypeInv, Tidy, NobodyWithoutProcess
      <4>2. QED
        BY <2>1, <4>1, WhoWorksNext DEF At
    <3>2. CASE UNCHANGED vars
      BY <2>1, <3>2, WhoWorks, WhoWorksNext DEF At, vars
    <3>3. QED
      BY <1>7, <3>1, <3>2
  <2>3. QED
    BY <2>1, <2>2, SameClaims
<1>8. QED
  BY <1>1, <1>3, <1>4, <1>5, <1>6, <1>7 DEF Halting

\* The answer is carried on by whoever halts, unless everything stops.
LEMMA HaltingCarries ==
  ASSUME TypeInv, HandsInv, Halting, ~crash, NEW t \in Thread, ~Restarted(t), Carried(t)
  PROVE  Carried(t)'
<1>1. saved' = saved /\ WorkersContinue
  BY HaltFrame DEF HaltFacts
<1>2. CASE Stranded(t)
  BY <1>1, <1>2 DEF Stranded, Carried
<1>3. SUFFICES ASSUME NEW i \in Invocation, Carries(i, t)
               PROVE  Working(i)' /\ ThreadOf(i)' = t
  BY <1>1, <1>2, CarryingStays DEF Carried, WorkersContinue
<1>4. /\ i \notin Jobs /\ Working(i) /\ ThreadOf(i) = t
      /\ i \in dirty \/ mem[i].next = "decide"
  BY <1>3, WhoHasTheAnswer DEF Carries, WorksOn
<1>5. UNCHANGED <<up, req, offline>> => Working(i)' /\ ThreadOf(i)' = t
  <2> SUFFICES ASSUME UNCHANGED <<up, req, offline>> PROVE Working(i)' /\ ThreadOf(i)' = t
    OBVIOUS
  <2>1. CASE i \in Clients
    BY <1>4, <2>1, WhoWorks, WhoWorksNext
  <2>2. CASE i = Resumer
    BY <1>4, <2>2, WhoWorks, WhoWorksNext
  <2>3. QED
    BY <1>4, <2>1, <2>2 DEF Invocation
<1>6. ASSUME NEW j \in Jobs, TaskHalts(j)
      PROVE  UNCHANGED <<up, req, offline>>
  BY <1>6, TaskFrame
<1>7. ASSUME NEW k \in Invocation \ {i}, k \notin Jobs,
             \/ node_raises(k)
             \/ k \in Clients /\ resume_responds(k)
             \/ k = Resumer /\ resumer_exits
      PROVE  Working(i)' /\ ThreadOf(i)' = t
  <2>1. /\ up' = up
        /\ i \in Clients => req'[i] = req[i]
        /\ i = Resumer => offline' = offline
    BY <1>7, LeaverFrame
  <2>2. CASE i \in Clients
    BY <1>4, <2>1, <2>2, WhoWorks, WhoWorksNext
  <2>3. CASE i = Resumer
    BY <1>4, <2>1, <2>3, WhoWorks, WhoWorksNext
  <2>4. QED
    BY <1>4, <2>2, <2>3 DEF Invocation
<1>8. ASSUME NEW k \in Invocation, node_raises(k)
      PROVE  Working(i)' /\ ThreadOf(i)' = t
  <2>1. k # i
    BY <1>4, <1>8, RaiseFacts
  <2>2. CASE k \in Jobs
    <3>1. UNCHANGED <<up, req, offline>>
      BY <1>8, <2>2, RaiseFacts DEF Fails
    <3>2. QED
      BY <1>5, <3>1
  <2>3. CASE k \notin Jobs
    BY <1>7, <1>8, <2>1, <2>3
  <2>4. QED
    BY <2>2, <2>3
<1>9. ASSUME NEW c \in Clients, resume_responds(c)
      PROVE  Working(i)' /\ ThreadOf(i)' = t
  <2>1. c # i /\ c \in Invocation /\ c \notin Jobs
    BY <1>4, <1>9, WhoWorks DEF resume_responds, Returned
  <2>2. QED
    BY <1>7, <1>9, <2>1
<1>10. ASSUME resumer_exits
       PROVE  Working(i)' /\ ThreadOf(i)' = t
  <2>1. Resumer # i /\ Resumer \in Invocation /\ Resumer \notin Jobs
    BY <1>4, <1>10, WhoWorks DEF resumer_exits, Returned
  <2>2. QED
    BY <1>7, <1>10, <2>1
<1>11. ASSUME restart
       PROVE  Working(i)' /\ ThreadOf(i)' = t
  <2>1. ~up /\ req' = req /\ offline' = offline
    BY <1>11 DEF restart, memory
  <2>2. i = Resumer
    BY <1>4, <2>1, WhoWorks DEF Invocation
  <2>3. QED
    BY <1>4, <2>1, <2>2, WhoWorks, WhoWorksNext
<1>12. ASSUME UNCHANGED vars
       PROVE  UNCHANGED <<up, req, offline>>
  BY <1>12 DEF vars, memory
<1>13. QED
  BY <1>5, <1>6, <1>8, <1>9, <1>10, <1>11, <1>12 DEF Halting

\* The interrupt is raised before it is written down.
LEMMA PauseIsUnwritten ==
  ASSUME TypeInv, NEW i \in Invocation, Nodes(i), mem'[i].next = "paused"
  PROVE  i \in dirty'
<1>1. mem \in [Invocation -> Snapshot] /\ mem[i] \in Snapshot
  BY NodeFrame, WorkerFacts
<1>2. CASE persist_report(i)
  <2>1. \E now \in Reading(ThreadOf(i)) :
           mem' = [mem EXCEPT ![i] = [@ EXCEPT !.next = "upload", !.path = now]]
    BY <1>2 DEF persist_report
  <2>2. QED
    BY <1>1, <2>1 DEF Snapshot
<1>3. CASE ~persist_report(i)
  BY <1>3 DEF Nodes, Graph, intake, scan, apply_fix, hitl_approval, apply_decision,
              upload_report, Step
<1>4. QED
  BY <1>2, <1>3

\* No step makes a claim that is not done, or undoes it.
LEMMA ClaimStep ==
  ASSUME TypeInv, HandsInv, ReportedInv, ClaimInv, [Next]_vars
  PROVE  ClaimInv'
<1>1. ASSUME \A t \in Thread : ~Restarted(t)' /\ Claimed(t)' => Done(t)'
      PROVE  ClaimInv'
  BY <1>1 DEF ClaimInv
<1>2. ASSUME NEW t \in Thread, ~Restarted(t), Claimed(t) \/ reported[t] # {}
      PROVE  Done(t)
  BY <1>2 DEF ClaimInv, Done
<1>3. CASE Halting
  <2>1. \A t \in Thread : ~Restarted(t)' => ~Restarted(t)
    BY <1>3, HaltFrame, SameThreads DEF HaltFacts, TasksContinue
  <2>2. ASSUME NEW t \in Thread, ~Restarted(t)', Claimed(t)' PROVE Done(t)'
    <3>1. ~Restarted(t) /\ ~crash
      BY <2>1, <2>2, DeathClaimsNothing
    <3>2. Done(t)
      BY <1>2, <1>3, <2>2, <3>1, HaltingClaims
    <3>3. QED
      BY <1>3, <3>1, <3>2, HaltFrame, HaltingCarries, DoneStays DEF HaltFacts
  <2>3. QED
    BY <1>1, <2>2
<1>4. ASSUME NEW j \in Jobs, Begins(j) PROVE ClaimInv'
  <2> DEFINE u == job[j].thread
  <2>1. /\ up /\ job[j].loc \in {"materialising", "cleared"}
        /\ job'[j].loc = "working" /\ \A k \in Jobs \ {j} : job'[k] = job[k]
        /\ \A k \in Jobs : job'[k].thread = job[k].thread
        /\ mem'[j].next = "intake"
        /\ \A k \in Invocation \ {j} : mem'[k] = mem[k]
        /\ \A t \in Thread \ {u} : saved'[t] = saved[t]
        /\ \A k \in Invocation \ {j} : (Working(k)' <=> Working(k))
                                       /\ ThreadOf(k)' = ThreadOf(k)
        /\ runs' = runs /\ dirty' = dirty /\ reported' = reported
    BY <1>4, BeginFrame
  <2>2. \A t \in Thread : ~Restarted(t)' => ~Restarted(t)
    BY <2>1, SameThreads
  <2>3. ~Working(j) /\ \A k \in Jobs : k \in Invocation
    BY <2>1, WhoWorks DEF At
  <2>4. ASSUME NEW t \in Thread, ~Restarted(t)', Claimed(t)' PROVE Done(t)'
    <3>1. ~Restarted(t)
      BY <2>2, <2>4
    <3>2. ASSUME NEW k \in Jobs \ {j}, job'[k].thread = t PROVE t \in Thread \ {u}
      BY <2>1, <3>1, <3>2, OneReview DEF Starts
    <3>3. Claimed(t)
      BY <2>1, <2>3, <2>4, <3>2, SameClaims
    <3>4. Done(t)
      BY <1>2, <3>1, <3>3
    <3>5. QED
      BY <1>4, <2>1, <3>1, <3>4, BeginningCarries, DoneStays
  <2>5. QED
    BY <1>1, <2>4
<1>5. ASSUME NEW i \in Invocation, Nodes(i) PROVE ClaimInv'
  <2>1. /\ Working(i)
        /\ \A k \in Invocation : (Working(k)' <=> Working(k)) /\ ThreadOf(k)' = ThreadOf(k)
        /\ \A k \in Invocation \ {i} : mem'[k] = mem[k]
        /\ \A k \in Invocation : k \in dirty => k \in dirty'
        /\ runs' = runs /\ job' = job /\ saved' = saved
    BY <1>5, NodeFrame
  <2>2. /\ mem'[i].next = "paused" => i \in dirty'
        /\ \A k \in Invocation : mem'[k].hitl = mem[k].hitl
        /\ \A k \in Jobs : k \in Invocation
    BY <1>5, <2>1, PauseIsUnwritten, NodesKeepTheAnswer, WhoWorks
  <2>3. \A t \in Thread : ~Restarted(t)' => ~Restarted(t)
    BY <2>1, SameThreads
  <2>4. ASSUME NEW t \in Thread, ~Restarted(t)', Claimed(t)' PROVE Done(t)'
    <3>1. ~Restarted(t)
      BY <2>3, <2>4
    <3>2. ASSUME NEW k \in Jobs, mem'[k].next = "paused", ~(k \in dirty')
          PROVE  mem[k].next = "paused" /\ k \notin dirty
      BY <2>1, <2>2, <3>2
    <3>3. Claimed(t)
      BY <2>1, <2>2, <2>4, <3>2, SameClaims
    <3>4. Done(t) /\ (reported[t] # {} => reported'[t] # {})
      BY <1>2, <1>5, <3>1, <3>3, NodeReports
    <3>5. QED
      BY <1>5, <3>4, NodeCarries, DoneStays
  <2>5. QED
    BY <1>1, <2>4
<1>6. ASSUME NEW i \in Invocation, put_checkpoint(i) PROVE ClaimInv'
  <2>1. /\ Working(i) /\ i \in dirty /\ dirty' = dirty \ {i}
        /\ ThreadOf(i) \in Thread /\ saved'[ThreadOf(i)] = mem[i]
        /\ \A t \in Thread \ {ThreadOf(i)} : saved'[t] = saved[t]
        /\ \A k \in Invocation : (Working(k)' <=> Working(k)) /\ ThreadOf(k)' = ThreadOf(k)
        /\ runs' = runs /\ job' = job /\ mem' = mem /\ reported' = reported
    BY <1>6, PutFrame
  <2>2. \A t \in Thread : ~Restarted(t)' => ~Restarted(t)
    BY <2>1, SameThreads
  <2>3. \A k \in Jobs : k \in Invocation /\ ThreadOf(k) = job[k].thread
    BY WhoWorks
  <2>4. ASSUME NEW t \in Thread, ~Restarted(t)', Claimed(t)' PROVE Done(t)'
    <3>1. ~Restarted(t)
      BY <2>2, <2>4
    <3>2. ASSUME NEW k \in Jobs, job[k].thread = t, Working(k), mem[k].next = "paused",
                 ~(k \in dirty'), saved'[t].next # "paused"
          PROVE  Claimed(t) \/ (ThreadOf(i) = t /\ Answered(mem[i]))
      <4>1. CASE ThreadOf(i) # t
        <5>1. saved[t].next # "paused" /\ k # i /\ k \notin dirty
          BY <2>1, <2>3, <3>2, <4>1
        <5>2. QED
          BY <3>2, <5>1 DEF Claimed, Parked
      <4>2. CASE ThreadOf(i) = t
        <5>1. k # i /\ WorksOn(k, t) /\ WorksOn(i, t) /\ k \in Invocation
          BY <2>1, <2>3, <3>2, <4>2 DEF WorksOn
        <5>2. ~Sole(i, t)
          BY <5>1 DEF Sole
        <5>3. Answered(mem[i])
          BY <2>1, <3>1, <5>1, <5>2, WhoHasTheAnswer
        <5>4. QED
          BY <4>2, <5>3
      <4>3. QED
        BY <4>1, <4>2
    <3>3. Claimed(t) \/ (ThreadOf(i) = t /\ Answered(mem[i]))
      <4>1. \/ runs[t] = "complete"
            \/ \E k \in Jobs :
                 /\ job[k].thread = t
                 /\ \/ job[k].loc = "returned" /\ ~job[k].paused
                    \/ /\ Working(k) /\ mem[k].next = "paused" /\ ~(k \in dirty')
                       /\ saved'[t].next # "paused"
        BY <2>1, <2>3, <2>4, ClaimedNext
      <4>2. QED
        BY <3>2, <4>1 DEF Claimed
    <3>4. \/ reported[t] # {}
          \/ Carried(t) \/ (ThreadOf(i) = t /\ Answered(mem[i]))
      BY <1>2, <3>1, <3>3 DEF Done
    <3>5. \/ reported[t] # {}
          \/ Carried(t)' \/ (ThreadOf(i) = t /\ mem[i].next = "end")
      BY <1>6, <3>1, <3>4, CheckpointCarries
    <3>6. ThreadOf(i) = t /\ mem[i].next = "end" => reported[t] # {}
      BY <2>1, <3>1, ReportedNow DEF Written
    <3>7. QED
      BY <2>1, <3>5, <3>6 DEF Done
  <2>5. QED
    BY <1>1, <2>4
<1>7. ASSUME NEW t \in Thread, ~Restarted(t), Claimed(t)', reported'[t] = reported[t],
             runs' = runs, saved' = saved,
             \A k \in Jobs :
               /\ job'[k] = job[k] \/ job'[k].loc = "accepted"
               /\ Working(k)' => Working(k) /\ ThreadOf(k)' = ThreadOf(k)
               /\ mem'[k] = mem[k] /\ (k \in dirty' <=> k \in dirty),
             \A k \in Invocation : Working(k) =>
                /\ Working(k)' /\ ThreadOf(k)' = ThreadOf(k)
                /\ mem'[k] = mem[k] /\ (k \in dirty' <=> k \in dirty)
      PROVE  Done(t)'
  <2>1. \A k \in Jobs : Working(k)' => job'[k] = job[k]
    BY <1>7, WhoWorksNext DEF At
  <2>2. \A k \in Jobs : job'[k].loc = "returned" => job'[k] = job[k]
    BY <1>7
  <2>3. Claimed(t)
    BY <1>7, <2>1, <2>2, SameClaims
  <2>4. Done(t)
    BY <1>2, <1>7, <2>3
  <2>5. QED
    BY <1>7, <2>4, CarriedStays, DoneStays
<1>8. ASSUME NEW j \in Jobs, NEW pr \in Prs, NEW kind \in Kind, NEW second \in Seconds,
             webhook_pr(j, pr, kind, second)
      PROVE  ClaimInv'
  <2> DEFINE u == [pr |-> pr, at |-> second]
  <2>1. /\ job'[j].loc = "accepted" /\ \A k \in Jobs \ {j} : job'[k] = job[k]
        /\ ~Restarted(u)' => ~Restarted(u)
        /\ \A t \in Thread \ {u} : Restarted(t)' = Restarted(t)
        /\ \A t \in Thread : ~Restarted(t)' => reported'[t] = reported[t]
        /\ \A k \in Invocation : /\ Working(k)' <=> Working(k)
                                 /\ Working(k) => ThreadOf(k)' = ThreadOf(k)
        /\ runs' = runs /\ mem' = mem /\ saved' = saved /\ dirty' = dirty
    BY <1>8, WebhookFrame
  <2>2. \A k \in Jobs : k \in Invocation
    BY WhoWorks
  <2>3. QED
    BY <1>1, <1>7, <2>1, <2>2
<1>9. ASSUME NEW c \in Clients, NEW u \in Thread, NEW choice \in Choices,
             resume(c, u, choice)
      PROVE  ClaimInv'
  <2>1. /\ \A k \in Invocation : /\ Working(k)' <=> Working(k)
                                 /\ Working(k) => ThreadOf(k)' = ThreadOf(k)
        /\ runs' = runs /\ mem' = mem /\ saved' = saved /\ dirty' = dirty
        /\ job' = job /\ reported' = reported
    BY <1>9, AdmissionFrame
  <2>2. \A t \in Thread : ~Restarted(t)' => ~Restarted(t)
    BY <2>1, SameThreads
  <2>3. \A k \in Jobs : k \in Invocation
    BY WhoWorks
  <2>4. QED
    BY <1>1, <1>7, <2>1, <2>2, <2>3
<1>10. ASSUME NEW c \in Clients, resume_review(c) PROVE ClaimInv'
  <2>1. /\ \A k \in Invocation \ {c} : mem'[k] = mem[k]
        /\ ~Working(c)
        /\ \A k \in Invocation \ {c} : (Working(k)' <=> Working(k))
                                       /\ ThreadOf(k)' = ThreadOf(k)
        /\ \A k \in Invocation \ {c} : k \in dirty' <=> k \in dirty
        /\ runs' = runs /\ job' = job /\ saved' = saved /\ reported' = reported
    BY <1>10, DecisionFrame
  <2>2. \A t \in Thread : ~Restarted(t)' => ~Restarted(t)
    BY <2>1, SameThreads
  <2>3. \A k \in Jobs : k \in Invocation \ {c}
    BY WhoWorks
  <2>4. QED
    BY <1>1, <1>7, <2>1, <2>2, <2>3
<1>11. ASSUME NEW u \in Thread, run_resumer(u) PROVE ClaimInv'
  <2>1. /\ \A k \in Invocation : ~Working(k) /\ (Working(k)' <=> k = Resumer)
        /\ runs' = runs /\ job' = job /\ saved' = saved /\ reported' = reported
    BY <1>11, ResumerFrame
  <2>2. \A t \in Thread : ~Restarted(t)' => ~Restarted(t)
    BY <2>1, SameThreads
  <2>3. \A k \in Jobs : ~Working(k)'
    BY <2>1, WhoWorks
  <2>4. ASSUME NEW t \in Thread, ~Restarted(t)', Claimed(t)' PROVE Done(t)'
    <3>1. Claimed(t)
      BY <2>1, <2>3, <2>4, SameClaims
    <3>2. Done(t)
      BY <1>2, <2>2, <2>4, <3>1
    <3>3. QED
      BY <2>1, <3>2, CarriedStays, DoneStays
  <2>5. QED
    BY <1>1, <2>4
<1>12. QED
  BY <1>3, <1>4, <1>5, <1>6, <1>8, <1>9, <1>10, <1>11, StepKinds

\* A review that the status endpoint calls complete has a report, or somebody
\* with the human's answer is on the way to write it, or could not.
THEOREM CompletedHaveReports == Spec => []CompleteHasReport
<1>1. Init => ReportedInv /\ ClaimInv
  <2> SUFFICES ASSUME Init PROVE ReportedInv /\ ClaimInv
    OBVIOUS
  <2>1. /\ up = TRUE /\ offline = NoThread
        /\ \A c \in Clients : req[c].loc = "idle"
        /\ \A j \in Jobs : job[j].loc = "free"
        /\ \A t \in Thread : saved[t].next = "none" /\ runs[t] = "absent"
    BY DEF Init, Idle, NoJob, Blank
  <2>2. \A i \in Invocation : ~Working(i)
    BY <2>1, WhoWorks DEF Invocation, At
  <2>3. \A j \in Jobs : ~Working(j)
    BY <2>2, WhoWorks
  <2>4. ReportedInv
    BY <2>1, <2>2 DEF ReportedInv, WorksOn, Written
  <2>5. ClaimInv
    BY <2>1, <2>3 DEF ClaimInv, Claimed
  <2>6. QED
    BY <2>4, <2>5
<1>2. /\ TypeInv /\ HandsInv /\ ReportedInv /\ ClaimInv /\ [Next]_vars
      => ReportedInv' /\ ClaimInv'
  BY ReportedStep, ClaimStep
<1>3. ClaimInv => CompleteHasReport
  BY DEF ClaimInv, Claimed, Done, Carried, Carries, WorksOn, CompleteHasReport,
         review_status, SomebodyWorksOn
<1>4. QED
  BY <1>1, <1>2, <1>3, ReviewsInHand, PTL DEF Spec

-----------------------------------------------------------------------------
(***************************************************************************)
(* Nobody stops half-way, as long as the process lives.                    *)
(***************************************************************************)

\* As long as the process lives there is nothing for the resumer.
AliveInv == crashes = 0 => up /\ offline = NoThread

\* Nobody will touch a review that failed.
Abandoned(t) ==
  /\ saved[t].next # "paused" /\ NobodyAsks(t)
  /\ \A i \in Invocation : ~WorksOn(i, t)
  /\ Starts(t) # {} /\ \A j \in Starts(t) : job[j].loc = "done"

\* There is a step or a checkpoint ahead of one who has no answer, and whose
\* exceptions are therefore caught.
Busy(i) ==
  /\ ~Answered(mem[i])
  /\ i \in dirty \/ mem[i].next \notin {"paused", "end"}

SomebodyBusyOn(t) == \E i \in Invocation : WorksOn(i, t) /\ Busy(i)

Rest == {"none", "paused", "end"}

FailedInv ==
  crashes = 0 =>
    \A t \in Thread : ~Restarted(t) /\ runs[t] = "failed" => Abandoned(t)

BusyInv ==
  crashes = 0 =>
    \A t \in Thread : ~Restarted(t) /\ saved[t].next \notin Rest =>
      runs[t] = "failed" \/ Carried(t) \/ SomebodyBusyOn(t)

\* Only a crash is counted.
LEMMA CrashesCount ==
  ASSUME TypeInv, [Next]_vars, crashes' = 0
  PROVE  crashes = 0 /\ ~crash
<1>1. crashes \in Nat
  BY MaxCrashesAssumption DEF TypeInv, ServiceTypeOK
<1>2. ~crash
  <2>1. crash => crashes' = crashes + 1
    BY DEF crash
  <2>2. QED
    BY <1>1, <2>1
<1>3. crashes' = crashes
  BY <1>2 DEF Next, restart, resumer_exits, Task, run_review, materialize_clear,
     materialize_copy, materialize_raises, materialise_refuses, materialise_inline,
     materialise_escapes, invoke_returns, run_review_ends, webhook_pr, Graph, intake,
     scan, node_raises, apply_fix, hitl_approval, apply_decision, persist_report,
     upload_report, put_checkpoint, Request, resume_review, resume_responds, resume,
     Admit, run_resumer, Fails, Begin, Step, vars
<1>4. QED
  BY <1>2, <1>3

\* Whoever halts with the process alive leaves it so.
LEMMA HaltingLeavesAlive ==
  ASSUME TypeInv, Halting, ~crash, up
  PROVE  up'
<1>1. ASSUME NEW j \in Jobs, TaskHalts(j) PROVE up'
  BY <1>1, TaskFrame
<1>2. ASSUME NEW i \in Invocation, node_raises(i) PROVE up'
  BY <1>2 DEF node_raises, Fails
<1>3. ASSUME NEW c \in Clients, resume_responds(c) PROVE up'
  BY <1>3 DEF resume_responds
<1>4. QED
  BY <1>1, <1>2, <1>3 DEF Halting, resumer_exits, restart, vars

\* The process lives on, but for a crash.
LEMMA AliveStep ==
  ASSUME TypeInv, AliveInv, [Next]_vars
  PROVE  AliveInv'
<1> SUFFICES ASSUME crashes' = 0 PROVE up' /\ offline' = NoThread
  BY DEF AliveInv
<1>1. crashes = 0 /\ ~crash /\ up /\ offline = NoThread
  BY CrashesCount DEF AliveInv
<1>2. CASE Halting
  BY <1>1, <1>2, HaltFrame, HaltingLeavesAlive DEF HaltFacts
<1>3. ASSUME NEW j \in Jobs, Begins(j) PROVE up' /\ offline' = NoThread
  BY <1>1, <1>3, BeginFrame
<1>4. ASSUME NEW i \in Invocation, Nodes(i) PROVE up' /\ offline' = NoThread
  BY <1>1, <1>4, NodeFrame
<1>5. ASSUME NEW i \in Invocation, put_checkpoint(i) PROVE up' /\ offline' = NoThread
  BY <1>1, <1>5, PutFrame
<1>6. ASSUME NEW j \in Jobs, NEW pr \in Prs, NEW kind \in Kind, NEW second \in Seconds,
             webhook_pr(j, pr, kind, second)
      PROVE  up' /\ offline' = NoThread
  BY <1>1, <1>6, WebhookFrame
<1>7. ASSUME NEW c \in Clients, NEW u \in Thread, NEW choice \in Choices,
             resume(c, u, choice)
      PROVE  up' /\ offline' = NoThread
  BY <1>1, <1>7, AdmissionFrame
<1>8. ASSUME NEW c \in Clients, resume_review(c) PROVE up' /\ offline' = NoThread
  BY <1>1, <1>8, DecisionFrame
<1>9. ASSUME NEW u \in Thread, run_resumer(u) PROVE FALSE
  BY <1>1, <1>9, ResumerFrame
<1>10. QED
  BY <1>2, <1>3, <1>4, <1>5, <1>6, <1>7, <1>8, <1>9, StepKinds

\* It is kept when it is for every thread with one review.
LEMMA FailedKept ==
  ASSUME \A t \in Thread : ~Restarted(t)' /\ runs'[t] = "failed" =>
           /\ saved'[t].next # "paused"
           /\ \A c \in Clients : req'[c].loc # "idle" => req'[c].thread # t
           /\ \A i \in Invocation : ~(Working(i)' /\ ThreadOf(i)' = t)
           /\ \E j \in Jobs : job'[j].thread = t
           /\ \A j \in Jobs : job'[j].thread = t => job'[j].loc = "done"
  PROVE  FailedInv'
<1> SUFFICES ASSUME NEW t \in Thread, ~Restarted(t)', runs'[t] = "failed"
             PROVE  Abandoned(t)'
  BY DEF FailedInv
<1>1. NobodyAsks(t)' /\ \A i \in Invocation : ~WorksOn(i, t)'
  BY DEF NobodyAsks, WorksOn
<1>2. Starts(t)' # {} /\ \A j \in Starts(t)' : job'[j].loc = "done"
  BY DEF Starts
<1>3. QED
  BY <1>1, <1>2 DEF Abandoned

\* The same, unfolded.
LEMMA FailedNow ==
  ASSUME FailedInv, crashes = 0, NEW t \in Thread, ~Restarted(t), runs[t] = "failed"
  PROVE  /\ saved[t].next # "paused"
         /\ \A c \in Clients : req[c].loc # "idle" => req[c].thread # t
         /\ \A i \in Invocation : ~(Working(i) /\ ThreadOf(i) = t)
         /\ \E j \in Jobs : job[j].thread = t
         /\ \A j \in Jobs : job[j].thread = t => job[j].loc = "done"
BY DEF FailedInv, Abandoned, NobodyAsks, WorksOn, Starts

\* A task that fails before it begins, or in the graph, leaves a review that
\* nobody touches.
LEMMA TaskFails ==
  ASSUME TypeInv, HandsInv, NEW j \in Jobs,
         TaskHalts(j) \/ node_raises(j), NEW t \in Thread, ~Restarted(t),
         runs[t] # "failed", runs'[t] = "failed"
  PROVE  /\ job[j].thread = t /\ job[j].loc # "free"
         /\ job'[j].loc = "done" /\ ~Working(j)'
         /\ saved[t].next # "paused" /\ NobodyAsks(t)
         /\ \A i \in Invocation \ {j} : ~(Working(i) /\ ThreadOf(i) = t)
<1>1. up /\ job[j].loc # "free"
  BY TaskFrame, RaiseFacts, WhoWorks
<1>2. /\ job \in [Jobs -> JobRecord] /\ runs \in [Thread -> RunState]
      /\ job[j].thread \in Thread
  BY <1>1, TaskFacts
<1>3. /\ materialize_raises(j) \/ materialise_refuses(j) \/ materialise_escapes(j)
         \/ node_raises(j)
      /\ job[j].thread = t
  BY <1>2
  DEF TaskHalts, Task, run_review, materialize_clear, materialize_raises,
      materialise_refuses, materialise_escapes, invoke_returns, run_review_ends,
      node_raises, Fails
<1>4. Fails(j)
  BY <1>3 DEF materialize_raises, materialise_refuses, materialise_escapes, node_raises
<1>5. job'[j].loc = "done"
  BY <1>2, <1>4 DEF Fails, JobRecord
<1>6. ~Working(j)'
  BY <1>5, WhoWorksNext DEF At
<1>7. CASE node_raises(j)
  <2>1. Working(j) /\ mem[j].next # "paused" /\ j \in Invocation
    BY <1>7, RaiseFacts, WhoWorks
  <2>2. WorksOn(j, t)
    BY <1>3, <2>1, WhoWorks DEF WorksOn
  <2>3. Sole(j, t)
    BY <2>1, <2>2, WhoHasTheAnswer
  <2>4. QED
    BY <1>1, <1>3, <1>5, <1>6, <2>3 DEF Sole, WorksOn
<1>8. CASE ~node_raises(j)
  <2>1. job[j].loc \in PreWork
    BY <1>3, <1>8
    DEF materialize_raises, materialise_refuses, materialise_escapes, At, PreWork
  <2>2. saved[t] = Blank /\ \A i \in Invocation : ~(Working(i) /\ ThreadOf(i) = t)
    BY <1>3, <2>1, NothingToSayYet
  <2>3. NobodyAsks(t)
    <3>1. Hands(t) /\ j \in Starts(t)
      BY <1>3 DEF HandsInv, Starts
    <3>2. \A k \in Starts(t) : job[k].loc \in PreWork
      BY <2>1, <3>1, OneReview
    <3>3. QED
      BY <3>1, <3>2 DEF Hands, Untouched
  <2>4. saved[t].next # "paused"
    BY <2>2 DEF Blank
  <2>5. QED
    BY <1>1, <1>3, <1>5, <1>6, <2>2, <2>3, <2>4
<1>9. QED
  BY <1>7, <1>8

\* A review that failed stays abandoned when somebody halts.
LEMMA HaltingFails ==
  ASSUME TypeInv, HandsInv, FailedInv, crashes = 0, ~crash, Halting,
         NEW t \in Thread, ~Restarted(t), runs'[t] = "failed"
  PROVE  /\ saved'[t].next # "paused"
         /\ \A c \in Clients : req'[c].loc # "idle" => req'[c].thread # t
         /\ \A i \in Invocation : ~(Working(i)' /\ ThreadOf(i)' = t)
         /\ \E j \in Jobs : job'[j].thread = t
         /\ \A j \in Jobs : job'[j].thread = t => job'[j].loc = "done"
<1>1. /\ WorkersContinue /\ RequestsContinue /\ TasksContinue /\ saved' = saved
  BY HaltFrame DEF HaltFacts
<1>2. /\ \A k \in Invocation : Working(k)' => Working(k) /\ ThreadOf(k)' = ThreadOf(k)
      /\ \A c \in Clients : req'[c].loc # "idle" => req'[c] = req[c]
      /\ \A j \in Jobs : job'[j].thread = job[j].thread
  BY <1>1 DEF WorkersContinue, RequestsContinue, TasksContinue
<1>3. CASE runs[t] # "failed"
  <2>1. PICK j \in Jobs : TaskHalts(j) \/ node_raises(j)
    <3>1. ASSUME NEW i \in Invocation \ Jobs, node_raises(i) PROVE FALSE
      BY <1>3, <3>1 DEF node_raises
    <3>2. ASSUME NEW c \in Clients, resume_responds(c) PROVE FALSE
      <4>1. runs' = [runs EXCEPT ![req[c].thread] = "complete"]
            /\ runs \in [Thread -> RunState]
        BY <3>2, RequestFacts DEF resume_responds
      <4>2. QED
        BY <1>3, <4>1
    <3>3. ~(resumer_exits \/ restart \/ UNCHANGED vars)
      BY <1>3 DEF resumer_exits, restart, vars, memory
    <3>4. QED
      BY <3>1, <3>2, <3>3 DEF Halting
  <2>2. /\ job[j].thread = t /\ job'[j].loc = "done" /\ ~Working(j)'
        /\ saved[t].next # "paused" /\ NobodyAsks(t)
        /\ \A i \in Invocation \ {j} : ~(Working(i) /\ ThreadOf(i) = t)
    BY <1>3, <2>1, TaskFails
  <2>3. \A k \in Jobs : job'[k].thread = t => k = j
    BY <1>2, <2>2, OneReview DEF Starts
  <2>4. \A c \in Clients : req'[c].loc # "idle" => req'[c].thread # t
    BY <1>2, <2>2 DEF NobodyAsks
  <2>5. \A i \in Invocation : ~(Working(i)' /\ ThreadOf(i)' = t)
    BY <1>2, <2>2
  <2>6. QED
    BY <1>1, <1>2, <2>2, <2>3, <2>4, <2>5
<1>4. CASE runs[t] = "failed"
  <2>1. /\ saved[t].next # "paused"
        /\ \A c \in Clients : req[c].loc # "idle" => req[c].thread # t
        /\ \A i \in Invocation : ~(Working(i) /\ ThreadOf(i) = t)
        /\ \E j \in Jobs : job[j].thread = t
        /\ \A j \in Jobs : job[j].thread = t => job[j].loc = "done"
    BY <1>4, FailedNow
  <2>2. ASSUME NEW j \in Jobs, job[j].thread = t PROVE job'[j].loc = "done"
    <3>1. ASSUME NEW k \in Jobs, TaskHalts(k) PROVE job'[j] = job[j]
      <4>1. job[k].loc # "done"
        BY <3>1, WhoWorks
        DEF TaskHalts, Task, run_review, materialize_clear, materialize_raises,
            materialise_refuses, materialise_escapes, invoke_returns, run_review_ends,
            Returned, At
      <4>2. k # j
        BY <2>1, <2>2, <4>1
      <4>3. QED
        BY <3>1, <4>2, TaskFrame
    <3>2. ASSUME NEW i \in Invocation, node_raises(i) PROVE job'[j] = job[j]
      <4>1. CASE i \in Jobs
        <5>1. job[i].loc = "working" /\ job' = [job EXCEPT ![i].loc = "done"]
              /\ job \in [Jobs -> JobRecord]
          BY <3>2, <4>1, RaiseFacts, TaskFacts DEF Fails
        <5>2. i # j
          BY <2>1, <2>2, <5>1
        <5>3. QED
          BY <5>1, <5>2
      <4>2. CASE i \notin Jobs
        BY <3>2, <4>2, LeaverFrame
      <4>3. QED
        BY <4>1, <4>2
    <3>3. ASSUME \/ \E c \in Clients : resume_responds(c)
                 \/ resumer_exits \/ restart \/ UNCHANGED vars
          PROVE  job'[j] = job[j]
      BY <3>3 DEF resume_responds, resumer_exits, restart, vars, memory
    <3>4. job'[j] = job[j]
      BY <3>1, <3>2, <3>3 DEF Halting
    <3>5. QED
      BY <2>1, <2>2, <3>4
  <2>3. QED
    BY <1>1, <1>2, <2>1, <2>2
<1>5. QED
  BY <1>3, <1>4

\* No step touches a review that failed.
LEMMA FailedStep ==
  ASSUME TypeInv, HandsInv, AliveInv, FailedInv, [Next]_vars
  PROVE  FailedInv'
<1> SUFFICES ASSUME crashes' = 0 PROVE FailedInv'
  BY DEF FailedInv
<1>1. crashes = 0 /\ ~crash /\ up
  BY CrashesCount DEF AliveInv
<1>2. ASSUME NEW t \in Thread, ~Restarted(t), runs[t] = "failed"
      PROVE  /\ saved[t].next # "paused"
             /\ \A c \in Clients : req[c].loc # "idle" => req[c].thread # t
             /\ \A i \in Invocation : ~(Working(i) /\ ThreadOf(i) = t)
             /\ \E j \in Jobs : job[j].thread = t
             /\ \A j \in Jobs : job[j].thread = t => job[j].loc = "done"
  BY <1>1, <1>2, FailedNow
<1>3. CASE Halting
  <2>1. \A t \in Thread : ~Restarted(t)' => ~Restarted(t)
    BY <1>3, HaltFrame, SameThreads DEF HaltFacts, TasksContinue
  <2>2. QED
    BY <1>1, <1>3, <2>1, HaltingFails, FailedKept
<1>4. ASSUME NEW j \in Jobs, Begins(j) PROVE FailedInv'
  <2>1. /\ job[j].loc \in {"materialising", "cleared"}
        /\ \A k \in Jobs \ {j} : job'[k] = job[k]
        /\ \A k \in Jobs : job'[k].thread = job[k].thread
        /\ \A t \in Thread \ {job[j].thread} : saved'[t] = saved[t]
        /\ ThreadOf(j)' = job[j].thread
        /\ \A k \in Invocation \ {j} : (Working(k)' <=> Working(k))
                                       /\ ThreadOf(k)' = ThreadOf(k)
        /\ runs' = runs /\ req' = req
    BY <1>4, BeginFrame
  <2>2. \A t \in Thread : ~Restarted(t)' => ~Restarted(t)
    BY <2>1, SameThreads
  <2>3. \A t \in Thread : ~Restarted(t)' /\ runs'[t] = "failed" => t # job[j].thread
    BY <1>2, <2>1, <2>2
  <2>4. QED
    BY <1>2, <2>1, <2>2, <2>3, FailedKept
<1>5. ASSUME NEW i \in Invocation, Nodes(i) PROVE FailedInv'
  <2>1. /\ \A k \in Invocation : (Working(k)' <=> Working(k)) /\ ThreadOf(k)' = ThreadOf(k)
        /\ runs' = runs /\ job' = job /\ req' = req /\ saved' = saved
    BY <1>5, NodeFrame
  <2>2. \A t \in Thread : ~Restarted(t)' => ~Restarted(t)
    BY <2>1, SameThreads
  <2>3. QED
    BY <1>2, <2>1, <2>2, FailedKept
<1>6. ASSUME NEW i \in Invocation, put_checkpoint(i) PROVE FailedInv'
  <2>1. /\ Working(i)
        /\ \A t \in Thread \ {ThreadOf(i)} : saved'[t] = saved[t]
        /\ \A k \in Invocation : (Working(k)' <=> Working(k)) /\ ThreadOf(k)' = ThreadOf(k)
        /\ runs' = runs /\ job' = job /\ req' = req
    BY <1>6, PutFrame
  <2>2. \A t \in Thread : ~Restarted(t)' => ~Restarted(t)
    BY <2>1, SameThreads
  <2>3. QED
    BY <1>2, <2>1, <2>2, FailedKept
<1>7. ASSUME NEW j \in Jobs, NEW pr \in Prs, NEW kind \in Kind, NEW second \in Seconds,
             webhook_pr(j, pr, kind, second)
      PROVE  FailedInv'
  <2> DEFINE u == [pr |-> pr, at |-> second]
  <2>1. /\ \A k \in Jobs \ {j} : job'[k] = job[k]
        /\ ~Restarted(u)' => Starts(u) = {} /\ ~Restarted(u)
        /\ \A t \in Thread \ {u} : Restarted(t)' = Restarted(t)
        /\ \A k \in Invocation : /\ Working(k)' <=> Working(k)
                                 /\ Working(k) => ThreadOf(k)' = ThreadOf(k)
        /\ runs' = runs /\ req' = req /\ saved' = saved
    BY <1>7, WebhookFrame
  <2>2. \A t \in Thread : ~Restarted(t)' => ~Restarted(t)
    BY <2>1
  <2>3. /\ \A t \in Thread : j \notin Starts(t)
        /\ job'[j].thread = u
    <3>1. \A t \in Thread : j \notin Starts(t)
      BY <1>7, WebhookFrame
    <3>2. job' = [job EXCEPT ![j] = [loc |-> "accepted", kind |-> kind, thread |-> u,
                                     paused |-> FALSE]]
      BY <1>7 DEF webhook_pr
    <3>3. job'[j].thread = u
      BY <3>2 DEF TypeInv, ServiceTypeOK
    <3>4. QED
      BY <3>1, <3>3
  <2>4. \A t \in Thread : ~Restarted(t)' /\ runs'[t] = "failed" => t # u
    BY <1>2, <2>1, <2>2 DEF Starts
  <2>5. \A k \in Jobs : \A t \in Thread : job[k].thread = t => k # j
    BY <2>3 DEF Starts
  <2>6. QED
    BY <1>2, <2>1, <2>2, <2>3, <2>4, <2>5, FailedKept
<1>8. ASSUME NEW c \in Clients, NEW u \in Thread, NEW choice \in Choices,
             resume(c, u, choice)
      PROVE  FailedInv'
  <2>1. /\ saved[u].next = "paused" /\ req'[c].thread = u
        /\ \A d \in Clients \ {c} : req'[d].loc = req[d].loc /\ req'[d].thread = req[d].thread
        /\ \A k \in Invocation : /\ Working(k)' <=> Working(k)
                                 /\ Working(k) => ThreadOf(k)' = ThreadOf(k)
        /\ runs' = runs /\ job' = job /\ saved' = saved
    BY <1>8, AdmissionFrame
  <2>2. \A t \in Thread : ~Restarted(t)' => ~Restarted(t)
    BY <2>1, SameThreads
  <2>3. \A t \in Thread : ~Restarted(t)' /\ runs'[t] = "failed" => t # u
    BY <1>2, <2>1, <2>2
  <2>4. QED
    BY <1>2, <2>1, <2>2, <2>3, FailedKept
<1>9. ASSUME NEW c \in Clients, resume_review(c) PROVE FailedInv'
  <2>1. /\ req[c].loc = "checked" /\ req'[c].thread = req[c].thread
        /\ \A d \in Clients \ {c} : req'[d] = req[d]
        /\ ThreadOf(c)' = req[c].thread
        /\ \A k \in Invocation \ {c} : (Working(k)' <=> Working(k))
                                       /\ ThreadOf(k)' = ThreadOf(k)
        /\ runs' = runs /\ job' = job /\ saved' = saved
    BY <1>9, DecisionFrame
  <2>2. \A t \in Thread : ~Restarted(t)' => ~Restarted(t)
    BY <2>1, SameThreads
  <2>3. QED
    BY <1>2, <2>1, <2>2, FailedKept
<1>10. ASSUME NEW u \in Thread, run_resumer(u) PROVE FALSE
  BY <1>1, <1>10, ResumerFrame
<1>11. QED
  BY <1>3, <1>4, <1>5, <1>6, <1>7, <1>8, <1>9, <1>10, StepKinds

\* It is kept when there is somebody to go on.
LEMMA BusyKept ==
  ASSUME \A t \in Thread : ~Restarted(t)' /\ saved'[t].next \notin Rest =>
           \/ runs'[t] = "failed"
           \/ Carried(t)'
           \/ \E i \in Invocation :
                /\ Working(i)' /\ ThreadOf(i)' = t /\ mem'[i].hitl = Undecided
                /\ i \in dirty' \/ mem'[i].next \notin {"paused", "end"}
  PROVE  BusyInv'
BY DEF BusyInv, SomebodyBusyOn, WorksOn, Busy, Answered, Rest

\* The same, unfolded.
LEMMA BusyNow ==
  ASSUME BusyInv, crashes = 0, NEW t \in Thread, ~Restarted(t), saved[t].next \notin Rest
  PROVE  \/ runs[t] = "failed"
         \/ Carried(t)
         \/ \E i \in Invocation :
              /\ Working(i) /\ ThreadOf(i) = t /\ mem[i].hitl = Undecided
              /\ i \in dirty \/ mem[i].next \notin {"paused", "end"}
BY DEF BusyInv, SomebodyBusyOn, WorksOn, Busy, Answered

\* Whoever is busy is not the one who halts, unless the review fails.
LEMMA BusyGoesOn ==
  ASSUME TypeInv, HandsInv, AliveInv, crashes = 0, ~crash, Halting,
         NEW t \in Thread, ~Restarted(t), runs'[t] # "failed",
         NEW i \in Invocation, Working(i), ThreadOf(i) = t, mem[i].hitl = Undecided,
         i \in dirty \/ mem[i].next \notin {"paused", "end"}
  PROVE  /\ Working(i)' /\ ThreadOf(i)' = t /\ mem'[i].hitl = Undecided
         /\ i \in dirty' \/ mem'[i].next \notin {"paused", "end"}
<1>1. up /\ offline = NoThread /\ i # Resumer
  BY WhoWorks DEF AliveInv
<1>2. ASSUME up' = up, i \in Jobs => job'[i] = job[i], i \in Clients => req'[i] = req[i],
             mem'[i] = mem[i], i \in dirty' <=> i \in dirty
      PROVE  /\ Working(i)' /\ ThreadOf(i)' = t /\ mem'[i].hitl = Undecided
             /\ i \in dirty' \/ mem'[i].next \notin {"paused", "end"}
  <2>1. CASE i \in Jobs
    BY <1>2, <2>1, WhoWorks, WhoWorksNext DEF At
  <2>2. CASE i \in Clients
    BY <1>2, <2>2, WhoWorks, WhoWorksNext
  <2>3. QED
    BY <1>1, <2>1, <2>2 DEF Invocation
<1>3. ASSUME NEW j \in Jobs, TaskHalts(j), j # i
      PROVE  /\ Working(i)' /\ ThreadOf(i)' = t /\ mem'[i].hitl = Undecided
             /\ i \in dirty' \/ mem'[i].next \notin {"paused", "end"}
  <2>1. /\ \A k \in Jobs \ {j} : job'[k] = job[k]
        /\ \A k \in Invocation \ {j} : mem'[k] = mem[k]
        /\ dirty' \in {dirty, dirty \ {j}}
        /\ up' = up /\ req' = req
    BY <1>3, TaskFrame
  <2>2. QED
    BY <1>2, <1>3, <2>1
<1>4. ASSUME NEW j \in Jobs, TaskHalts(j) PROVE j # i
  <2>1. SUFFICES ASSUME j = i PROVE FALSE
    OBVIOUS
  <2>2. job[j].loc = "working"
    BY <2>1, WhoWorks DEF At
  <2>3. invoke_returns(j)
    BY <1>4, <2>2
    DEF TaskHalts, Task, run_review, materialize_clear, materialize_raises,
        materialise_refuses, materialise_escapes, run_review_ends, At
  <2>4. QED
    BY <2>1, <2>3 DEF invoke_returns, Returned
<1>5. ASSUME NEW k \in Invocation, k \notin Jobs, k # i,
             \/ node_raises(k)
             \/ k \in Clients /\ resume_responds(k)
      PROVE  /\ Working(i)' /\ ThreadOf(i)' = t /\ mem'[i].hitl = Undecided
             /\ i \in dirty' \/ mem'[i].next \notin {"paused", "end"}
  <2>1. /\ mem'[i] = mem[i] /\ dirty' \in {dirty, dirty \ {k}}
        /\ i \in Clients => req'[i] = req[i]
        /\ up' = up /\ job' = job
    BY <1>5, LeaverFrame
  <2>2. QED
    BY <1>2, <1>5, <2>1
<1>6. ASSUME NEW k \in Invocation, node_raises(k)
      PROVE  /\ Working(i)' /\ ThreadOf(i)' = t /\ mem'[i].hitl = Undecided
             /\ i \in dirty' \/ mem'[i].next \notin {"paused", "end"}
  <2>1. k # i
    <3>1. SUFFICES ASSUME k = i PROVE FALSE
      OBVIOUS
    <3>2. CASE i \in Jobs
      <4>1. Fails(i) /\ job[i].thread = t
        BY <1>6, <3>1, <3>2, RaiseFacts, WhoWorks
      <4>2. runs \in [Thread -> RunState]
        BY DEF TypeInv, ServiceTypeOK
      <4>3. QED
        BY <4>1, <4>2 DEF Fails
    <3>3. CASE i \in Clients
      BY <3>3, WhoHasTheAnswer DEF WorksOn, Answered
    <3>4. QED
      BY <1>1, <3>2, <3>3 DEF Invocation
  <2>2. CASE k \in Jobs
    <3>1. /\ up' = up /\ req' = req /\ job' = [job EXCEPT ![k].loc = "done"]
          /\ mem' = [mem EXCEPT ![k] = Blank] /\ dirty' = dirty \ {k}
      BY <1>6, <2>2, RaiseFacts DEF Fails
    <3>2. job \in [Jobs -> JobRecord] /\ mem \in [Invocation -> Snapshot]
      BY DEF TypeInv, ServiceTypeOK, JobRecord
    <3>3. QED
      BY <1>2, <2>1, <3>1, <3>2
  <2>3. CASE k \notin Jobs
    BY <1>5, <1>6, <2>1, <2>3
  <2>4. QED
    BY <2>2, <2>3
<1>7. ASSUME NEW c \in Clients, resume_responds(c)
      PROVE  /\ Working(i)' /\ ThreadOf(i)' = t /\ mem'[i].hitl = Undecided
             /\ i \in dirty' \/ mem'[i].next \notin {"paused", "end"}
  <2>1. c # i /\ c \in Invocation /\ c \notin Jobs
    BY <1>7, WhoWorks DEF resume_responds, Returned
  <2>2. QED
    BY <1>5, <1>7, <2>1
<1>8. ~resumer_exits /\ ~restart
  BY <1>1, WhoWorks DEF resumer_exits, Returned, restart
<1>9. ASSUME UNCHANGED vars
      PROVE  /\ Working(i)' /\ ThreadOf(i)' = t /\ mem'[i].hitl = Undecided
             /\ i \in dirty' \/ mem'[i].next \notin {"paused", "end"}
  BY <1>2, <1>9 DEF vars, memory
<1>10. QED
  BY <1>3, <1>4, <1>6, <1>7, <1>8, <1>9 DEF Halting

\* Every step leaves somebody to go on.
LEMMA BusyStep ==
  ASSUME TypeInv, HandsInv, AliveInv, FailedInv, BusyInv, [Next]_vars
  PROVE  BusyInv'
<1> SUFFICES ASSUME crashes' = 0 PROVE BusyInv'
  BY DEF BusyInv
<1>1. crashes = 0 /\ ~crash /\ up
  BY CrashesCount DEF AliveInv
<1>2. ASSUME NEW t \in Thread, ~Restarted(t), saved[t].next \notin Rest
      PROVE  \/ runs[t] = "failed"
             \/ Carried(t)
             \/ \E k \in Invocation :
                  /\ Working(k) /\ ThreadOf(k) = t /\ mem[k].hitl = Undecided
                  /\ k \in dirty \/ mem[k].next \notin {"paused", "end"}
  BY <1>1, <1>2, BusyNow
<1>3. CASE Halting
  <2>1. /\ \A t \in Thread : ~Restarted(t)' => ~Restarted(t)
        /\ saved' = saved
    BY <1>3, HaltFrame, SameThreads DEF HaltFacts, TasksContinue
  <2>2. ASSUME NEW t \in Thread, ~Restarted(t)', saved'[t].next \notin Rest,
               runs'[t] # "failed"
        PROVE  \/ Carried(t)'
               \/ \E k \in Invocation :
                    /\ Working(k)' /\ ThreadOf(k)' = t /\ mem'[k].hitl = Undecided
                    /\ k \in dirty' \/ mem'[k].next \notin {"paused", "end"}
    <3>1. ~Restarted(t) /\ saved[t].next \notin Rest
      BY <2>1, <2>2
    <3>2. CASE runs[t] = "failed"
      <4>1. /\ \A k \in Invocation : ~(Working(k) /\ ThreadOf(k) = t)
            /\ \A j \in Jobs : job[j].thread = t => job[j].loc = "done"
        BY <1>1, <3>1, <3>2, FailedNow
      <4>2. runs \in [Thread -> RunState]
        BY DEF TypeInv, ServiceTypeOK
      <4>3. ASSUME NEW j \in Jobs, TaskHalts(j) PROVE FALSE
        <5>1. job[j].loc # "done"
          BY <4>3, WhoWorks
          DEF TaskHalts, Task, run_review, materialize_clear, materialize_raises,
              materialise_refuses, materialise_escapes, invoke_returns, run_review_ends,
              Returned, At
        <5>2. job[j].thread # t
          BY <4>1, <5>1
        <5>3. runs'[t] = runs[t]
          BY <4>2, <4>3, <5>2
          DEF TaskHalts, Task, run_review, materialize_clear, materialize_raises,
              materialise_refuses, materialise_escapes, invoke_returns, run_review_ends,
              Fails
        <5>4. QED
          BY <2>2, <3>2, <5>3
      <4>4. ASSUME NEW k \in Invocation, node_raises(k) PROVE FALSE
        <5>1. runs' = runs \/ (k \in Jobs /\ runs' = [runs EXCEPT ![job[k].thread] = "failed"])
          BY <4>4 DEF node_raises, Fails
        <5>2. QED
          BY <2>2, <3>2, <4>2, <5>1
      <4>5. ASSUME NEW c \in Clients, resume_responds(c) PROVE FALSE
        <5>1. Working(c) /\ c \in Invocation /\ ThreadOf(c) = req[c].thread
              /\ runs' = [runs EXCEPT ![req[c].thread] = "complete"]
          BY <4>5, WhoWorks DEF resume_responds, Returned
        <5>2. runs'[t] = runs[t]
          BY <4>1, <4>2, <5>1
        <5>3. QED
          BY <2>2, <3>2, <5>2
      <4>6. ~(resumer_exits \/ restart \/ UNCHANGED vars)
        BY <2>2, <3>2 DEF resumer_exits, restart, vars, memory
      <4>7. QED
        BY <1>1, <1>3, <4>3, <4>4, <4>5, <4>6 DEF Halting
    <3>3. CASE Carried(t)
      BY <1>1, <1>3, <3>1, <3>3, HaltingCarries
    <3>4. CASE runs[t] # "failed" /\ ~Carried(t)
      <4>1. PICK k \in Invocation :
              /\ Working(k) /\ ThreadOf(k) = t /\ mem[k].hitl = Undecided
              /\ k \in dirty \/ mem[k].next \notin {"paused", "end"}
        BY <1>2, <3>1, <3>4
      <4>2. /\ Working(k)' /\ ThreadOf(k)' = t /\ mem'[k].hitl = Undecided
            /\ k \in dirty' \/ mem'[k].next \notin {"paused", "end"}
        BY <1>1, <1>3, <2>2, <3>1, <4>1, BusyGoesOn
      <4>3. QED
        BY <4>2
    <3>5. QED
      BY <3>2, <3>3, <3>4
  <2>3. QED
    BY <2>2, BusyKept
<1>4. ASSUME NEW j \in Jobs, Begins(j) PROVE BusyInv'
  <2>1. /\ job[j].thread \in Thread /\ job[j].loc \in {"materialising", "cleared"}
        /\ \A k \in Jobs : job'[k].thread = job[k].thread
        /\ mem'[j].next = "intake" /\ mem'[j].hitl = Undecided
        /\ \A k \in Invocation \ {j} : mem'[k] = mem[k]
        /\ \A t \in Thread \ {job[j].thread} : saved'[t] = saved[t]
        /\ Working(j)' /\ ThreadOf(j)' = job[j].thread
        /\ \A k \in Invocation \ {j} : (Working(k)' <=> Working(k))
                                       /\ ThreadOf(k)' = ThreadOf(k)
        /\ runs' = runs /\ dirty' = dirty
    BY <1>4, BeginFrame
  <2>2. \A t \in Thread : ~Restarted(t)' => ~Restarted(t)
    BY <2>1, SameThreads
  <2>3. j \in Invocation /\ ~Working(j)
    BY <2>1, WhoWorks DEF At
  <2>4. \A t \in Thread : ~Restarted(t)' /\ Carried(t) => Carried(t)'
    BY <1>4, <2>2, BeginningCarries
  <2>5. QED
    BY <1>2, <2>1, <2>2, <2>3, <2>4, BusyKept
<1>5. ASSUME NEW i \in Invocation, Nodes(i) PROVE BusyInv'
  <2>1. /\ Working(i)
        /\ \A k \in Invocation : (Working(k)' <=> Working(k)) /\ ThreadOf(k)' = ThreadOf(k)
        /\ \A k \in Invocation \ {i} : mem'[k] = mem[k]
        /\ \A k \in Invocation : k \in dirty => k \in dirty'
        /\ runs' = runs /\ job' = job /\ saved' = saved
    BY <1>5, NodeFrame
  <2>2. \A t \in Thread : ~Restarted(t)' => ~Restarted(t)
    BY <2>1, SameThreads
  <2>3. i \in dirty' \/ mem'[i].next \notin {"paused", "end"}
    <3>1. CASE persist_report(i)
      <4>1. mem \in [Invocation -> Snapshot] /\ mem[i] \in Snapshot
        BY <2>1, WorkerFacts
      <4>2. \E now \in Reading(ThreadOf(i)) :
               mem' = [mem EXCEPT ![i] = [@ EXCEPT !.next = "upload", !.path = now]]
        BY <3>1 DEF persist_report
      <4>3. QED
        BY <4>1, <4>2 DEF Snapshot
    <3>2. CASE ~persist_report(i)
      BY <1>5, <3>2 DEF Nodes, Graph, intake, scan, apply_fix, hitl_approval,
                        apply_decision, upload_report, Step
    <3>3. QED
      BY <3>1, <3>2
  <2>4. /\ mem'[i].hitl = mem[i].hitl
        /\ \A t \in Thread : Carried(t) => Carried(t)'
    BY <1>5, NodesKeepTheAnswer, NodeCarries
  <2>5. QED
    BY <1>2, <2>1, <2>2, <2>3, <2>4, BusyKept
<1>6. ASSUME NEW i \in Invocation, put_checkpoint(i) PROVE BusyInv'
  <2>1. /\ Working(i) /\ dirty' = dirty \ {i} /\ saved'[ThreadOf(i)] = mem[i]
        /\ ThreadOf(i) \in Thread
        /\ \A t \in Thread \ {ThreadOf(i)} : saved'[t] = saved[t]
        /\ \A k \in Invocation : (Working(k)' <=> Working(k)) /\ ThreadOf(k)' = ThreadOf(k)
        /\ runs' = runs /\ job' = job /\ mem' = mem
    BY <1>6, PutFrame
  <2>2. \A t \in Thread : ~Restarted(t)' => ~Restarted(t)
    BY <2>1, SameThreads
  <2>3. ASSUME NEW t \in Thread, ~Restarted(t), ThreadOf(i) # t, Carried(t)
        PROVE  Carried(t)'
    BY <1>6, <2>3, CheckpointCarries
  <2>4. ASSUME ~Restarted(ThreadOf(i)), mem[i].next \notin Rest
        PROVE  \/ Carried(ThreadOf(i))'
               \/ mem'[i].hitl = Undecided /\ mem'[i].next \notin {"paused", "end"}
    <3>1. mem[i].next # "end" /\ mem[i].next # "paused"
      BY <2>4 DEF Rest
    <3>2. CASE Answered(mem[i])
      BY <1>6, <2>1, <2>4, <3>1, <3>2, CheckpointCarries
    <3>3. CASE ~Answered(mem[i])
      BY <2>1, <3>1, <3>3 DEF Answered
    <3>4. QED
      BY <3>2, <3>3
  <2>5. ASSUME NEW t \in Thread, ~Restarted(t)', saved'[t].next \notin Rest
        PROVE  \/ runs'[t] = "failed"
               \/ Carried(t)'
               \/ \E k \in Invocation :
                    /\ Working(k)' /\ ThreadOf(k)' = t /\ mem'[k].hitl = Undecided
                    /\ k \in dirty' \/ mem'[k].next \notin {"paused", "end"}
    <3>1. CASE ThreadOf(i) = t
      <4>1. ThreadOf(i)' = t
        BY <2>1, <3>1
      <4>2. Carried(t)' \/ (mem'[i].hitl = Undecided /\ mem'[i].next \notin {"paused", "end"})
        BY <2>1, <2>2, <2>4, <2>5, <3>1
      <4>3. QED
        BY <2>1, <4>1, <4>2
    <3>2. CASE ThreadOf(i) # t
      BY <1>2, <2>1, <2>2, <2>3, <2>5, <3>2
    <3>3. QED
      BY <3>1, <3>2
  <2>6. QED
    BY <2>5, BusyKept
<1>7. ASSUME \A t \in Thread : ~Restarted(t)' => ~Restarted(t),
             runs' = runs, saved' = saved,
             \A k \in Invocation : Working(k) =>
               /\ Working(k)' /\ ThreadOf(k)' = ThreadOf(k)
               /\ mem'[k] = mem[k] /\ (k \in dirty' <=> k \in dirty)
      PROVE  BusyInv'
  <2>1. \A t \in Thread : Carried(t) => Carried(t)'
    BY <1>7, CarriedStays
  <2>2. QED
    BY <1>2, <1>7, <2>1, BusyKept
<1>8. ASSUME NEW j \in Jobs, NEW pr \in Prs, NEW kind \in Kind, NEW second \in Seconds,
             webhook_pr(j, pr, kind, second)
      PROVE  BusyInv'
  <2> DEFINE u == [pr |-> pr, at |-> second]
  <2>1. /\ ~Restarted(u)' => ~Restarted(u)
        /\ \A t \in Thread \ {u} : Restarted(t)' = Restarted(t)
        /\ \A k \in Invocation : /\ Working(k)' <=> Working(k)
                                 /\ Working(k) => ThreadOf(k)' = ThreadOf(k)
        /\ runs' = runs /\ mem' = mem /\ saved' = saved /\ dirty' = dirty
    BY <1>8, WebhookFrame
  <2>2. \A t \in Thread : ~Restarted(t)' => ~Restarted(t)
    BY <2>1
  <2>3. QED
    BY <1>7, <2>1, <2>2
<1>9. ASSUME NEW c \in Clients, NEW u \in Thread, NEW choice \in Choices,
             resume(c, u, choice)
      PROVE  BusyInv'
  <2>1. /\ \A k \in Invocation : /\ Working(k)' <=> Working(k)
                                 /\ Working(k) => ThreadOf(k)' = ThreadOf(k)
        /\ runs' = runs /\ job' = job /\ mem' = mem /\ saved' = saved /\ dirty' = dirty
    BY <1>9, AdmissionFrame
  <2>2. \A t \in Thread : ~Restarted(t)' => ~Restarted(t)
    BY <2>1, SameThreads
  <2>3. QED
    BY <1>7, <2>1, <2>2
<1>10. ASSUME NEW c \in Clients, resume_review(c) PROVE BusyInv'
  <2>1. /\ \A k \in Invocation \ {c} : mem'[k] = mem[k]
        /\ ~Working(c)
        /\ \A k \in Invocation \ {c} : (Working(k)' <=> Working(k))
                                       /\ ThreadOf(k)' = ThreadOf(k)
        /\ \A k \in Invocation \ {c} : k \in dirty' <=> k \in dirty
        /\ runs' = runs /\ job' = job /\ saved' = saved
    BY <1>10, DecisionFrame
  <2>2. \A t \in Thread : ~Restarted(t)' => ~Restarted(t)
    BY <2>1, SameThreads
  <2>3. QED
    BY <1>7, <2>1, <2>2
<1>11. ASSUME NEW u \in Thread, run_resumer(u) PROVE FALSE
  BY <1>1, <1>11, ResumerFrame
<1>12. QED
  BY <1>3, <1>4, <1>5, <1>6, <1>8, <1>9, <1>10, <1>11, StepKinds

\* As long as the process lives, a review between two checkpoints is worked on,
\* has failed, or was left before its report with the human's answer.
THEOREM ReviewsGoOn == Spec => []NobodyStopsHalfWay
<1>1. Init => AliveInv /\ FailedInv /\ BusyInv
  <2> SUFFICES ASSUME Init PROVE AliveInv /\ FailedInv /\ BusyInv
    OBVIOUS
  <2>1. /\ up = TRUE /\ offline = NoThread
        /\ \A t \in Thread : saved[t].next = "none" /\ runs[t] = "absent"
    BY DEF Init, Blank
  <2>2. QED
    BY <2>1 DEF AliveInv, FailedInv, BusyInv, Rest
<1>2. /\ TypeInv /\ HandsInv /\ AliveInv /\ FailedInv /\ BusyInv /\ [Next]_vars
      => AliveInv' /\ FailedInv' /\ BusyInv'
  BY AliveStep, FailedStep, BusyStep
<1>3. TypeInv /\ BusyInv => NobodyStopsHalfWay
  <2> SUFFICES ASSUME TypeInv, BusyInv, NEW t \in Thread, ~Restarted(t),
                      saved[t].next \notin Rest, ~(crashes > 0)
               PROVE  runs[t] = "failed" \/ SomebodyWorksOn(t) \/ Stranded(t)
    BY DEF NobodyStopsHalfWay, Rest
  <2>1. crashes \in Nat
    BY MaxCrashesAssumption DEF TypeInv, ServiceTypeOK
  <2>2. crashes = 0
    BY <2>1
  <2>3. QED
    BY <2>2, BusyNow DEF Carried, Carries, WorksOn, SomebodyWorksOn
<1>4. QED
  BY <1>1, <1>2, <1>3, ReviewsInHand, PTL DEF Spec

-----------------------------------------------------------------------------
(***************************************************************************)
(* The status of a review that waits.  A task says so of a pause it has    *)
(* seen, and from the pause on the register only goes on to an answer.     *)
(***************************************************************************)
SaysPaused(t) ==
  runs[t] = "awaiting_human" \/ \E j \in Jobs : job[j].thread = t /\ job[j].paused

WasAsked(t) == lifeOf[t] \in {"waiting", "answered", "contested"}

AskedInv == \A t \in Thread : SaysPaused(t) => WasAsked(t)

\* Nothing is said that was not.
NothingNewIsSaid ==
  /\ \A t \in Thread : runs'[t] = "awaiting_human" => runs[t] = "awaiting_human"
  /\ \A j \in Jobs : job'[j].paused => job[j].paused /\ job'[j].thread = job[j].thread

LEMMA SaidBefore ==
  ASSUME NothingNewIsSaid, NEW t \in Thread, SaysPaused(t)'
  PROVE  SaysPaused(t)
BY DEF NothingNewIsSaid, SaysPaused

\* A task says nothing new, or what it has seen.
LEMMA TaskSays ==
  ASSUME TypeInv, NEW j \in Jobs, Task(j), NEW t \in Thread, SaysPaused(t)'
  PROVE  SaysPaused(t) \/ (pending_interrupt(t) /\ saved' = saved)
<1>1. up /\ job[j].loc # "free"
  BY WhoWorks
  DEF Task, run_review, materialize_clear, materialize_copy, materialize_raises,
      materialise_refuses, materialise_inline, materialise_escapes, invoke_returns,
      run_review_ends, Returned, At
<1>2. job \in [Jobs -> JobRecord] /\ job[j] \in JobRecord /\ runs \in [Thread -> RunState]
      /\ job[j].thread \in Thread
  BY <1>1, TaskFacts
<1>3. CASE run_review(j)
  <2>1. NothingNewIsSaid
    BY <1>2, <1>3 DEF run_review, NothingNewIsSaid, JobRecord
  <2>2. QED
    BY <2>1, SaidBefore
<1>4. CASE materialize_clear(j)
  <2>1. NothingNewIsSaid
    BY <1>2, <1>4 DEF materialize_clear, NothingNewIsSaid, JobRecord
  <2>2. QED
    BY <2>1, SaidBefore
<1>5. CASE materialize_copy(j) \/ materialise_inline(j)
  <2>1. NothingNewIsSaid
    BY <1>2, <1>5 DEF materialize_copy, materialise_inline, Begin, NothingNewIsSaid,
                      JobRecord
  <2>2. QED
    BY <2>1, SaidBefore
<1>6. CASE materialize_raises(j) \/ materialise_refuses(j) \/ materialise_escapes(j)
  <2>1. NothingNewIsSaid
    BY <1>2, <1>6 DEF materialize_raises, materialise_refuses, materialise_escapes,
                      Fails, NothingNewIsSaid, JobRecord
  <2>2. QED
    BY <2>1, SaidBefore
<1>7. CASE invoke_returns(j)
  <2>1. /\ \A k \in Jobs \ {j} : job'[k] = job[k]
        /\ job'[j].thread = job[j].thread
        /\ job'[j].paused => pending_interrupt(job[j].thread)
        /\ UNCHANGED <<runs, saved>>
    BY <1>2, <1>7 DEF invoke_returns, JobRecord, disk
  <2>2. QED
    BY <2>1 DEF SaysPaused
<1>8. CASE run_review_ends(j)
  <2>1. /\ \A k \in Jobs \ {j} : job'[k] = job[k]
        /\ ~job'[j].paused
        /\ \A u \in Thread : runs'[u] = "awaiting_human" =>
             runs[u] = "awaiting_human" \/ (u = job[j].thread /\ job[j].paused)
    BY <1>2, <1>8 DEF run_review_ends, JobRecord
  <2>2. QED
    BY <2>1 DEF SaysPaused
<1>9. QED
  BY <1>3, <1>4, <1>5, <1>6, <1>7, <1>8 DEF Task

\* Nor does any other step.
LEMMA StepSays ==
  ASSUME TypeInv, [Next]_vars, NEW t \in Thread, SaysPaused(t)'
  PROVE  SaysPaused(t) \/ (pending_interrupt(t) /\ saved' = saved)
<1>1. job \in [Jobs -> JobRecord] /\ runs \in [Thread -> RunState]
  BY DEF TypeInv, ServiceTypeOK, JobRecord
<1>2. ASSUME NEW j \in Jobs, Task(j)
      PROVE  SaysPaused(t) \/ (pending_interrupt(t) /\ saved' = saved)
  BY <1>2, TaskSays
<1>3. ASSUME NEW i \in Invocation, Graph(i) PROVE NothingNewIsSaid
  <2>1. CASE node_raises(i)
    <3>1. (i \in Jobs /\ Fails(i)) \/ UNCHANGED <<runs, job>>
      BY <2>1 DEF node_raises
    <3>2. CASE i \in Jobs /\ Fails(i)
      <4>1. /\ runs' = [runs EXCEPT ![job[i].thread] = "failed"]
            /\ job' = [job EXCEPT ![i].loc = "done"]
        BY <3>2 DEF Fails
      <4>2. QED
        BY <1>1, <3>2, <4>1 DEF NothingNewIsSaid, JobRecord
    <3>3. QED
      BY <3>1, <3>2 DEF NothingNewIsSaid
  <2>2. CASE ~node_raises(i)
    <3>1. UNCHANGED <<runs, job>>
      BY <1>3, <2>2, NodeFrame, PutFrame DEF Nodes
    <3>2. QED
      BY <3>1 DEF NothingNewIsSaid
  <2>3. QED
    BY <2>1, <2>2
<1>4. ASSUME crash PROVE NothingNewIsSaid
  <2>1. ASSUME NEW j \in Jobs PROVE ~job'[j].paused
    <3>1. job'[j] = IF job[j].loc = "free" THEN NoJob
                    ELSE [job[j] EXCEPT !.loc = "done", !.paused = FALSE]
      BY <1>4, Zenon DEF crash
    <3>2. job[j] \in JobRecord
      BY <1>1
    <3>3. QED
      BY <3>1, <3>2 DEF NoJob, JobRecord
  <2>2. \A u \in Thread : runs'[u] = "absent"
    BY <1>4, DeathFrame
  <2>3. QED
    BY <2>1, <2>2 DEF NothingNewIsSaid
<1>5. ASSUME NEW j \in Jobs, NEW pr \in Prs, NEW kind \in Kind, NEW second \in Seconds,
             webhook_pr(j, pr, kind, second)
      PROVE  NothingNewIsSaid
  BY <1>1, <1>5 DEF webhook_pr, NothingNewIsSaid, JobRecord
<1>6. ASSUME NEW c \in Clients, Request(c) PROVE NothingNewIsSaid
  <2>1. job' = job /\ (runs' = runs \/ runs' = [runs EXCEPT ![req[c].thread] = "complete"])
    BY <1>6 DEF Request, resume_review, resume_responds
  <2>2. QED
    BY <1>1, <2>1 DEF NothingNewIsSaid
<1>7. ASSUME \/ \E c \in Clients, u \in Thread, choice \in Choices : resume(c, u, choice)
             \/ \E u \in Thread : run_resumer(u)
             \/ restart \/ resumer_exits \/ UNCHANGED vars
      PROVE  NothingNewIsSaid
  <2>1. UNCHANGED <<runs, job>>
    BY <1>7 DEF resume, Admit, run_resumer, restart, resumer_exits, vars, memory
  <2>2. QED
    BY <2>1 DEF NothingNewIsSaid
<1>8. QED
  BY <1>2, <1>3, <1>4, <1>5, <1>6, <1>7, SaidBefore DEF Next

\* In the register who was asked is answered or still asked, or the review is
\* contested.
LEMMA AskedStays ==
  ASSUME [Register!Next]_(Register!vars), NEW t \in Thread, WasAsked(t)
  PROVE  WasAsked(t)'
<1>1. CASE UNCHANGED Register!vars
  BY <1>1 DEF Register!vars, WasAsked
<1>2. ASSUME NEW r \in Thread,
             \/ Register!Open(r) \/ Register!Ask(r) \/ Register!Publish(r)
             \/ Register!Contest(r)
             \/ \E choice \in Choices : Register!Answer(r, choice)
      PROVE  WasAsked(t)'
  <2>1. \/ lifeOf' = lifeOf
        \/ \E l \in {"waiting", "answered", "contested"} : lifeOf' = [lifeOf EXCEPT ![r] = l]
        \/ lifeOf[r] = "absent" /\ \E l : lifeOf' = [lifeOf EXCEPT ![r] = l]
    BY <1>2 DEF Register!Open, Register!Ask, Register!Publish, Register!Contest,
                Register!Answer, Register!Moves
  <2>2. lifeOf = [u \in Thread |-> lifeOf[u]]
    BY DEF lifeOf
  <2> HIDE DEF lifeOf
  <2>3. QED
    BY <2>1, <2>2 DEF WasAsked
<1>3. QED
  BY <1>1, <1>2 DEF Register!Next

\* Who is said to wait has been asked.
LEMMA AskedStep ==
  TypeInv /\ AskedInv /\ [Next]_vars /\ [Register!Next]_(Register!vars) => AskedInv'
<1> SUFFICES ASSUME TypeInv, AskedInv, [Next]_vars, [Register!Next]_(Register!vars),
                    NEW t \in Thread, SaysPaused(t)'
             PROVE  WasAsked(t)'
  BY DEF AskedInv
<1>1. CASE SaysPaused(t)
  BY <1>1, AskedStays DEF AskedInv
<1>2. CASE pending_interrupt(t) /\ saved' = saved
  BY <1>2 DEF WasAsked, lifeOf, pending_interrupt
<1>3. QED
  BY <1>1, <1>2, StepSays

\* A poller who is told that a human is asked can take it that one was.
THEOREM WaitingWasAsked == Spec => []NobodyWaitsInVain
<1>1. Init => AskedInv
  BY DEF Init, AskedInv, SaysPaused, NoJob
<1>2. AskedInv => NobodyWaitsInVain
  BY DEF AskedInv, SaysPaused, WasAsked, lifeOf, NobodyWaitsInVain, review_status
<1>3. QED
  BY <1>1, <1>2, AskedStep, ReviewsInHand, ServiceKeepsRegister, PTL
  DEF Spec, KeepsRegister, Register!Spec

=============================================================================
