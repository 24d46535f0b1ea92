------------------------- MODULE ReviewServiceProps -------------------------
(***************************************************************************)
(* What must be true of the service, over every interleaving of tasks,     *)
(* requests, checkpoints, crashes and the offline resumer.                 *)
(***************************************************************************)
EXTENDS ReviewService

\* Every part of the process, the disk and the history has its type.
ServiceTypeOK ==
  /\ up \in BOOLEAN
  /\ crashes \in 0..MaxCrashes
  /\ overlaps \in Nat
  /\ runs \in [Thread -> RunState]
  /\ job \in [Jobs -> [loc : {"free", "accepted", "materialising", "cleared",
                              "working", "returned", "done"},
                       thread : Thread \cup {NoThread},
                       kind : Kind \cup {"none"}, paused : BOOLEAN]]
  /\ req \in [Clients -> [loc : {"idle", "checked", "working"},
                          thread : Thread \cup {NoThread},
                          choice : Choices \cup {Undecided}, alone : BOOLEAN]]
  /\ offline \in Thread \cup {NoThread}
  /\ mem \in [Invocation -> Snapshot]
  /\ dirty \subseteq Invocation
  /\ saved \in [Thread -> Snapshot]
  /\ copy \in [Thread -> Nat]
  /\ files \in [Prs \X Seconds -> Thread \cup {NoThread}]
  /\ delivered \in [Thread -> SUBSET Choices]
  /\ reported \in [Thread -> SUBSET (Choices \cup {Undecided})]

-----------------------------------------------------------------------------
(***************************************************************************)
(* The verdict and the code.                                               *)
(***************************************************************************)
Concluding == {"hitl", "paused", "decide", "report", "upload", "end"}

\* From the end of the analysis on, the last scan read the working copy as it
\* is, and a listed patch is in it; a blocked review read nothing.
IsOnTheCode(s, t) ==
  s.next \in Concluding =>
    /\ s.seen \in {0, copy[t]}
    /\ s.patched => copy[t] > 1

\* A verdict is about the bytes in the working copy, also when the fix was
\* written, the process died before the checkpoint, and another process made
\* the pass again and found nothing to patch.  A second review under the same
\* name takes the copy away, so threads with one are left out.
VerdictIsOnTheCode ==
  /\ \A t \in Thread : ~Restarted(t) => IsOnTheCode(saved[t], t)
  /\ \A i \in Invocation :
       Working(i) /\ ~Restarted(ThreadOf(i)) => IsOnTheCode(mem[i], ThreadOf(i))

-----------------------------------------------------------------------------
(***************************************************************************)
(* Status and reports.                                                     *)
(***************************************************************************)

SomebodyWorksOn(t) == \E i \in Invocation : Working(i) /\ ThreadOf(i) = t

\* The graph stands before its report with the human's answer in it.  When the
\* report of a resumed graph cannot be written, resume() lets the exception out:
\* the review is left there with whatever status it had, and a second resume is
\* refused, for nothing is paused.
Stranded(t) == saved[t].next = "report" /\ saved[t].hitl # Undecided

\* A review that is called complete has a report, or a decision that came in
\* before the task noticed the pause is about to write it or has failed to: the
\* status is written by the task and by every resume request, in any order.
CompleteHasReport ==
  \A t \in Thread :
    review_status(t).state = "complete" /\ ~Restarted(t) =>
      reported[t] # {} \/ SomebodyWorksOn(t) \/ Stranded(t)

\* A review that a poller is told waits for a human does wait for one, or was
\* answered: its task had yet to write down the pause it had seen, or the answer
\* reached a graph that could not write its report.
NobodyWaitsInVain ==
  \A t \in Thread :
    review_status(t).state = "awaiting_human" /\ ~Restarted(t) =>
      review_status(t).awaiting_human \/ delivered[t] # {}

\* The report a finished review points to is on the local disk whether or not
\* the store was up, also after a crash: it is its own, or that of another
\* review of the pull request that reported in the same second.
EndedHasReport ==
  \A t \in Thread :
    saved[t].next = "end" => files[<<t.pr, saved[t].path>>] # NoThread

\* A refused payload leaves neither a working copy nor a checkpoint under its
\* name.
RefusedLeavesNothing ==
  \A t \in Thread :
    (\A j \in Starts(t) : job[j].kind \in Refused) =>
      copy[t] = 0 /\ saved[t].next = "none"

\* A review between two checkpoints has somebody working on it, or its poller is
\* told that it failed; without a crash there is one other way for it to stop
\* half-way, and only a human's answer leads there: the report after the answer
\* could not be written.  Threads with a second webhook are left out: a third in
\* the same second makes a review that failed for want of its working copy one
\* that is running.
NobodyStopsHalfWay ==
  \A t \in Thread :
    saved[t].next \notin {"none", "paused", "end"} /\ ~Restarted(t) =>
      \/ crashes > 0
      \/ runs[t] = "failed"
      \/ SomebodyWorksOn(t)
      \/ Stranded(t)

-----------------------------------------------------------------------------
(***************************************************************************)
(* The human's decision.                                                   *)
(***************************************************************************)

\* A human whose request was alone with the thread is answered with the
\* decision they sent.
OwnDecisionHonoured ==
  \A c \in Clients :
    Returned(c) /\ req[c].alone /\ ~Restarted(req[c].thread) =>
      mem[c].hitl = req[c].choice

(***************************************************************************)
(* The durable life of a review is the one ReviewRegister promises.        *)
(***************************************************************************)
lifeOf ==
  [t \in Thread |->
     IF Restarted(t) THEN "contested"
     ELSE IF delivered[t] # {} THEN "answered"
     ELSE IF pending_interrupt(t) THEN "waiting"
     ELSE IF saved[t].next # "none" THEN "open" ELSE "absent"]

Register ==
  INSTANCE ReviewRegister
    WITH Reviews <- Thread, life <- lifeOf,
         answers <- delivered, published <- reported

\* Through crashes, restarts, the resumer and overlapping requests, a pause is
\* ended by an answer alone, and a report carries an answer that was given.
KeepsRegister == Register!Spec

-----------------------------------------------------------------------------
(***************************************************************************)
(* Nobody goes round.                                                      *)
(***************************************************************************)

\* What a task, a request or the resumer has before it.
TaskStage ==
  [accepted |-> 5, materialising |-> 4, cleared |-> 3, working |-> 2,
   returned |-> 1, done |-> 0, free |-> 0]

RequestStage == [checked |-> 2, working |-> 1, idle |-> 0]

Stage(i) ==
  IF i \in Jobs THEN TaskStage[job[i].loc]
  ELSE IF i \in Clients THEN RequestStage[req[i].loc]
  ELSE IF offline = NoThread THEN 0 ELSE 1

\* What its invocation of the graph has before it, in a pass.
NodesAhead ==
  [intake |-> 6, scan |-> 5, fix |-> 4, hitl |-> 4, decide |-> 4, report |-> 3,
   upload |-> 2, end |-> 1, paused |-> 1, none |-> 0]

Nearer(i) ==
  \/ Stage(i)' \in 0..(Stage(i) - 1)
  \/ /\ Stage(i)' = Stage(i)
     /\ \/ mem'[i].iteration \in (mem[i].iteration + 1)..MaxIter
        \/ /\ mem'[i].iteration = mem[i].iteration
           /\ NodesAhead[mem'[i].next] < NodesAhead[mem[i].next]
        \/ mem'[i] = mem[i] /\ i \in dirty \ dirty'

Undisturbed(i) ==
  /\ Stage(i)' = Stage(i)
  /\ mem'[i] = mem[i]
  /\ i \in dirty' <=> i \in dirty

\* Between a crash and the next, a step begins something for one who was at
\* rest, or brings one who is under way nearer to their end; whatever tasks,
\* requests and the resumer do to a review's checkpoints, they set nobody back.
ServiceAdvances ==
  [][\/ crashes' \in (crashes + 1)..MaxCrashes
     \/ ~up /\ up' /\ \A i \in Invocation : Undisturbed(i)
     \/ \E i \in Invocation :
          /\ (Stage(i) = 0 /\ Stage(i)' > 0) \/ Nearer(i)
          /\ \A k \in Invocation \ {i} : Undisturbed(k)]_vars

-----------------------------------------------------------------------------
(***************************************************************************)
(* Liveness.                                                               *)
(***************************************************************************)

\* A review that was accepted is settled, for its poller to see, unless the
\* process dies: no refusal, failure or pause leaves it running.
AcceptedSettles ==
  \A j \in Jobs :
    job[j].loc = "accepted" ~>
      \/ crashes > 0
      \/ /\ job[j].loc = "done"
         /\ runs[job[j].thread] \in {"awaiting_human", "complete", "failed"}

\* What the resumer takes up in the place of a dead process it brings to its
\* end, or to the pause that was ahead, unless a fix or the report cannot be
\* written.  A second review under the name may take the working copy away, and
\* threads with one are left out.
ResumerFinishes ==
  \A t \in Thread :
    offline = t ~>
      \/ Restarted(t)
      \/ offline # t /\ saved[t].next \in {"paused", "end", "fix", "report"}

\* A pause outlives the process: a human who keeps asking gets an answer into the
\* checkpoints, whatever died in between, also when a crash took an answer that
\* had only reached the memory of a process.
PauseIsAnswered ==
  \A t \in Thread :
    pending_interrupt(t) ~> saved[t].hitl # Undecided \/ Restarted(t)

=============================================================================
