------------------------ MODULE ReviewRegisterProofs ------------------------
(***************************************************************************)
(* Proof that the service keeps the register of decisions, for any number  *)
(* of reviews, requests and crashes: whose hands a review is in decides    *)
(* what it may do next.                                                    *)
(***************************************************************************)
EXTENDS ReviewServiceProofs

WorksOn(i, t) == Working(i) /\ ThreadOf(i) = t

Answered(s) == s.hitl # Undecided

Decided == {"decide", "report", "upload", "end"}

\* It has written down that it waits for a human, and only returns.
Parked(i) == mem[i].next = "paused" /\ i \notin dirty

NobodyAsks(t) == \A c \in Clients : req[c].loc # "idle" => req[c].thread # t

PreWork == {"accepted", "materialising", "cleared"}

Untouched(t) ==
  /\ saved[t] = Blank /\ delivered[t] = {} /\ reported[t] = {}
  /\ offline # t /\ NobodyAsks(t)

\* The only one under way with a review that nobody has been asked about.
Sole(i, t) ==
  /\ delivered[t] = {} /\ saved[t].next # "paused" /\ NobodyAsks(t)
  /\ \A k \in Invocation \ {i} : ~WorksOn(k, t)

\* The checkpoint of a thread, and what was delivered to it.
SavedInHand(t) ==
  /\ Answered(saved[t]) => saved[t].hitl \in delivered[t] /\ saved[t].next \in Decided
  /\ ~Answered(saved[t]) /\ saved[t].next # "paused" => delivered[t] = {}
  /\ NobodyAsks(t) \/ saved[t].next = "paused" \/ Answered(saved[t])

\* An invocation has an answer that was delivered, or waits, or is alone.
InHand(i, t) ==
  /\ Answered(mem[i]) => /\ mem[i].hitl \in delivered[t] /\ mem[i].next \in Decided
                         /\ i \notin Jobs
  /\ ~Answered(mem[i]) => /\ Parked(i) \/ Sole(i, t)
                          /\ i \notin Clients

Hands(t) ==
  /\ (\A j \in Starts(t) : job[j].loc \in PreWork) => Untouched(t)
  /\ SavedInHand(t)
  /\ \A i \in Invocation : WorksOn(i, t) => InHand(i, t)

HandsInv == \A t \in Thread : ~Restarted(t) => Hands(t)

(***************************************************************************)
(* The reviews of a thread.                                                *)
(***************************************************************************)

\* A set of tasks that is counted to one has one.
LEMMA CountedToOne ==
  ASSUME NEW S, S \subseteq Jobs, ~(Cardinality(S) > 1), NEW j \in S, NEW k \in S
  PROVE  j = k
<1>1. SUFFICES ASSUME j # k PROVE FALSE
  OBVIOUS
<1>2. IsFiniteSet(Jobs)
  BY MaxJobsAssumption, FS_Interval DEF Jobs
<1>3. IsFiniteSet(S) /\ Cardinality(S) \in Nat
  BY <1>2, FS_Subset, FS_CardinalityType
<1>4. Cardinality({j}) = 1 /\ Cardinality({j} \cup {k}) = Cardinality({j}) + 1
  BY <1>1, FS_Singleton, FS_AddElement
<1>5. {j} \cup {k} \subseteq S
  OBVIOUS
<1>6. Cardinality({j} \cup {k}) <= Cardinality(S)
  BY <1>3, <1>5, FS_Subset
<1>7. QED
  BY <1>3, <1>4, <1>6

\* A thread that is not contested has one review at most.
LEMMA OneReview ==
  ASSUME NEW t, ~Restarted(t), NEW j \in Starts(t), NEW k \in Starts(t)
  PROVE  j = k
BY CountedToOne DEF Restarted, Starts

\* A thread somebody works on is past the beginning of its review.
LEMMA WorkedOnIsTouched ==
  ASSUME TypeInv, NEW t \in Thread, Hands(t), NEW i \in Invocation, WorksOn(i, t)
  PROVE  ~\A j \in Starts(t) : job[j].loc \in PreWork
<1>1. CASE i \in Jobs
  BY <1>1, WhoWorks DEF WorksOn, Starts, At, PreWork
<1>2. CASE i \in Clients
  BY <1>2, WhoWorks DEF WorksOn, Hands, Untouched, NobodyAsks
<1>3. CASE i = Resumer
  BY <1>3, WhoWorks DEF WorksOn, Hands, Untouched
<1>4. QED
  BY <1>1, <1>2, <1>3 DEF Invocation

(***************************************************************************)
(* The steps, by what they do to the hands a review is in.                 *)
(***************************************************************************)

\* Whoever stops, or only prepares, takes nothing from anybody.
LEMMA StoppingIsHarmless ==
  ASSUME HandsInv,
         UNCHANGED <<saved, delivered, reported>>,
         offline' \in {offline, NoThread},
         \A t \in Thread : NobodyAsks(t) => NobodyAsks(t)',
         \A j \in Jobs : job'[j].thread = job[j].thread,
         \A j \in Jobs : job'[j].loc \in PreWork => job[j].loc \in PreWork,
         \A k \in Invocation : Working(k)' =>
            /\ Working(k) /\ ThreadOf(k)' = ThreadOf(k)
            /\ mem'[k] = mem[k] /\ (k \in dirty' <=> k \in dirty)
  PROVE  HandsInv'
<1> SUFFICES ASSUME NEW t \in Thread, ~Restarted(t)' PROVE Hands(t)'
  BY DEF HandsInv
<1>1. Starts(t)' = Starts(t) /\ Hands(t)
  BY SameThreads DEF HandsInv
<1>2. Starts(t) \subseteq Jobs
  BY DEF Starts
<1>3. (\A j \in Starts(t)' : job'[j].loc \in PreWork) => Untouched(t)'
  BY <1>1, <1>2, NoThreadIsNone DEF Hands, Untouched
<1>4. SavedInHand(t)'
  BY <1>1 DEF Hands, SavedInHand
<1>5. \A k \in Invocation : WorksOn(k, t)' => WorksOn(k, t)
  BY DEF WorksOn
<1>6. ASSUME NEW k \in Invocation, WorksOn(k, t)' PROVE InHand(k, t)'
  <2>1. InHand(k, t) /\ mem'[k] = mem[k] /\ (k \in dirty' <=> k \in dirty)
    BY <1>1, <1>5, <1>6 DEF Hands, WorksOn
  <2>2. Sole(k, t) => Sole(k, t)'
    BY <1>5 DEF Sole
  <2>3. QED
    BY <2>1, <2>2 DEF InHand, Parked
<1>7. QED
  BY <1>3, <1>4, <1>6 DEF Hands

\* A step of the graph keeps the decision it has, and the interrupt is raised
\* before it is written down.
LEMMA MovingIsHarmless ==
  ASSUME TypeInv, HandsInv, NEW i \in Invocation, Working(i), NEW s,
         mem' = [mem EXCEPT ![i] = s], mem[i].next # "paused",
         s.hitl = mem[i].hitl,
         Answered(s) /\ ~Restarted(ThreadOf(i)) => s.next \in Decided,
         dirty' \in {dirty, dirty \cup {i}}, s.next = "paused" => i \in dirty',
         \A t \in Thread \ {ThreadOf(i)} : reported'[t] = reported[t],
         UNCHANGED <<up, memory, offline, saved, delivered>>
  PROVE  HandsInv'
<1> SUFFICES ASSUME NEW t \in Thread, ~Restarted(t)' PROVE Hands(t)'
  BY DEF HandsInv
<1>1. /\ Starts(t)' = Starts(t) /\ Hands(t)
      /\ \A k \in Invocation : /\ Working(k)' <=> Working(k)
                               /\ ThreadOf(k)' = ThreadOf(k)
  BY SameThreads, WhoWorks, WhoWorksNext DEF HandsInv, memory, Invocation, At
<1>2. mem'[i] = s /\ \A k \in Invocation \ {i} : mem'[k] = mem[k]
  BY DEF TypeInv, ServiceTypeOK
<1>3. (\A j \in Starts(t)' : job'[j].loc \in PreWork) => Untouched(t)'
  <2>1. CASE t = ThreadOf(i)
    BY <1>1, <2>1, WorkedOnIsTouched DEF WorksOn, memory
  <2>2. CASE t # ThreadOf(i)
    BY <1>1, <2>2 DEF Hands, Untouched, NobodyAsks, memory
  <2>3. QED
    BY <2>1, <2>2
<1>4. SavedInHand(t)'
  BY <1>1 DEF Hands, SavedInHand, NobodyAsks, memory
<1>5. ASSUME NEW k \in Invocation, WorksOn(k, t)' PROVE InHand(k, t)'
  <2>1. InHand(k, t)
    BY <1>1, <1>5 DEF Hands, WorksOn
  <2>2. Sole(k, t) => Sole(k, t)'
    BY <1>1 DEF Sole, WorksOn, NobodyAsks, memory
  <2>3. CASE k # i
    BY <1>2, <2>1, <2>2, <2>3 DEF InHand, Parked
  <2>4. CASE k = i
    <3>1. ThreadOf(i) = t /\ ~Restarted(t)
      BY <1>1, <1>5, <2>4, SameThreads DEF WorksOn, memory
    <3>2. QED
      BY <1>2, <2>1, <2>2, <2>4, <3>1 DEF InHand, Parked, Answered
  <2>5. QED
    BY <2>3, <2>4
<1>6. QED
  BY <1>3, <1>4, <1>5 DEF Hands

\* A checkpoint is written by the one whose hands the review is in.
LEMMA CheckpointInHand ==
  ASSUME TypeInv, HandsInv, NEW i \in Invocation, put_checkpoint(i)
  PROVE  HandsInv'
<1> DEFINE u == ThreadOf(i)
<1>1. /\ i \in dirty /\ Working(i) /\ saved' = [saved EXCEPT ![u] = mem[i]]
      /\ dirty' = dirty \ {i}
      /\ UNCHANGED <<up, crashes, overlaps, memory, offline, mem, copy, files, history>>
  BY DEF put_checkpoint
<1>2. u \in Thread /\ saved'[u] = mem[i]
      /\ \A t \in Thread \ {u} : saved'[t] = saved[t]
  BY <1>1, WorkersHaveThreads DEF TypeInv, ServiceTypeOK, Tidy
<1>3. \A k \in Invocation : (Working(k)' <=> Working(k)) /\ ThreadOf(k)' = ThreadOf(k)
  BY <1>1, WhoWorks, WhoWorksNext DEF memory, Invocation, At
<1> SUFFICES ASSUME NEW t \in Thread, ~Restarted(t)' PROVE Hands(t)'
  BY DEF HandsInv
<1>4. Starts(t)' = Starts(t) /\ Hands(t)
  BY <1>1, SameThreads DEF HandsInv, memory
<1>5. CASE t # u
  <2>1. (\A j \in Starts(t)' : job'[j].loc \in PreWork) => Untouched(t)'
    BY <1>1, <1>2, <1>4, <1>5 DEF Hands, Untouched, NobodyAsks, memory, history
  <2>2. SavedInHand(t)'
    BY <1>1, <1>2, <1>4, <1>5 DEF Hands, SavedInHand, NobodyAsks, memory, history
  <2>3. ASSUME NEW k \in Invocation, WorksOn(k, t)' PROVE InHand(k, t)'
    <3>1. InHand(k, t) /\ k # i
      BY <1>3, <1>4, <1>5, <2>3 DEF Hands, WorksOn
    <3>2. Sole(k, t) => Sole(k, t)'
      BY <1>1, <1>2, <1>3, <1>5 DEF Sole, WorksOn, NobodyAsks, memory, history
    <3>3. QED
      BY <1>1, <3>1, <3>2 DEF InHand, Parked, history
  <2>4. QED
    BY <2>1, <2>2, <2>3 DEF Hands
<1>6. CASE t = u
  <2>1. WorksOn(i, t) /\ InHand(i, t) /\ ~Parked(i)
    BY <1>1, <1>4, <1>6 DEF WorksOn, Hands, Parked
  <2>2. (\A j \in Starts(t)' : job'[j].loc \in PreWork) => Untouched(t)'
    BY <1>1, <1>4, <2>1, WorkedOnIsTouched DEF memory
  <2>3. SavedInHand(t)'
    BY <1>1, <1>2, <1>6, <2>1 DEF InHand, Sole, SavedInHand, NobodyAsks, memory, history
  <2>4. ASSUME NEW k \in Invocation, WorksOn(k, t)' PROVE InHand(k, t)'
    <3>1. InHand(k, t) /\ WorksOn(k, t)
      BY <1>3, <1>4, <2>4 DEF Hands, WorksOn
    <3>2. CASE k = i
      <4>1. CASE Answered(mem[i])
        BY <1>1, <2>1, <3>2, <4>1 DEF InHand, history
      <4>2. CASE ~Answered(mem[i])
        <5>1. Sole(i, t)
          BY <2>1, <4>2 DEF InHand
        <5>2. mem[i].next # "paused" => Sole(i, t)'
          BY <1>1, <1>2, <1>3, <1>6, <5>1 DEF Sole, WorksOn, NobodyAsks, memory, history
        <5>3. mem[i].next = "paused" => Parked(i)'
          BY <1>1 DEF Parked
        <5>4. QED
          BY <1>1, <2>1, <3>2, <4>2, <5>2, <5>3 DEF InHand
      <4>3. QED
        BY <4>1, <4>2
    <3>3. CASE k # i
      <4>1. ~Sole(k, t)
        BY <2>1, <3>3 DEF Sole
      <4>2. QED
        BY <1>1, <3>1, <3>3, <4>1 DEF InHand, Parked, history
    <3>4. QED
      BY <3>2, <3>3
  <2>5. QED
    BY <2>2, <2>3, <2>4 DEF Hands
<1>7. QED
  BY <1>5, <1>6

\* A review that begins is in the hands of its task alone.
LEMMA BeginningInHand ==
  ASSUME TypeInv, HandsInv, NEW j \in Jobs, up, job[j].loc \in PreWork, Begin(j)
  PROVE  HandsInv'
<1> DEFINE u == job[j].thread
           input == [Blank EXCEPT !.next = "intake", !.patched = saved[u].patched]
<1>1. /\ mem' = [mem EXCEPT ![j] = input] /\ saved' = [saved EXCEPT ![u] = input]
      /\ job' = [job EXCEPT ![j].loc = "working",
                            ![j].kind = IF @ = "inline" THEN "fixture" ELSE @]
      /\ UNCHANGED <<up, crashes, overlaps, runs, req, offline, dirty,
                     files, history>>
  BY DEF Begin
<1>2. u \in Thread /\ j \in Invocation /\ job[j].loc # "working"
  BY TaskFacts DEF PreWork
<1>3. /\ \A k \in Jobs : job'[k].thread = job[k].thread
      /\ \A k \in Jobs \ {j} : job'[k] = job[k]
      /\ job'[j].loc = "working"
  BY <1>1, TaskFacts DEF JobRecord, PreWork
<1>4. /\ saved'[u] = input /\ mem'[j] = input
      /\ \A t \in Thread \ {u} : saved'[t] = saved[t]
      /\ \A k \in Invocation \ {j} : mem'[k] = mem[k]
  BY <1>1, <1>2 DEF TypeInv, ServiceTypeOK
<1>5. /\ \A k \in Invocation \ {j} : (Working(k)' <=> Working(k))
      /\ \A k \in Invocation : ThreadOf(k)' = ThreadOf(k)
      /\ Working(j)'
  <2>. up' = up /\ req' = req /\ offline' = offline
    BY <1>1
  <2>1. \A k \in Jobs \ {j} : (Working(k)' <=> Working(k)) /\ ThreadOf(k)' = ThreadOf(k)
    BY <1>3, WhoWorks, WhoWorksNext DEF At
  <2>2. \A k \in Clients : (Working(k)' <=> Working(k)) /\ ThreadOf(k)' = ThreadOf(k)
    BY WhoWorks, WhoWorksNext
  <2>3. (Working(Resumer)' <=> Working(Resumer)) /\ ThreadOf(Resumer)' = ThreadOf(Resumer)
    BY WhoWorks, WhoWorksNext
  <2>4. Working(j)' /\ ThreadOf(j)' = ThreadOf(j)
    BY <1>3, WhoWorks, WhoWorksNext DEF At
  <2>5. QED
    BY <2>1, <2>2, <2>3, <2>4 DEF Invocation
<1>6. input.hitl = Undecided /\ input.next = "intake"
  BY DEF Blank
<1> SUFFICES ASSUME NEW t \in Thread, ~Restarted(t)' PROVE Hands(t)'
  BY DEF HandsInv
<1>7. Starts(t)' = Starts(t) /\ Hands(t) /\ ~Restarted(t)
  BY <1>3, SameThreads DEF HandsInv
<1>8. CASE t # u
  <2>1. j \notin Starts(t) /\ Starts(t) \subseteq Jobs /\ ThreadOf(j) # t
    BY <1>8, WhoWorks DEF Starts
  <2>2. (\A k \in Starts(t)' : job'[k].loc \in PreWork) => Untouched(t)'
    BY <1>1, <1>3, <1>4, <1>7, <1>8, <2>1 DEF Hands, Untouched, NobodyAsks, history
  <2>3. SavedInHand(t)'
    BY <1>1, <1>4, <1>7, <1>8 DEF Hands, SavedInHand, NobodyAsks, history
  <2>4. ASSUME NEW k \in Invocation, WorksOn(k, t)' PROVE InHand(k, t)'
    <3>1. k # j /\ InHand(k, t)
      BY <1>5, <1>7, <2>1, <2>4 DEF Hands, WorksOn
    <3>2. Sole(k, t) => Sole(k, t)'
      BY <1>1, <1>4, <1>5, <1>8, <2>1 DEF Sole, WorksOn, NobodyAsks, history
    <3>3. QED
      BY <1>1, <1>4, <3>1, <3>2 DEF InHand, Parked, history
  <2>5. QED
    BY <2>2, <2>3, <2>4 DEF Hands
<1>9. CASE t = u
  <2>1. j \in Starts(t)
    BY <1>9 DEF Starts
  <2>2. \A k \in Starts(t) : k = j
    BY <1>7, <2>1, OneReview
  <2>3. Untouched(t)
    BY <1>7, <2>2 DEF Hands
  <2>4. SavedInHand(t)' /\ Untouched(t) /\ NobodyAsks(t)'
    BY <1>1, <1>4, <1>6, <1>9, <2>3
    DEF Untouched, SavedInHand, NobodyAsks, Answered, history
  <2>5. \A k \in Invocation \ {j} : ~WorksOn(k, t)'
    <3>1. \A k \in Jobs \ {j} : ThreadOf(k) # t
      BY <2>2, WhoWorks DEF Starts
    <3>2. \A k \in Clients : Working(k) => ThreadOf(k) # t
      BY <2>3, WhoWorks DEF Untouched, NobodyAsks
    <3>3. ThreadOf(Resumer) # t
      BY <2>3, WhoWorks DEF Untouched
    <3>4. QED
      BY <1>5, <3>1, <3>2, <3>3 DEF WorksOn, Invocation
  <2>6. Sole(j, t)'
    BY <1>1, <1>4, <1>6, <1>9, <2>3, <2>4, <2>5 DEF Sole, Untouched, history
  <2>7. InHand(j, t)'
    BY <1>4, <1>6, <2>6, WhoWorks DEF InHand, Answered
  <2>8. \A k \in Invocation : WorksOn(k, t)' => InHand(k, t)'
    BY <2>5, <2>7
  <2>9. ~\A k \in Starts(t)' : job'[k].loc \in PreWork
    BY <1>3, <1>7, <2>1 DEF PreWork
  <2>10. QED
    BY <2>4, <2>8, <2>9 DEF Hands
<1>10. QED
  BY <1>8, <1>9

\* A webhook opens a thread nobody has touched, or contests it.
LEMMA WebhookInHand ==
  ASSUME TypeInv, HandsInv, NEW j \in Jobs, NEW pr \in Prs, NEW kind \in Kind,
         NEW second \in Seconds, webhook_pr(j, pr, kind, second)
  PROVE  HandsInv'
<1> DEFINE u == [pr |-> pr, at |-> second]
           new == [loc |-> "accepted", kind |-> kind, thread |-> u, paused |-> FALSE]
           reused == {t \in Thread : Restarted(t)'}
<1>1. /\ up /\ job[j].loc = "free" /\ job' = [job EXCEPT ![j] = new]
      /\ delivered' = [t \in Thread |-> IF t \in reused THEN {} ELSE delivered[t]]
      /\ reported' = [t \in Thread |-> IF t \in reused THEN {} ELSE reported[t]]
      /\ UNCHANGED <<up, crashes, overlaps, runs, req, offline, mem, dirty, disk>>
  BY DEF webhook_pr
<1>2. /\ job'[j] = new /\ \A k \in Jobs \ {j} : job'[k] = job[k]
      /\ u \in Thread /\ job[j].thread = NoThread
  BY <1>1 DEF TypeInv, ServiceTypeOK, Thread, Tidy, Threads, NoJob
<1>3. /\ \A k \in Invocation : Working(k)' <=> Working(k)
      /\ \A k \in Invocation \ {j} : ThreadOf(k)' = ThreadOf(k)
      /\ ~Working(j) /\ j \in Invocation
  <2>. up' = up /\ req' = req /\ offline' = offline
    BY <1>1
  <2>1. \A k \in Jobs \ {j} : (Working(k)' <=> Working(k)) /\ ThreadOf(k)' = ThreadOf(k)
    BY <1>2, WhoWorks, WhoWorksNext DEF At
  <2>2. \A k \in Clients : (Working(k)' <=> Working(k)) /\ ThreadOf(k)' = ThreadOf(k)
    BY WhoWorks, WhoWorksNext
  <2>3. (Working(Resumer)' <=> Working(Resumer)) /\ ThreadOf(Resumer)' = ThreadOf(Resumer)
    BY WhoWorks, WhoWorksNext
  <2>4. ~Working(j) /\ ~Working(j)' /\ j \in Invocation
    BY <1>1, <1>2, WhoWorks, WhoWorksNext DEF At
  <2>5. QED
    BY <2>1, <2>2, <2>3, <2>4 DEF Invocation
<1> SUFFICES ASSUME NEW t \in Thread, ~Restarted(t)' PROVE Hands(t)'
  BY DEF HandsInv
<1>4. delivered'[t] = delivered[t] /\ reported'[t] = reported[t]
      /\ saved'[t] = saved[t] /\ NobodyAsks(t)' = NobodyAsks(t)
  BY <1>1 DEF disk, NobodyAsks
<1>5. j \notin Starts(t) /\ \A k \in Starts(t) : k \in Jobs \ {j}
  BY <1>2, NoThreadIsNone DEF Starts
<1>6. CASE t # u
  <2>1. Starts(t)' = Starts(t)
    BY <1>2, <1>5, <1>6, NoThreadIsNone DEF Starts
  <2>2. Hands(t)
    BY <2>1 DEF HandsInv, Restarted
  <2>3. (\A k \in Starts(t)' : job'[k].loc \in PreWork) => Untouched(t)'
    BY <1>1, <1>2, <1>4, <1>5, <2>1, <2>2 DEF Hands, Untouched
  <2>4. SavedInHand(t)'
    BY <1>4, <2>2 DEF Hands, SavedInHand
  <2>5. ASSUME NEW k \in Invocation, WorksOn(k, t)' PROVE InHand(k, t)'
    <3>1. InHand(k, t)
      BY <1>3, <2>2, <2>5 DEF Hands, WorksOn
    <3>2. Sole(k, t) => Sole(k, t)'
      BY <1>3, <1>4 DEF Sole, WorksOn
    <3>3. QED
      BY <1>1, <1>4, <3>1, <3>2 DEF InHand, Parked
  <2>6. QED
    BY <2>3, <2>4, <2>5 DEF Hands
<1>7. CASE t = u
  <2>1. Starts(t)' = Starts(t) \cup {j}
    BY <1>2, <1>7, NoThreadIsNone DEF Starts
  <2>2. \A k \in Starts(t)' : k = j
    <3>1. j \in Starts(t)' /\ Starts(t)' \subseteq Jobs
      BY <2>1 DEF Starts
    <3>2. ~(Cardinality(Starts(t)') > 1)
      BY DEF Restarted
    <3>3. QED
      BY <3>1, <3>2, CountedToOne
  <2>3. Starts(t) = {}
    BY <1>5, <2>1, <2>2
  <2>4. Cardinality(Starts(t)) = 0
    BY <2>3, FS_EmptySet
  <2>5. Hands(t)
    BY <2>4 DEF HandsInv, Restarted
  <2>6. Untouched(t)
    BY <2>3, <2>5 DEF Hands
  <2>7. Untouched(t)' /\ SavedInHand(t)'
    BY <1>1, <1>4, <2>5, <2>6 DEF Hands, Untouched, SavedInHand
  <2>8. \A k \in Invocation : ~WorksOn(k, t)'
    <3>1. \A k \in Jobs \ {j} : ThreadOf(k) # t
      BY <2>3, WhoWorks DEF Starts
    <3>2. \A k \in Clients : Working(k) => ThreadOf(k) # t
      BY <2>6, WhoWorks DEF Untouched, NobodyAsks
    <3>3. ThreadOf(Resumer) # t
      BY <2>6, WhoWorks DEF Untouched
    <3>4. QED
      BY <1>3, <3>1, <3>2, <3>3 DEF WorksOn, Invocation
  <2>9. QED
    BY <2>7, <2>8 DEF Hands
<1>8. QED
  BY <1>6, <1>7

\* A request is admitted where a human is waited for, and nobody is sole there.
LEMMA AdmissionInHand ==
  ASSUME TypeInv, HandsInv, NEW c \in Clients, NEW u \in Thread,
         NEW choice \in Choices, resume(c, u, choice)
  PROVE  HandsInv'
<1>1. /\ saved[u].next = "paused" /\ req[c].loc = "idle"
      /\ UNCHANGED <<up, crashes, runs, job, offline, mem, dirty, disk, history>>
  BY DEF resume, pending_interrupt, Admit
<1>2. /\ req'[c].loc = "checked" /\ req'[c].thread = u
      /\ \A d \in Clients \ {c} : req'[d].loc = req[d].loc
                               /\ req'[d].thread = req[d].thread
  <2>1. req' = [d \in Clients |->
                 IF d = c
                 THEN [loc |-> "checked", thread |-> u, choice |-> choice,
                       alone |-> offline # u /\ (\A e \in Requests : req[e].thread # u)]
                 ELSE [req[d] EXCEPT !.alone = @ /\ req[d].thread # u]]
    BY DEF resume, Admit
  <2>2. QED
    BY <2>1, RequestFacts DEF RequestRecord
<1>3. \A k \in Invocation : /\ Working(k)' <=> Working(k)
                            /\ Working(k) => ThreadOf(k)' = ThreadOf(k)
  <2>. up' = up /\ job' = job /\ offline' = offline
    BY <1>1
  <2>1. \A k \in Jobs : (Working(k)' <=> Working(k)) /\ ThreadOf(k)' = ThreadOf(k)
    BY WhoWorks, WhoWorksNext DEF At
  <2>2. \A k \in Clients : /\ Working(k)' <=> Working(k)
                           /\ Working(k) => ThreadOf(k)' = ThreadOf(k)
    BY <1>1, <1>2, WhoWorks, WhoWorksNext
  <2>3. (Working(Resumer)' <=> Working(Resumer)) /\ ThreadOf(Resumer)' = ThreadOf(Resumer)
    BY WhoWorks, WhoWorksNext
  <2>4. QED
    BY <2>1, <2>2, <2>3 DEF Invocation
<1> SUFFICES ASSUME NEW t \in Thread, ~Restarted(t)' PROVE Hands(t)'
  BY DEF HandsInv
<1>4. Starts(t)' = Starts(t) /\ Hands(t)
  BY <1>1, SameThreads DEF HandsInv
<1>5. t # u => NobodyAsks(t)' = NobodyAsks(t)
  BY <1>1, <1>2 DEF NobodyAsks
<1>6. t = u => ~Untouched(t) /\ \A k \in Invocation : ~Sole(k, t)
  BY <1>1 DEF Untouched, Blank, Sole
<1>7. (\A k \in Starts(t)' : job'[k].loc \in PreWork) => Untouched(t)'
  BY <1>1, <1>4, <1>5, <1>6 DEF Hands, Untouched, disk, history
<1>8. SavedInHand(t)'
  BY <1>1, <1>4, <1>5 DEF Hands, SavedInHand, disk, history
<1>9. ASSUME NEW k \in Invocation, WorksOn(k, t)' PROVE InHand(k, t)'
  <2>1. InHand(k, t)
    BY <1>3, <1>4, <1>9 DEF Hands, WorksOn
  <2>2. Sole(k, t) => Sole(k, t)'
    BY <1>1, <1>3, <1>5, <1>6 DEF Sole, WorksOn, disk, history
  <2>3. QED
    BY <1>1, <2>1, <2>2 DEF InHand, Parked, history
<1>10. QED
  BY <1>7, <1>8, <1>9 DEF Hands

\* What an invocation that takes up a thread in hand holds, and what has come
\* in by then.
LEMMA DeliveredInHand ==
  ASSUME TypeInv, NEW t \in Thread, ~Restarted(t), SavedInHand(t),
         NEW i \in Invocation, NEW choice \in Choices, Deliver(i, t, choice),
         saved[t].next = "paused" \/ Answered(saved[t])
  PROVE  /\ Answered(mem'[i]) /\ mem'[i].hitl \in delivered'[t]
         /\ mem'[i].next \in Decided
         /\ delivered[t] \subseteq delivered'[t]
<1>1. mem'[i] = Loaded(t, choice)
  BY DeliverTypes
<1>2. delivered \in [Thread -> SUBSET Choices] /\ saved[t] \in Snapshot
  BY DEF TypeInv, ServiceTypeOK
<1>3. choice # Undecided
  BY DEF Choices, Undecided
<1>4. CASE saved[t].next = "paused"
  <2>1. Loaded(t, choice) = [saved[t] EXCEPT !.hitl = choice, !.next = "decide"]
    BY <1>4 DEF Loaded
  <2>2. Loaded(t, choice).hitl = choice /\ Loaded(t, choice).next = "decide"
    BY <1>2, <2>1 DEF Snapshot
  <2>3. Loaded(t, choice) # saved[t]
    BY <1>4, <2>2
  <2>4. delivered' = [delivered EXCEPT ![t] = @ \cup {choice}]
    BY <2>3 DEF Deliver, Recorded
  <2>5. QED
    BY <1>1, <1>2, <1>3, <2>2, <2>4 DEF Answered, Decided
<1>5. CASE Answered(saved[t])
  <2>1. saved[t].hitl \in delivered[t] /\ saved[t].next \in Decided
    BY <1>5 DEF SavedInHand
  <2>2. Loaded(t, choice) = saved[t]
    BY <2>1 DEF Loaded, Decided
  <2>3. UNCHANGED delivered
    BY <2>2 DEF Deliver
  <2>4. QED
    BY <1>1, <1>5, <2>1, <2>2, <2>3
<1>6. QED
  BY <1>4, <1>5

\* A delivery to one thread is nothing to the others.
LEMMA DeliveredElsewhere ==
  ASSUME TypeInv, NEW u \in Thread, NEW i \in Invocation, NEW choice \in Choices,
         Deliver(i, u, choice), NEW t \in Thread, t # u
  PROVE  delivered'[t] = delivered[t]
BY DEF Deliver, Recorded, TypeInv, ServiceTypeOK

\* A decision is given to the graph where it is waited for, or where another
\* has just been given.
LEMMA DecisionInHand ==
  ASSUME TypeInv, HandsInv, NEW c \in Clients, resume_review(c)
  PROVE  HandsInv'
<1> DEFINE u == req[c].thread
<1>1. /\ up /\ req[c].loc = "checked" /\ Deliver(c, u, req[c].choice)
      /\ req' = [req EXCEPT ![c].loc = "working"]
      /\ UNCHANGED <<up, crashes, overlaps, runs, job, offline, disk, reported>>
  BY DEF resume_review
<1>2. u \in Thread /\ req[c].choice \in Choices /\ c \in Invocation /\ c \notin Jobs
  BY <1>1, WhoWorks DEF TypeInv, Tidy, Threads
<1>3. /\ req'[c].loc = "working" /\ req'[c].thread = u
      /\ \A d \in Clients \ {c} : req'[d] = req[d]
  BY <1>1, RequestFacts DEF RequestRecord
<1>4. /\ \A k \in Invocation \ {c} : /\ Working(k)' <=> Working(k)
                                   /\ ThreadOf(k)' = ThreadOf(k)
      /\ Working(c)' /\ ThreadOf(c)' = u /\ ~Working(c)
  <2>. up' = up /\ job' = job /\ offline' = offline
    BY <1>1
  <2>1. \A k \in Jobs : (Working(k)' <=> Working(k)) /\ ThreadOf(k)' = ThreadOf(k)
    BY WhoWorks, WhoWorksNext DEF At
  <2>2. \A k \in Clients \ {c} : /\ Working(k)' <=> Working(k)
                                 /\ ThreadOf(k)' = ThreadOf(k)
    BY <1>3, WhoWorks, WhoWorksNext
  <2>3. (Working(Resumer)' <=> Working(Resumer)) /\ ThreadOf(Resumer)' = ThreadOf(Resumer)
    BY WhoWorks, WhoWorksNext
  <2>4. Working(c)' /\ ThreadOf(c)' = u /\ ~Working(c)
    BY <1>1, <1>3, WhoWorks, WhoWorksNext
  <2>5. QED
    BY <2>1, <2>2, <2>3, <2>4 DEF Invocation
<1>5. /\ \A k \in Invocation \ {c} : mem'[k] = mem[k] /\ (k \in dirty' <=> k \in dirty)
      /\ \A t \in Thread \ {u} : delivered'[t] = delivered[t]
  BY <1>1, <1>2, DeliverTypes, DeliveredElsewhere
<1> SUFFICES ASSUME NEW t \in Thread, ~Restarted(t)' PROVE Hands(t)'
  BY DEF HandsInv
<1>6. Starts(t)' = Starts(t) /\ Hands(t) /\ ~Restarted(t)
  BY <1>1, SameThreads DEF HandsInv
<1>7. NobodyAsks(t)' = NobodyAsks(t) /\ (t = u => ~NobodyAsks(t))
  BY <1>1, <1>3 DEF NobodyAsks
<1>8. saved' = saved /\ reported' = reported
  BY <1>1 DEF disk
<1>9. CASE t # u
  <2>1. (\A k \in Starts(t)' : job'[k].loc \in PreWork) => Untouched(t)'
    BY <1>1, <1>5, <1>6, <1>7, <1>8, <1>9 DEF Hands, Untouched
  <2>2. SavedInHand(t)'
    BY <1>5, <1>6, <1>7, <1>8, <1>9 DEF Hands, SavedInHand
  <2>3. ASSUME NEW k \in Invocation, WorksOn(k, t)' PROVE InHand(k, t)'
    <3>1. InHand(k, t) /\ k # c
      BY <1>4, <1>6, <1>9, <2>3 DEF Hands, WorksOn
    <3>2. Sole(k, t) => Sole(k, t)'
      BY <1>4, <1>5, <1>7, <1>8, <1>9 DEF Sole, WorksOn
    <3>3. QED
      BY <1>5, <1>9, <3>1, <3>2 DEF InHand, Parked
  <2>4. QED
    BY <2>1, <2>2, <2>3 DEF Hands
<1>10. CASE t = u
  <2>1. saved[t].next = "paused" \/ Answered(saved[t])
    BY <1>6, <1>7, <1>10 DEF Hands, SavedInHand
  <2>2. /\ Answered(mem'[c]) /\ mem'[c].hitl \in delivered'[t]
        /\ mem'[c].next \in Decided /\ delivered[t] \subseteq delivered'[t]
    BY <1>1, <1>2, <1>6, <1>10, <2>1, DeliveredInHand DEF Hands
  <2>3. ~\A k \in Starts(t)' : job'[k].loc \in PreWork
    BY <1>1, <1>6, <1>7, <1>10 DEF Hands, Untouched
  <2>4. SavedInHand(t)'
    BY <1>6, <1>8, <2>1, <2>2 DEF Hands, SavedInHand
  <2>5. ASSUME NEW k \in Invocation, WorksOn(k, t)' PROVE InHand(k, t)'
    <3>1. CASE k = c
      BY <1>2, <2>2, <3>1 DEF InHand
    <3>2. CASE k # c
      <4>1. InHand(k, t) /\ ~Sole(k, t)
        BY <1>4, <1>6, <1>7, <1>10, <2>5, <3>2 DEF Hands, WorksOn, Sole
      <4>2. QED
        BY <1>5, <2>2, <3>2, <4>1 DEF InHand, Parked
    <3>3. QED
      BY <3>1, <3>2
  <2>6. QED
    BY <2>3, <2>4, <2>5 DEF Hands
<1>11. QED
  BY <1>9, <1>10

\* The resumer takes up what no process has in its hands.
LEMMA ResumerInHand ==
  ASSUME TypeInv, HandsInv, NEW u \in Thread, run_resumer(u)
  PROVE  HandsInv'
<1>1. /\ ~up /\ offline = NoThread /\ saved[u].next \notin {"none", "end"}
      /\ offline' = u
      /\ UNCHANGED <<up, crashes, overlaps, memory, disk, reported>>
      /\ IF saved[u].next = "paused"
         THEN Deliver(Resumer, u, "reject")
         ELSE /\ mem' = [mem EXCEPT ![Resumer] = saved[u]]
              /\ UNCHANGED <<dirty, delivered>>
  BY DEF run_resumer, pending_interrupt
<1>2. /\ \A c \in Clients : req[c].loc = "idle"
      /\ \A j \in Jobs : job[j].loc \in {"free", "done"}
  BY <1>1 DEF TypeInv, Tidy, NobodyWithoutProcess
<1>3. /\ \A k \in Invocation : ~Working(k)
      /\ \A k \in Invocation \ {Resumer} : ~Working(k)'
      /\ ThreadOf(Resumer)' = u
  <2>. up' = up /\ job' = job /\ req' = req
    BY <1>1 DEF memory
  <2>1. \A k \in Jobs : ~Working(k) /\ ~Working(k)'
    BY <1>1, WhoWorks, WhoWorksNext DEF At
  <2>2. \A k \in Clients : ~Working(k) /\ ~Working(k)'
    BY <1>1, WhoWorks, WhoWorksNext
  <2>3. ~Working(Resumer) /\ ThreadOf(Resumer)' = u
    BY <1>1, WhoWorks, WhoWorksNext
  <2>4. QED
    BY <2>1, <2>2, <2>3 DEF Invocation
<1>4. Resumer \in Invocation /\ Resumer \notin Jobs /\ Resumer \notin Clients
      /\ "reject" \in Choices
  BY WhoWorks DEF Choices
<1>5. \A t \in Thread : t # u \/ saved[u].next # "paused" =>
        delivered'[t] = delivered[t]
  BY <1>1, <1>4, DeliveredElsewhere
<1> SUFFICES ASSUME NEW t \in Thread, ~Restarted(t)' PROVE Hands(t)'
  BY DEF HandsInv
<1>6. Starts(t)' = Starts(t) /\ Hands(t) /\ ~Restarted(t)
  BY <1>1, SameThreads DEF HandsInv, memory
<1>7. saved' = saved /\ reported' = reported /\ job' = job
      /\ NobodyAsks(t) /\ NobodyAsks(t)'
  BY <1>1, <1>2 DEF disk, memory, NobodyAsks
<1>8. CASE t # u
  <2>1. (\A k \in Starts(t)' : job'[k].loc \in PreWork) => Untouched(t)'
    BY <1>1, <1>5, <1>6, <1>7, <1>8 DEF Hands, Untouched
  <2>2. SavedInHand(t)'
    BY <1>5, <1>6, <1>7, <1>8 DEF Hands, SavedInHand
  <2>3. \A k \in Invocation : ~WorksOn(k, t)'
    BY <1>3, <1>8 DEF WorksOn
  <2>4. QED
    BY <2>1, <2>2, <2>3 DEF Hands
<1>9. CASE t = u
  <2>1. ~Untouched(t)
    BY <1>1, <1>9 DEF Untouched, Blank
  <2>2. ~\A k \in Starts(t)' : job'[k].loc \in PreWork
    BY <1>6, <1>7, <2>1 DEF Hands
  <2>3. SavedInHand(t)' /\ InHand(Resumer, t)'
    <3>1. CASE saved[u].next = "paused"
      <4>1. /\ Answered(mem'[Resumer]) /\ mem'[Resumer].hitl \in delivered'[t]
            /\ mem'[Resumer].next \in Decided
        BY <1>1, <1>4, <1>6, <1>9, <3>1, DeliveredInHand DEF Hands
      <4>2. ~Answered(saved[t])
        BY <1>6, <1>9, <3>1 DEF Hands, SavedInHand, Decided
      <4>3. QED
        BY <1>4, <1>7, <1>9, <3>1, <4>1, <4>2 DEF SavedInHand, InHand
    <3>2. CASE saved[u].next # "paused"
      <4>1. mem'[Resumer] = saved[t] /\ delivered'[t] = delivered[t]
        BY <1>1, <1>4, <1>5, <1>9, <3>2 DEF TypeInv, ServiceTypeOK
      <4>2. SavedInHand(t)'
        BY <1>6, <1>7, <4>1 DEF Hands, SavedInHand
      <4>3. \A k \in Invocation \ {Resumer} : ~WorksOn(k, t)'
        BY <1>3 DEF WorksOn
      <4>4. ~Answered(saved[t]) => Sole(Resumer, t)'
        BY <1>6, <1>7, <1>9, <3>2, <4>1, <4>3 DEF Hands, SavedInHand, Sole
      <4>5. QED
        BY <1>4, <1>6, <4>1, <4>2, <4>4 DEF Hands, SavedInHand, InHand
    <3>3. QED
      BY <3>1, <3>2
  <2>4. \A k \in Invocation \ {Resumer} : ~WorksOn(k, t)'
    BY <1>3 DEF WorksOn
  <2>5. QED
    BY <2>2, <2>3, <2>4 DEF Hands
<1>10. QED
  BY <1>8, <1>9

\* The nodes move a review on with the decision it has.
LEMMA NodesInHand ==
  ASSUME TypeInv, HandsInv, NEW i \in Invocation, Graph(i),
         ~put_checkpoint(i), ~node_raises(i)
  PROVE  HandsInv'
<1> DEFINE t == ThreadOf(i)
<1>1. Working(i) /\ mem[i] \in Snapshot
  BY DEF Graph, intake, scan, apply_fix, hitl_approval, apply_decision,
         persist_report, upload_report, AtNode, TypeInv, ServiceTypeOK
<1>2. Answered(mem[i]) /\ ~Restarted(t) => mem[i].next \in Decided
  <2>1. t \in Thread
    BY <1>1, WorkersHaveThreads DEF TypeInv, Tidy
  <2>2. QED
    BY <1>1, <2>1 DEF HandsInv, Hands, InHand, WorksOn
<1>3. ASSUME NEW s, Step(i, s), s.hitl = mem[i].hitl, mem[i].next # "paused",
             mem[i].next \in Decided => s.next \in Decided, UNCHANGED history
      PROVE  HandsInv'
  BY <1>1, <1>2, <1>3, MovingIsHarmless DEF Step, history, Answered
<1>4. ASSUME NEW p \in Position, mem[i].next # "paused",
             mem[i].next \in Decided => p \in Decided,
             Step(i, [mem[i] EXCEPT !.next = p]), UNCHANGED history
      PROVE  HandsInv'
  <2>1. LET s == [mem[i] EXCEPT !.next = p] IN s.hitl = mem[i].hitl /\ s.next = p
    BY <1>1 DEF Snapshot
  <2>2. QED
    BY <1>3, <1>4, <2>1
<1>5. CASE intake(i)
  BY <1>4, <1>5 DEF intake, AtNode, Position, Decided
<1>6. CASE hitl_approval(i)
  BY <1>4, <1>6 DEF hitl_approval, AtNode, Position, Decided
<1>7. CASE apply_decision(i)
  BY <1>4, <1>7 DEF apply_decision, AtNode, Position, Decided
<1>8. CASE upload_report(i)
  BY <1>4, <1>8 DEF upload_report, AtNode, Position, Decided
<1>9. CASE scan(i)
  <2>1. PICK next \in {"hitl", "report", "fix"} :
          Step(i, [mem[i] EXCEPT !.seen = copy[t], !.next = next])
    BY <1>9 DEF scan
  <2>2. [mem[i] EXCEPT !.seen = copy[t], !.next = next].hitl = mem[i].hitl
    BY <1>1 DEF Snapshot
  <2>3. mem[i].next = "scan" /\ UNCHANGED history
    BY <1>9 DEF scan, AtNode
  <2>4. QED
    BY <1>3, <2>1, <2>2, <2>3 DEF Decided
<1>10. CASE apply_fix(i)
  <2>1. /\ [mem[i] EXCEPT !.patched = TRUE, !.next = "scan",
                          !.iteration = @ + 1].hitl = mem[i].hitl
        /\ [mem[i] EXCEPT !.next = "scan", !.iteration = @ + 1].hitl = mem[i].hitl
    BY <1>1 DEF Snapshot
  <2>2. mem[i].next = "fix" /\ UNCHANGED history
    BY <1>10 DEF apply_fix, AtNode
  <2>3. QED
    BY <1>3, <1>10, <2>1, <2>2 DEF apply_fix, Decided
<1>11. CASE persist_report(i)
  <2>1. PICK second \in Reading(t) :
          mem' = [mem EXCEPT ![i] = [@ EXCEPT !.next = "upload", !.path = second]]
    BY <1>11 DEF persist_report
  <2>2. /\ mem[i].next = "report" /\ reported' = Recorded(reported, t, mem[i].hitl)
        /\ UNCHANGED <<up, memory, offline, dirty, saved, delivered>>
    BY <1>11 DEF persist_report, AtNode
  <2> DEFINE s == [mem[i] EXCEPT !.next = "upload", !.path = second]
  <2>3. s.hitl = mem[i].hitl /\ s.next = "upload" /\ mem' = [mem EXCEPT ![i] = s]
    BY <1>1, <2>1 DEF Snapshot
  <2>4. \A u \in Thread \ {t} : reported'[u] = reported[u]
    BY <2>2 DEF Recorded, TypeInv, ServiceTypeOK
  <2>5. QED
    BY <1>1, <2>2, <2>3, <2>4, MovingIsHarmless DEF Decided
<1>12. QED
  BY <1>5, <1>6, <1>7, <1>8, <1>9, <1>10, <1>11 DEF Graph

\* A task that prepares its review, or leaves it, takes nothing from anybody.
LEMMA TaskStops ==
  ASSUME TypeInv, HandsInv, NEW j \in Jobs, up, job[j].loc # "free",
         \A k \in Jobs : job'[k].thread = job[k].thread,
         \A k \in Jobs \ {j} : job'[k] = job[k],
         job'[j].loc # "working",
         job'[j].loc \in PreWork => job[j].loc \in PreWork,
         \A k \in Invocation \ {j} : mem'[k] = mem[k],
         dirty' \in {dirty, dirty \ {j}},
         UNCHANGED <<up, req, offline, saved, delivered, reported>>
  PROVE  HandsInv'
<1>1. ~Working(j)'
  BY WhoWorksNext DEF At
<1>2. \A k \in Invocation \ {j} : (Working(k)' => Working(k)) /\ ThreadOf(k)' = ThreadOf(k)
  <2>1. \A k \in Jobs \ {j} : (Working(k)' => Working(k)) /\ ThreadOf(k)' = ThreadOf(k)
    BY WhoWorks, WhoWorksNext DEF At
  <2>2. \A k \in Clients : (Working(k)' => Working(k)) /\ ThreadOf(k)' = ThreadOf(k)
    BY WhoWorks, WhoWorksNext
  <2>3. (Working(Resumer)' => Working(Resumer)) /\ ThreadOf(Resumer)' = ThreadOf(Resumer)
    BY WhoWorks, WhoWorksNext
  <2>4. QED
    BY <2>1, <2>2, <2>3 DEF Invocation
<1>3. \A k \in Invocation : Working(k)' =>
        /\ Working(k) /\ ThreadOf(k)' = ThreadOf(k)
        /\ mem'[k] = mem[k] /\ (k \in dirty' <=> k \in dirty)
  BY <1>1, <1>2
<1>4. \A t \in Thread : NobodyAsks(t) => NobodyAsks(t)'
  BY DEF NobodyAsks
<1>5. \A k \in Jobs : job'[k].loc \in PreWork => job[k].loc \in PreWork
  OBVIOUS
<1>6. QED
  BY <1>3, <1>4, <1>5, StoppingIsHarmless

\* A task that fails leaves the review in the hands it was in.
LEMMA FailureInHand ==
  ASSUME TypeInv, HandsInv, NEW j \in Jobs, up, job[j].loc # "free", Fails(j)
  PROVE  HandsInv'
<1>1. /\ job' = [job EXCEPT ![j].loc = "done"] /\ mem' = [mem EXCEPT ![j] = Blank]
      /\ dirty' = dirty \ {j}
      /\ UNCHANGED <<up, crashes, overlaps, req, offline, saved, files, history>>
  BY DEF Fails
<1>2. job'[j].loc = "done"
      /\ (\A k \in Jobs : job'[k].thread = job[k].thread)
      /\ \A k \in Jobs \ {j} : job'[k] = job[k]
  BY <1>1, TaskFacts DEF JobRecord
<1>3. \A k \in Invocation \ {j} : mem'[k] = mem[k]
  BY <1>1, TaskFacts
<1>4. UNCHANGED <<up, req, offline, saved, delivered, reported>>
  BY <1>1 DEF history
<1>5. QED
  BY <1>1, <1>2, <1>3, <1>4, TaskStops DEF PreWork

\* Every step of a task keeps the reviews in the hands they are in.
LEMMA TasksInHand ==
  ASSUME TypeInv, HandsInv, NEW j \in Jobs, Task(j)
  PROVE  HandsInv'
<1>1. up /\ job[j].loc # "free"
  BY WhoWorks
  DEF Task, run_review, materialize_clear, materialize_copy, materialize_raises,
      materialise_refuses, materialise_inline, materialise_escapes,
      invoke_returns, run_review_ends, Returned, At
<1>2. CASE run_review(j)
  <2>1. /\ job' = [job EXCEPT ![j].loc = "materialising"] /\ job[j].loc = "accepted"
        /\ UNCHANGED <<up, crashes, overlaps, req, offline, mem, dirty, disk, history>>
    BY <1>2 DEF run_review, At
  <2>2. job'[j].loc = "materialising"
        /\ (\A k \in Jobs : job'[k].thread = job[k].thread)
        /\ \A k \in Jobs \ {j} : job'[k] = job[k]
    BY <1>1, <2>1, TaskFacts DEF JobRecord
  <2>3. UNCHANGED <<up, req, offline, saved, delivered, reported>>
    BY <2>1 DEF disk, history
  <2>4. QED
    BY <1>1, <2>1, <2>2, <2>3, TaskStops DEF PreWork
<1>3. CASE materialize_clear(j)
  <2>1. /\ job' = [job EXCEPT ![j].loc = "cleared"] /\ job[j].loc = "materialising"
        /\ UNCHANGED <<up, crashes, overlaps, runs, req, offline, mem, dirty,
                       saved, files, history>>
    BY <1>3 DEF materialize_clear, At
  <2>2. job'[j].loc = "cleared"
        /\ (\A k \in Jobs : job'[k].thread = job[k].thread)
        /\ \A k \in Jobs \ {j} : job'[k] = job[k]
    BY <1>1, <2>1, TaskFacts DEF JobRecord
  <2>3. UNCHANGED <<up, req, offline, saved, delivered, reported>>
    BY <2>1 DEF history
  <2>4. QED
    BY <1>1, <2>1, <2>2, <2>3, TaskStops DEF PreWork
<1>4. CASE materialize_copy(j) \/ materialise_inline(j)
  <2>1. Begin(j) /\ job[j].loc \in PreWork
    BY <1>4 DEF materialize_copy, materialise_inline, At, PreWork
  <2>2. QED
    BY <1>1, <2>1, BeginningInHand
<1>5. CASE materialize_raises(j) \/ materialise_refuses(j) \/ materialise_escapes(j)
  BY <1>1, <1>5, FailureInHand
  DEF materialize_raises, materialise_refuses, materialise_escapes
<1>6. CASE invoke_returns(j)
  <2>1. /\ job' = [job EXCEPT ![j].loc = "returned",
                              ![j].paused = pending_interrupt(job[j].thread)]
        /\ mem' = [mem EXCEPT ![j] = Blank]
        /\ UNCHANGED <<up, crashes, overlaps, runs, req, offline, dirty, disk, history>>
    BY <1>6 DEF invoke_returns
  <2>2. job'[j].loc = "returned"
        /\ (\A k \in Jobs : job'[k].thread = job[k].thread)
        /\ \A k \in Jobs \ {j} : job'[k] = job[k]
    BY <1>1, <2>1, TaskFacts DEF JobRecord
  <2>3. \A k \in Invocation \ {j} : mem'[k] = mem[k]
    BY <1>1, <2>1, TaskFacts
  <2>4. UNCHANGED <<up, req, offline, saved, delivered, reported>>
    BY <2>1 DEF disk, history
  <2>5. QED
    BY <1>1, <2>1, <2>2, <2>3, <2>4, TaskStops DEF PreWork
<1>7. CASE run_review_ends(j)
  <2>1. /\ job' = [job EXCEPT ![j] = [@ EXCEPT !.loc = "done", !.paused = FALSE]]
        /\ UNCHANGED <<up, crashes, overlaps, req, offline, mem, dirty, disk, history>>
    BY <1>7 DEF run_review_ends
  <2>2. job'[j].loc = "done"
        /\ (\A k \in Jobs : job'[k].thread = job[k].thread)
        /\ \A k \in Jobs \ {j} : job'[k] = job[k]
    BY <1>1, <2>1, TaskFacts DEF JobRecord
  <2>3. UNCHANGED <<up, req, offline, saved, delivered, reported>>
    BY <2>1 DEF disk, history
  <2>4. QED
    BY <1>1, <2>1, <2>2, <2>3, TaskStops DEF PreWork
<1>8. QED
  BY <1>2, <1>3, <1>4, <1>5, <1>6, <1>7 DEF Task

\* An invocation that is not a task and leaves the graph takes nothing either.
LEMMA LeavingIsHarmless ==
  ASSUME TypeInv, HandsInv, NEW i \in Invocation \ Jobs,
         \A c \in Clients \ {i} : req'[c] = req[c],
         i \in Clients => req'[i] = Idle /\ offline' = offline,
         i = Resumer => offline' = NoThread,
         \A k \in Invocation \ {i} : mem'[k] = mem[k],
         dirty' \in {dirty, dirty \ {i}},
         UNCHANGED <<up, job, saved, delivered, reported>>
  PROVE  HandsInv'
<1>1. Idle.loc = "idle"
  BY DEF Idle
<1>2. ~Working(i)'
  <2>1. CASE i \in Clients
    BY <1>1, <2>1, WhoWorksNext
  <2>2. CASE i = Resumer
    BY <2>2, WhoWorksNext
  <2>3. QED
    BY <2>1, <2>2 DEF Invocation
<1>3. \A k \in Invocation \ {i} : Working(k)' => Working(k) /\ ThreadOf(k)' = ThreadOf(k)
  <2>1. \A k \in Jobs : (Working(k)' => Working(k)) /\ ThreadOf(k)' = ThreadOf(k)
    BY WhoWorks, WhoWorksNext DEF At
  <2>2. \A k \in Clients \ {i} : (Working(k)' => Working(k)) /\ ThreadOf(k)' = ThreadOf(k)
    BY WhoWorks, WhoWorksNext
  <2>3. i # Resumer => (Working(Resumer)' => Working(Resumer)) /\ ThreadOf(Resumer)' = ThreadOf(Resumer)
    BY WhoWorks, WhoWorksNext DEF Invocation
  <2>4. QED
    BY <2>1, <2>2, <2>3 DEF Invocation
<1>4. \A k \in Invocation : Working(k)' =>
        /\ Working(k) /\ ThreadOf(k)' = ThreadOf(k)
        /\ mem'[k] = mem[k] /\ (k \in dirty' <=> k \in dirty)
  BY <1>2, <1>3
<1>5. \A t \in Thread : NobodyAsks(t) => NobodyAsks(t)'
  BY <1>1 DEF NobodyAsks
<1>6. offline' \in {offline, NoThread}
  BY DEF Invocation
<1>7. QED
  BY <1>4, <1>5, <1>6, StoppingIsHarmless

\* Nor does an exception in the graph.
LEMMA RaisingInHand ==
  ASSUME TypeInv, HandsInv, NEW i \in Invocation, node_raises(i)
  PROVE  HandsInv'
<1>2. CASE i \in Jobs
  <2>1. Fails(i) /\ up /\ job[i].loc # "free"
    BY <1>2, RaiseFacts
  <2>2. QED
    BY <1>2, <2>1, FailureInHand
<1>3. CASE i \notin Jobs
  <2>1. /\ mem' = [mem EXCEPT ![i] = Blank] /\ dirty' = dirty \ {i}
        /\ IF i \in Clients
           THEN req' = [req EXCEPT ![i] = Idle] /\ UNCHANGED offline
           ELSE offline' = NoThread /\ UNCHANGED req
        /\ UNCHANGED <<up, crashes, overlaps, runs, job, saved, files, history>>
    BY <1>3, RaiseFacts
  <2>2. \A k \in Invocation \ {i} : mem'[k] = mem[k]
    BY <2>1, RequestFacts
  <2>3. /\ \A c \in Clients \ {i} : req'[c] = req[c]
        /\ i \in Clients => req'[i] = Idle /\ offline' = offline
        /\ i = Resumer => offline' = NoThread
    BY <2>1, RequestFacts, WhoWorks
  <2>4. UNCHANGED <<up, job, saved, delivered, reported>>
    BY <2>1 DEF history
  <2>5. QED
    BY <1>3, <2>1, <2>2, <2>3, <2>4, LeavingIsHarmless
<1>4. QED
  BY <1>2, <1>3

\* Nor a request that is answered, nor the resumer when it exits.
LEMMA LeaversInHand ==
  ASSUME TypeInv, HandsInv, (\E c \in Clients : resume_responds(c)) \/ resumer_exits
  PROVE  HandsInv'
<1>1. ASSUME NEW c \in Clients, resume_responds(c) PROVE HandsInv'
  <2>1. /\ req' = [req EXCEPT ![c] = Idle] /\ mem' = [mem EXCEPT ![c] = Blank]
        /\ UNCHANGED <<up, crashes, overlaps, job, offline, dirty, disk, history>>
    BY <1>1 DEF resume_responds
  <2>2. c \in Invocation \ Jobs /\ c # Resumer
    BY WhoWorks
  <2>3. /\ \A k \in Invocation \ {c} : mem'[k] = mem[k]
        /\ req'[c] = Idle /\ \A d \in Clients \ {c} : req'[d] = req[d]
    BY <2>1, RequestFacts
  <2>4. UNCHANGED <<up, job, offline, dirty, saved, delivered, reported>>
    BY <2>1 DEF disk, history
  <2>5. QED
    BY <2>2, <2>3, <2>4, LeavingIsHarmless
<1>2. CASE resumer_exits
  <2>1. /\ offline' = NoThread /\ mem' = [mem EXCEPT ![Resumer] = Blank]
        /\ UNCHANGED <<up, crashes, overlaps, memory, dirty, disk, history>>
    BY <1>2 DEF resumer_exits
  <2>2. Resumer \in Invocation \ Jobs /\ Resumer \notin Clients
    BY WhoWorks
  <2>3. \A k \in Invocation \ {Resumer} : mem'[k] = mem[k]
    BY <2>1, RequestFacts
  <2>4. UNCHANGED <<up, job, req, dirty, saved, delivered, reported>>
    BY <2>1 DEF memory, disk, history
  <2>5. QED
    BY <2>1, <2>2, <2>3, <2>4, LeavingIsHarmless
<1>3. QED
  BY <1>1, <1>2

\* The death of the process takes the review out of everybody's hands but the
\* resumer's.
LEMMA DeathInHand ==
  ASSUME TypeInv, HandsInv, crash
  PROVE  HandsInv'
<1>1. /\ up' = FALSE /\ UNCHANGED <<overlaps, offline, disk, history>>
      /\ dirty' = dirty \cap {Resumer} /\ req' = [c \in Clients |-> Idle]
      /\ mem' = [i \in Invocation |-> IF i = Resumer THEN mem[i] ELSE Blank]
      /\ job' = [j \in Jobs |->
                   IF job[j].loc = "free" THEN NoJob
                   ELSE [job[j] EXCEPT !.loc = "done", !.paused = FALSE]]
  BY DEF crash
<1>2. NoJob.loc = "free" /\ Idle.loc = "idle"
  BY DEF NoJob, Idle
<1>3. ASSUME NEW j \in Jobs
      PROVE  job'[j].thread = job[j].thread /\ job'[j].loc \notin PreWork
  <2>1. job[j] \in JobRecord
    BY DEF TypeInv, ServiceTypeOK, JobRecord
  <2>2. CASE job[j].loc = "free"
    BY <1>1, <1>2, <2>2 DEF TypeInv, Tidy, Threads, PreWork
  <2>3. CASE job[j].loc # "free"
    BY <1>1, <2>1, <2>3 DEF JobRecord, PreWork
  <2>4. QED
    BY <2>2, <2>3
<1>4. \A k \in Invocation : k # Resumer => ~Working(k)'
  BY <1>1, WhoWorksNext DEF Invocation, At
<1>5. /\ Working(Resumer)' => Working(Resumer) /\ ThreadOf(Resumer)' = ThreadOf(Resumer)
      /\ Resumer \in Invocation
      /\ mem'[Resumer] = mem[Resumer] /\ (Resumer \in dirty' <=> Resumer \in dirty)
  <2>1. Resumer \in Invocation /\ offline' = offline
    BY <1>1, WhoWorks
  <2>2. QED
    BY <1>1, <2>1, WhoWorks, WhoWorksNext
<1>6. \A k \in Invocation : Working(k)' =>
        /\ Working(k) /\ ThreadOf(k)' = ThreadOf(k)
        /\ mem'[k] = mem[k] /\ (k \in dirty' <=> k \in dirty)
  BY <1>4, <1>5
<1>7. \A t \in Thread : NobodyAsks(t) => NobodyAsks(t)'
  BY <1>1, <1>2 DEF NobodyAsks
<1>8. UNCHANGED <<saved, delivered, reported>> /\ offline' \in {offline, NoThread}
  BY <1>1 DEF disk, history
<1>9. QED
  BY <1>3, <1>6, <1>7, <1>8, StoppingIsHarmless

\* A restart, or no step at all, changes nothing of that.
LEMMA NothingInHand ==
  ASSUME TypeInv, HandsInv, restart \/ UNCHANGED vars
  PROVE  HandsInv'
<1>1. /\ UNCHANGED <<job, req, offline, mem, dirty, saved, delivered, reported>>
      /\ ~up \/ up' = up
  BY DEF restart, vars, memory, disk, history
<1>2. \A k \in Invocation : (Working(k)' => Working(k)) /\ ThreadOf(k)' = ThreadOf(k)
  <2>1. CASE ~up
    <3>1. /\ \A j \in Jobs : job[j].loc # "working"
          /\ \A c \in Clients : req[c].loc # "working"
      BY <2>1 DEF TypeInv, Tidy, NobodyWithoutProcess
    <3>2. QED
      BY <1>1, <3>1, WhoWorks, WhoWorksNext DEF Invocation, At
  <2>2. CASE up' = up
    BY <1>1, <2>2, WhoWorks, WhoWorksNext DEF Invocation, At
  <2>3. QED
    BY <1>1, <2>1, <2>2
<1>3. \A t \in Thread : NobodyAsks(t) => NobodyAsks(t)'
  BY <1>1 DEF NobodyAsks
<1>4. QED
  BY <1>1, <1>2, <1>3, StoppingIsHarmless

\* At the start nobody has anything in hand.
LEMMA InitInHand ==
  ASSUME Init
  PROVE  HandsInv
<1>1. /\ up = TRUE /\ offline = NoThread
      /\ \A t \in Thread : saved[t] = Blank /\ delivered[t] = {} /\ reported[t] = {}
      /\ \A c \in Clients : req[c].loc = "idle"
      /\ \A j \in Jobs : job[j].loc = "free"
  BY DEF Init, Idle, NoJob
<1>2. \A i \in Invocation : ~Working(i)
  BY <1>1, WhoWorks DEF Invocation, At
<1>3. Blank.hitl = Undecided
  BY DEF Blank
<1>4. ASSUME NEW t \in Thread PROVE Hands(t)
  <2>1. Untouched(t) /\ NobodyAsks(t)
    BY <1>1, NoThreadIsNone DEF Untouched, NobodyAsks
  <2>2. SavedInHand(t)
    BY <1>1, <1>3, <2>1 DEF SavedInHand, Answered
  <2>3. QED
    BY <1>2, <2>1, <2>2 DEF Hands, WorksOn
<1>5. QED
  BY <1>4 DEF HandsInv

\* Whose hands each review is in is known from the start and through every step.
THEOREM ReviewsInHand == Spec => [](TypeInv /\ HandsInv)
<1>1. Init => HandsInv
  BY InitInHand
<1>2. TypeInv /\ HandsInv /\ [Next]_vars => HandsInv'
  <2> SUFFICES ASSUME TypeInv, HandsInv, [Next]_vars PROVE HandsInv'
    OBVIOUS
  <2>1. ASSUME NEW i \in Invocation, Graph(i) PROVE HandsInv'
    BY <2>1, CheckpointInHand, RaisingInHand, NodesInHand
  <2>2. ASSUME NEW c \in Clients, Request(c) PROVE HandsInv'
    BY <2>2, DecisionInHand, LeaversInHand DEF Request
  <2>3. QED
    BY <2>1, <2>2, NothingInHand, DeathInHand, LeaversInHand, TasksInHand,
       WebhookInHand, AdmissionInHand, ResumerInHand
    DEF Next
<1>3. Spec => []TypeInv
  BY ServiceTypes DEF TypeInv
<1>4. QED
  BY <1>1, <1>2, <1>3, PTL DEF Spec

-----------------------------------------------------------------------------
(***************************************************************************)
(* Nobody works on, or asks for, a review that has no checkpoint.          *)
(***************************************************************************)
Exists(t) == saved[t].next # "none"

Begun ==
  /\ \A i \in Invocation : Working(i) => Exists(ThreadOf(i)) /\ mem[i].next # "none"
  /\ \A c \in Clients : req[c].loc # "idle" => Exists(req[c].thread)

\* It stays so as long as whoever goes on, or begins, has a state, and nobody
\* takes a checkpoint away.
LEMMA BegunKept ==
  ASSUME TypeInv, Begun,
         \A t \in Thread : Exists(t) => Exists(t)',
         \A j \in Jobs : At(j, "working")' =>
            \/ At(j, "working") /\ job'[j].thread = job[j].thread
               /\ (mem'[j] = mem[j] \/ mem'[j].next # "none")
            \/ mem'[j].next # "none" /\ saved'[job'[j].thread].next # "none",
         \A c \in Clients : req'[c].loc # "idle" =>
            \/ req[c].loc # "idle" /\ req'[c].thread = req[c].thread
            \/ saved'[req'[c].thread].next # "none",
         \A c \in Clients : up' /\ req'[c].loc = "working" =>
            \/ Working(c) /\ mem'[c] = mem[c]
            \/ mem'[c].next # "none",
         offline' # NoThread =>
            \/ offline' = offline /\ (mem'[Resumer] = mem[Resumer] \/ mem'[Resumer].next # "none")
            \/ mem'[Resumer].next # "none" /\ saved'[offline'].next # "none"
  PROVE  Begun'
<1>1. \A c \in Clients : req[c].loc # "idle" => req[c].thread \in Thread
  BY DEF TypeInv, Tidy, Threads
<1>2. \A c \in Clients : req'[c].loc # "idle" => Exists(req[c].thread)' \/ saved'[req'[c].thread].next # "none"
  BY <1>1 DEF Begun
<1>3. \A c \in Clients : req'[c].loc # "idle" => saved'[req'[c].thread].next # "none"
  BY <1>1, <1>2 DEF Begun, Exists
<1>4. ASSUME NEW c \in Clients, Working(c)'
      PROVE  saved'[req'[c].thread].next # "none" /\ mem'[c].next # "none"
  BY <1>3, <1>4, WhoWorks, WhoWorksNext DEF Begun
<1>5. ASSUME NEW j \in Jobs, Working(j)'
      PROVE  saved'[job'[j].thread].next # "none" /\ mem'[j].next # "none"
  <2>1. At(j, "working")' /\ j \in Invocation
    BY <1>5, WhoWorks, WhoWorksNext
  <2>2. CASE At(j, "working") /\ job'[j].thread = job[j].thread
             /\ (mem'[j] = mem[j] \/ mem'[j].next # "none")
    <3>1. Working(j) /\ ThreadOf(j) = job[j].thread /\ job[j].thread \in Thread
      BY <2>2, WhoWorks DEF TypeInv, Tidy, Threads, At
    <3>2. QED
      BY <2>1, <2>2, <3>1 DEF Begun, Exists
  <2>3. QED
    BY <2>1, <2>2
<1>6. ASSUME Working(Resumer)'
      PROVE  saved'[offline'].next # "none" /\ mem'[Resumer].next # "none"
  <2>1. offline' # NoThread /\ Resumer \in Invocation
    BY <1>6, WhoWorks, WhoWorksNext
  <2>2. CASE offline' = offline /\ (mem'[Resumer] = mem[Resumer] \/ mem'[Resumer].next # "none")
    <3>1. Working(Resumer) /\ ThreadOf(Resumer) = offline /\ offline \in Thread
      BY <2>1, <2>2, WhoWorks DEF TypeInv, ServiceTypeOK
    <3>2. QED
      BY <2>1, <2>2, <3>1 DEF Begun, Exists
  <2>3. QED
    BY <2>1, <2>2
<1>7. QED
  BY <1>3, <1>4, <1>5, <1>6, WhoWorksNext DEF Begun, Exists, Invocation

\* So in every step.
LEMMA BegunStep ==
  ASSUME TypeInv, Begun, [Next]_vars
  PROVE  Begun'
<1>1. \A i \in Invocation : mem[i] \in Snapshot
  BY DEF TypeInv, ServiceTypeOK
<1>2. \A i \in Invocation : Working(i) => mem[i].next # "none"
  BY DEF Begun
<1>3. \A j \in Jobs : At(j, "working") => Working(j) /\ j \in Invocation
  BY WhoWorks
<1>4. ASSUME NEW i \in Invocation, UNCHANGED <<up, memory, offline, saved>>,
             \A k \in Invocation \ {i} : mem'[k] = mem[k],
             mem'[i].next # "none"
      PROVE  Begun'
  <2>1. \A c \in Clients : (up' /\ req'[c].loc = "working" => Working(c)) /\ c \in Invocation
    BY <1>4, WhoWorks DEF memory
  <2>2. Resumer \in Invocation
    BY WhoWorks
  <2>3. QED
    BY <1>3, <1>4, <2>1, <2>2, BegunKept DEF memory, At, Exists
<1>5. ASSUME NEW i \in Invocation, Graph(i), ~put_checkpoint(i), ~node_raises(i)
      PROVE  Begun'
  <2>1. Working(i) /\ i \in Invocation
    BY <1>5 DEF Graph, intake, scan, apply_fix, hitl_approval, apply_decision,
                persist_report, upload_report, AtNode
  <2>2. PICK s : mem' = [mem EXCEPT ![i] = s] /\ s.next # "none"
    <3>1. \A p \in Position \ {"none"} : [mem[i] EXCEPT !.next = p].next # "none"
      BY <1>1 DEF Snapshot
    <3>2. CASE intake(i) \/ hitl_approval(i) \/ apply_decision(i) \/ upload_report(i)
      <4>1. \E p \in Position \ {"none"} : Step(i, [mem[i] EXCEPT !.next = p])
        BY <3>2 DEF intake, hitl_approval, apply_decision, upload_report, Position
      <4>2. QED
        BY <3>1, <4>1 DEF Step
    <3>3. CASE scan(i)
      <4>1. PICK next \in {"hitl", "report", "fix"} :
              Step(i, [mem[i] EXCEPT !.seen = copy[ThreadOf(i)], !.next = next])
        BY <3>3 DEF scan
      <4>2. [mem[i] EXCEPT !.seen = copy[ThreadOf(i)], !.next = next].next # "none"
        BY <1>1 DEF Snapshot
      <4>3. QED
        BY <4>1, <4>2 DEF Step
    <3>4. CASE apply_fix(i)
      <4>1. /\ [mem[i] EXCEPT !.patched = TRUE, !.next = "scan",
                              !.iteration = @ + 1].next # "none"
            /\ [mem[i] EXCEPT !.next = "scan", !.iteration = @ + 1].next # "none"
        BY <1>1 DEF Snapshot
      <4>2. QED
        BY <3>4, <4>1 DEF apply_fix, Step
    <3>5. CASE persist_report(i)
      <4>1. PICK second : mem' = [mem EXCEPT ![i] = [@ EXCEPT !.next = "upload", !.path = second]]
        BY <3>5 DEF persist_report
      <4>2. [mem[i] EXCEPT !.next = "upload", !.path = second].next # "none"
        BY <1>1 DEF Snapshot
      <4>3. mem' = [mem EXCEPT ![i] = [mem[i] EXCEPT !.next = "upload", !.path = second]]
        BY <4>1
      <4>4. QED
        BY <4>2, <4>3
    <3>6. QED
      BY <1>5, <3>2, <3>3, <3>4, <3>5 DEF Graph
  <2>3. UNCHANGED <<up, memory, offline, saved>>
    BY <1>5 DEF Graph, intake, scan, apply_fix, hitl_approval, apply_decision,
                persist_report, upload_report, Step
  <2>4. (\A k \in Invocation \ {i} : mem'[k] = mem[k]) /\ mem'[i].next # "none"
    BY <2>2, RequestFacts
  <2>5. QED
    BY <1>4, <2>3, <2>4
<1>6. ASSUME NEW i \in Invocation, put_checkpoint(i) PROVE Begun'
  <2>1. /\ Working(i) /\ saved' = [saved EXCEPT ![ThreadOf(i)] = mem[i]]
        /\ UNCHANGED <<up, memory, offline, mem>>
    BY <1>6 DEF put_checkpoint
  <2>2. \A t \in Thread : Exists(t) => Exists(t)'
    BY <1>2, <2>1 DEF Exists, TypeInv, ServiceTypeOK
  <2>3. \A c \in Clients : up' /\ req'[c].loc = "working" => Working(c)
    BY <2>1, WhoWorks DEF memory
  <2>4. QED
    BY <2>1, <2>2, <2>3, BegunKept DEF memory, At
<1>7. ASSUME NEW j \in Jobs, UNCHANGED <<up, req, offline, saved>>,
             \A k \in Jobs \ {j} : job'[k] = job[k], job'[j].loc # "working",
             \A k \in Invocation \ {j} : mem'[k] = mem[k]
      PROVE  Begun'
  <2>1. \A k \in Jobs : At(k, "working")' => k # j /\ At(k, "working")
    BY <1>7 DEF At
  <2>2. \A c \in Clients : (up' /\ req'[c].loc = "working" => Working(c)) /\ mem'[c] = mem[c]
    BY <1>7, WhoWorks
  <2>3. mem'[Resumer] = mem[Resumer]
    BY <1>7, WhoWorks
  <2>4. QED
    BY <1>3, <1>7, <2>1, <2>2, <2>3, BegunKept DEF Exists
<1>8. ASSUME NEW j \in Jobs, Task(j), ~materialize_copy(j), ~materialise_inline(j)
      PROVE  Begun'
  <2>1. up /\ job[j].loc # "free"
    BY <1>8, WhoWorks
    DEF Task, run_review, materialize_clear, materialize_raises,
        materialise_refuses, materialise_escapes,
        invoke_returns, run_review_ends, Returned, At
  <2>2. \E l \in {"materialising", "cleared", "returned", "done"}, b \in BOOLEAN :
           \/ job' = [job EXCEPT ![j].loc = l]
           \/ job' = [job EXCEPT ![j].loc = l, ![j].paused = b]
           \/ job' = [job EXCEPT ![j] = [@ EXCEPT !.loc = l, !.paused = b]]
    BY <1>8 DEF Task, run_review, materialize_clear, materialize_raises,
        materialise_refuses, materialise_escapes, Fails,
        invoke_returns, run_review_ends, pending_interrupt
  <2>3. job'[j].loc # "working" /\ \A k \in Jobs \ {j} : job'[k] = job[k]
    <3>1. job \in [Jobs -> JobRecord] /\ job[j] \in JobRecord
      BY <2>1, TaskFacts
    <3>2. PICK l \in {"materialising", "cleared", "returned", "done"}, b \in BOOLEAN :
            job' \in {[job EXCEPT ![j].loc = l],
                      [job EXCEPT ![j].loc = l, ![j].paused = b],
                      [job EXCEPT ![j] = [@ EXCEPT !.loc = l, !.paused = b]]}
      BY <2>2
    <3>3. CASE job' = [job EXCEPT ![j].loc = l]
      BY <3>1, <3>3 DEF JobRecord
    <3>4. CASE job' = [job EXCEPT ![j].loc = l, ![j].paused = b]
      BY <3>1, <3>4 DEF JobRecord
    <3>5. CASE job' = [job EXCEPT ![j] = [@ EXCEPT !.loc = l, !.paused = b]]
      BY <3>1, <3>5 DEF JobRecord
    <3>6. QED
      BY <3>2, <3>3, <3>4, <3>5
  <2>4. UNCHANGED <<up, req, offline, saved>> /\ mem' \in {mem, [mem EXCEPT ![j] = Blank]}
    BY <1>8 DEF Task, run_review, materialize_clear, materialize_raises,
        materialise_refuses, materialise_escapes, Fails,
        invoke_returns, run_review_ends, disk
  <2>5. \A k \in Invocation \ {j} : mem'[k] = mem[k]
    BY <2>1, <2>4, TaskFacts
  <2>6. QED
    BY <1>7, <2>3, <2>4, <2>5
<1>9. ASSUME NEW j \in Jobs, materialize_copy(j) \/ materialise_inline(j) PROVE Begun'
  <2> DEFINE u == job[j].thread
             input == [Blank EXCEPT !.next = "intake", !.patched = saved[u].patched]
  <2>1. /\ mem' = [mem EXCEPT ![j] = input] /\ saved' = [saved EXCEPT ![u] = input]
        /\ job' = [job EXCEPT ![j].loc = "working",
                              ![j].kind = IF @ = "inline" THEN "fixture" ELSE @]
        /\ UNCHANGED <<up, req, offline>>
    BY <1>9 DEF materialize_copy, materialise_inline, Begin
  <2>2. up /\ job[j].loc # "free"
    BY <1>9 DEF materialize_copy, materialise_inline, At
  <2>3. /\ \A k \in Jobs : job'[k].thread = job[k].thread
        /\ \A k \in Jobs \ {j} : job'[k] = job[k]
    BY <2>1, <2>2, TaskFacts DEF JobRecord
  <2>4. input.next = "intake"
    BY DEF Blank
  <2>5. /\ saved'[u] = input /\ mem'[j] = input
        /\ \A t \in Thread \ {u} : saved'[t] = saved[t]
        /\ \A k \in Invocation \ {j} : mem'[k] = mem[k]
    BY <2>1, <2>2, TaskFacts
  <2>6. \A t \in Thread : Exists(t) => Exists(t)'
    BY <2>4, <2>5 DEF Exists
  <2>7. \A k \in Jobs \ {j} : At(k, "working")' => At(k, "working") /\ mem'[k] = mem[k]
    BY <1>3, <2>1, <2>3, <2>5 DEF At
  <2>8. /\ \A c \in Clients : (up' /\ req'[c].loc = "working" => Working(c)) /\ mem'[c] = mem[c]
        /\ mem'[Resumer] = mem[Resumer]
    BY <2>1, <2>5, WhoWorks
  <2>9. mem'[j].next # "none" /\ saved'[job'[j].thread].next # "none"
    BY <2>3, <2>4, <2>5
  <2>10. \A k \in Jobs : At(k, "working")' =>
           \/ At(k, "working") /\ job'[k].thread = job[k].thread /\ mem'[k] = mem[k]
           \/ mem'[k].next # "none" /\ saved'[job'[k].thread].next # "none"
    BY <2>3, <2>7, <2>9
  <2>11. \A c \in Clients : req'[c] = req[c]
    BY <2>1
  <2>12. offline' = offline /\ mem'[Resumer] = mem[Resumer]
    BY <2>1, <2>8
  <2>13. QED
    BY <2>6, <2>8, <2>10, <2>11, <2>12, BegunKept
<1>10. ASSUME NEW i \in Invocation, node_raises(i) PROVE Begun'
  <2>1. CASE i \in Jobs
    <3>1. Fails(i) /\ up /\ job[i].loc # "free"
      BY <1>7, <1>10, <2>1, RaiseFacts
    <3>2. /\ job' = [job EXCEPT ![i].loc = "done"] /\ mem' = [mem EXCEPT ![i] = Blank]
          /\ UNCHANGED <<up, req, offline, saved>>
      BY <3>1 DEF Fails
    <3>3. job'[i].loc # "working" /\ \A k \in Jobs \ {i} : job'[k] = job[k]
      BY <2>1, <3>1, <3>2, TaskFacts DEF JobRecord
    <3>4. \A k \in Invocation \ {i} : mem'[k] = mem[k]
      BY <3>2, RequestFacts
    <3>5. QED
      BY <1>7, <2>1, <3>2, <3>3, <3>4
  <2>2. CASE i \notin Jobs
    <3>1. /\ mem' = [mem EXCEPT ![i] = Blank]
          /\ IF i \in Clients
             THEN req' = [req EXCEPT ![i] = Idle] /\ UNCHANGED offline
             ELSE offline' = NoThread /\ UNCHANGED req
          /\ UNCHANGED <<up, job, saved>>
      BY <1>7, <1>10, <2>2, RaiseFacts
    <3>2. \A k \in Invocation \ {i} : mem'[k] = mem[k]
      BY <3>1, RequestFacts
    <3>3. \A c \in Clients : IF c = i THEN req'[c] = Idle ELSE req'[c] = req[c]
      BY <3>1, RequestFacts, WhoWorks
    <3>4. offline' = NoThread \/ (offline' = offline /\ i # Resumer)
      BY <3>1, WhoWorks
    <3>5. Idle.loc = "idle"
      BY DEF Idle
    <3>6. \A c \in Clients : req'[c].loc # "idle" => req'[c] = req[c] /\ mem'[c] = mem[c]
      BY <3>2, <3>3, <3>5, WhoWorks
    <3>7. \A j \in Jobs : At(j, "working")' => At(j, "working") /\ mem'[j] = mem[j]
      BY <2>2, <3>1, <3>2, WhoWorks DEF At
    <3>8. offline' # NoThread => offline' = offline /\ mem'[Resumer] = mem[Resumer]
      BY <3>2, <3>4, WhoWorks
    <3>9. UNCHANGED <<up, job, saved>>
      BY <3>1
    <3>10. \A c \in Clients : up' /\ req'[c].loc = "working" =>
             Working(c) /\ mem'[c] = mem[c]
      BY <3>6, <3>9, WhoWorks
    <3>11. QED
      BY <3>6, <3>7, <3>8, <3>9, <3>10, BegunKept DEF Exists
  <2>3. QED
    BY <2>1, <2>2
<1>11. ASSUME NEW c \in Clients, Request(c) PROVE Begun'
  <2>1. /\ \A d \in Clients \ {c} : req'[d] = req[d]
        /\ req'[c].loc # "idle" => /\ req[c].loc # "idle" /\ req'[c].thread = req[c].thread
                                  /\ resume_review(c)
        /\ UNCHANGED <<up, job, offline, saved>>
        /\ \A k \in Invocation \ {c} : mem'[k] = mem[k]
    <3>1. CASE resume_review(c)
      <4>1. /\ req[c].loc = "checked" /\ Deliver(c, req[c].thread, req[c].choice)
            /\ req' = [req EXCEPT ![c].loc = "working"]
            /\ UNCHANGED <<up, job, offline, disk>>
        BY <3>1 DEF resume_review
      <4>2. mem' = [mem EXCEPT ![c] = Loaded(req[c].thread, req[c].choice)]
        BY <4>1 DEF Deliver
      <4>3. QED
        BY <3>1, <4>1, <4>2, RequestFacts DEF RequestRecord, disk
    <3>2. CASE resume_responds(c)
      <4>1. /\ req' = [req EXCEPT ![c] = Idle] /\ mem' = [mem EXCEPT ![c] = Blank]
            /\ UNCHANGED <<up, job, offline, disk>>
        BY <3>2 DEF resume_responds
      <4>2. QED
        BY <4>1, RequestFacts DEF disk
    <3>3. QED
      BY <1>11, <3>1, <3>2 DEF Request
  <2>2. req'[c].loc # "idle" => mem'[c].next # "none"
    <3>1. SUFFICES ASSUME resume_review(c) PROVE mem'[c].next # "none"
      BY <2>1
    <3>2. req[c].loc # "idle" /\ Deliver(c, req[c].thread, req[c].choice)
      BY <3>1 DEF resume_review
    <3>3. Exists(req[c].thread) /\ req[c].thread \in Thread /\ c \in Invocation
      BY <3>2, WhoWorks DEF Begun, TypeInv, Tidy, Threads
    <3>4. mem'[c] = Loaded(req[c].thread, req[c].choice) /\ saved[req[c].thread] \in Snapshot
      BY <3>2, <3>3, RequestFacts DEF Deliver, TypeInv, ServiceTypeOK
    <3>5. QED
      BY <3>3, <3>4 DEF Loaded, Exists, Snapshot
  <2>3. \A d \in Clients \ {c} : mem'[d] = mem[d] /\ (up' /\ req'[d].loc = "working" => Working(d))
    BY <2>1, WhoWorks
  <2>4. \A j \in Jobs : At(j, "working")' => At(j, "working") /\ mem'[j] = mem[j]
    BY <2>1, WhoWorks DEF At
  <2>5. mem'[Resumer] = mem[Resumer]
    BY <2>1, WhoWorks
  <2>6. QED
    BY <2>1, <2>2, <2>3, <2>4, <2>5, BegunKept DEF Exists
<1>12. ASSUME NEW c \in Clients, NEW t \in Thread, NEW choice \in Choices,
              resume(c, t, choice)
       PROVE  Begun'
  <2>1. /\ saved[t].next = "paused"
        /\ UNCHANGED <<up, job, offline, mem, saved>>
    BY <1>12 DEF resume, pending_interrupt, Admit, disk
  <2>2. /\ req'[c].loc = "checked" /\ req'[c].thread = t
        /\ \A d \in Clients \ {c} : req'[d].loc = req[d].loc
                                 /\ req'[d].thread = req[d].thread
    <3>1. req' = [d \in Clients |->
                   IF d = c
                   THEN [loc |-> "checked", thread |-> t, choice |-> choice,
                         alone |-> offline # t /\ (\A e \in Requests : req[e].thread # t)]
                   ELSE [req[d] EXCEPT !.alone = @ /\ req[d].thread # t]]
      BY <1>12 DEF resume, Admit
    <3>2. QED
      BY <3>1, RequestFacts DEF RequestRecord
  <2>3. \A d \in Clients : up' /\ req'[d].loc = "working" => Working(d)
    BY <2>1, <2>2, WhoWorks
  <2>4. \A j \in Jobs : At(j, "working")' => At(j, "working")
    BY <2>1 DEF At
  <2>5. QED
    BY <2>1, <2>2, <2>3, <2>4, BegunKept DEF Exists
<1>13. ASSUME NEW j \in Jobs, NEW pr \in Prs, NEW kind \in Kind,
              NEW second \in Seconds, webhook_pr(j, pr, kind, second)
       PROVE  Begun'
  <2>1. /\ job' = [job EXCEPT ![j] = [loc |-> "accepted", kind |-> kind,
                                      thread |-> [pr |-> pr, at |-> second],
                                      paused |-> FALSE]]
        /\ UNCHANGED <<up, req, offline, mem, saved>>
    BY <1>13 DEF webhook_pr, disk
  <2>2. job'[j].loc # "working" /\ \A k \in Jobs \ {j} : job'[k] = job[k]
    BY <2>1 DEF TypeInv, ServiceTypeOK
  <2>3. QED
    BY <1>7, <2>1, <2>2
<1>14. ASSUME NEW t \in Thread, run_resumer(t) PROVE Begun'
  <2>1. /\ Exists(t) /\ offline' = t /\ UNCHANGED <<up, memory, saved>> /\ ~up
        /\ IF pending_interrupt(t)
           THEN Deliver(Resumer, t, "reject")
           ELSE mem' = [mem EXCEPT ![Resumer] = saved[t]]
    BY <1>14 DEF run_resumer, disk, Exists
  <2>2. Resumer \in Invocation /\ saved[t] \in Snapshot
    BY WhoWorks DEF TypeInv, ServiceTypeOK
  <2>3. mem'[Resumer].next # "none"
    <3>1. CASE pending_interrupt(t)
      <4>1. mem'[Resumer] = Loaded(t, "reject")
        BY <2>1, <2>2, <3>1, RequestFacts DEF Deliver
      <4>2. QED
        BY <2>1, <2>2, <4>1 DEF Loaded, Exists, Snapshot
    <3>2. CASE ~pending_interrupt(t)
      BY <2>1, <2>2, <3>2, RequestFacts DEF Exists
    <3>3. QED
      BY <3>1, <3>2
  <2>4. /\ \A c \in Clients : ~(up' /\ req'[c].loc = "working") /\ req'[c] = req[c]
        /\ \A j \in Jobs : ~At(j, "working")'
    BY <2>1 DEF memory, At
  <2>5. QED
    BY <2>1, <2>3, <2>4, BegunKept DEF Exists
<1>15. CASE resumer_exits
  <2>1. offline' = NoThread /\ mem' = [mem EXCEPT ![Resumer] = Blank]
        /\ UNCHANGED <<up, memory, saved>>
    BY <1>15 DEF resumer_exits, disk
  <2>2. \A k \in Invocation \ {Resumer} : mem'[k] = mem[k]
    BY <2>1, RequestFacts
  <2>3. \A c \in Clients : mem'[c] = mem[c] /\ req'[c] = req[c]
                          /\ (up' /\ req'[c].loc = "working" => Working(c))
    BY <2>1, <2>2, WhoWorks DEF memory
  <2>4. \A j \in Jobs : At(j, "working")' => At(j, "working") /\ mem'[j] = mem[j]
                                           /\ job'[j] = job[j]
    BY <2>1, <2>2, WhoWorks DEF At, memory
  <2>5. QED
    BY <2>1, <2>3, <2>4, BegunKept DEF Exists
<1>16. CASE crash
  <2>1. up' = FALSE /\ UNCHANGED <<offline, saved>> /\ req' = [c \in Clients |-> Idle]
        /\ mem' = [i \in Invocation |-> IF i = Resumer THEN mem[i] ELSE Blank]
    BY <1>16 DEF crash, disk
  <2>2. mem'[Resumer] = mem[Resumer] /\ Idle.loc = "idle"
    BY <2>1, WhoWorks DEF Idle
  <2>3. \A j \in Jobs : ~At(j, "working")'
    BY <2>1 DEF At
  <2>4. QED
    BY <2>1, <2>2, <2>3, BegunKept DEF Exists
<1>17. CASE restart \/ UNCHANGED vars
  <2>1. UNCHANGED <<job, req, offline, mem, saved>> /\ (~up \/ up' = up)
    BY <1>17 DEF restart, vars, memory, disk
  <2>2. /\ \A c \in Clients : up' /\ req'[c].loc = "working" => Working(c)
        /\ \A j \in Jobs : At(j, "working")' => At(j, "working")
    BY <2>1, WhoWorks DEF TypeInv, Tidy, NobodyWithoutProcess, At
  <2>3. QED
    BY <2>1, <2>2, BegunKept DEF Exists
<1>18. QED
  BY <1>5, <1>6, <1>8, <1>9, <1>10, <1>11, <1>12, <1>13, <1>14, <1>15, <1>16,
     <1>17 DEF Next

\* Nobody works on a review without a checkpoint, from the start and through
\* every step.
LEMMA ReviewsBegun == Spec => []Begun
<1>1. Init => Begun
  <2> SUFFICES ASSUME Init PROVE Begun
    OBVIOUS
  <2>1. /\ up = TRUE /\ offline = NoThread
        /\ \A c \in Clients : req[c].loc = "idle"
        /\ \A j \in Jobs : job[j].loc = "free"
    BY DEF Init, Idle, NoJob
  <2>2. \A i \in Invocation : ~Working(i)
    BY <2>1, WhoWorks DEF Invocation, At
  <2>3. QED
    BY <2>1, <2>2 DEF Begun
<1>2. TypeInv /\ Begun /\ [Next]_vars => Begun'
  BY BegunStep
<1>3. Spec => []TypeInv
  BY ServiceTypes DEF TypeInv
<1>4. QED
  BY <1>1, <1>2, <1>3, PTL DEF Spec

-----------------------------------------------------------------------------
(***************************************************************************)
(* The register: what a step of the service is to it.                      *)
(***************************************************************************)

\* A task that does not begin a review keeps its thread.
LEMMA TaskKeepsThreads ==
  ASSUME TypeInv, NEW j \in Jobs, up, job[j].loc # "free", Task(j),
         ~materialize_copy(j), ~materialise_inline(j)
  PROVE  \A k \in Jobs : job'[k].thread = job[k].thread
<1>1. job \in [Jobs -> JobRecord] /\ job[j] \in JobRecord
  BY TaskFacts
<1>2. PICK l \in {"materialising", "cleared", "returned", "done"}, b \in BOOLEAN :
        job' \in {[job EXCEPT ![j].loc = l],
                  [job EXCEPT ![j].loc = l, ![j].paused = b],
                  [job EXCEPT ![j] = [@ EXCEPT !.loc = l, !.paused = b]]}
  BY DEF Task, run_review, materialize_clear, materialize_raises,
         materialise_refuses, materialise_escapes, Fails,
         invoke_returns, run_review_ends, pending_interrupt
<1>3. CASE job' = [job EXCEPT ![j].loc = l]
  BY <1>1, <1>3 DEF JobRecord
<1>4. CASE job' = [job EXCEPT ![j].loc = l, ![j].paused = b]
  BY <1>1, <1>4 DEF JobRecord
<1>5. CASE job' = [job EXCEPT ![j] = [@ EXCEPT !.loc = l, !.paused = b]]
  BY <1>1, <1>5 DEF JobRecord
<1>6. QED
  BY <1>2, <1>3, <1>4, <1>5

\* So does an exception in the graph.
LEMMA RaisingKeepsThreads ==
  ASSUME TypeInv, NEW i \in Invocation, node_raises(i)
  PROVE  \A k \in Jobs : job'[k].thread = job[k].thread
<1>1. CASE i \in Jobs
  <2>1. job' = [job EXCEPT ![i].loc = "done"] /\ up /\ job[i].loc # "free"
    BY <1>1, RaiseFacts DEF Fails
  <2>2. QED
    BY <1>1, <2>1, TaskFacts DEF JobRecord
<1>2. CASE i \notin Jobs
  BY <1>2, RaiseFacts
<1>3. QED
  BY <1>1, <1>2

\* So does every task through the death of the process.
LEMMA DeathKeepsThreads ==
  ASSUME TypeInv, crash
  PROVE  \A k \in Jobs : job'[k].thread = job[k].thread
<1> TAKE k \in Jobs
<1>1. job' = [j \in Jobs |->
               IF job[j].loc = "free" THEN NoJob
               ELSE [job[j] EXCEPT !.loc = "done", !.paused = FALSE]]
  BY DEF crash
<1>2. job[k] \in JobRecord /\ (job[k].loc = "free" => job[k] = NoJob)
  BY DEF TypeInv, ServiceTypeOK, JobRecord, Tidy, Threads
<1>3. QED
  BY <1>1, <1>2 DEF JobRecord

\* The life of a review is read off its checkpoint and what came in.
LEMMA LifeKept ==
  ASSUME NEW t \in Thread, Restarted(t)' = Restarted(t),
         saved'[t] = saved[t], delivered'[t] = delivered[t]
  PROVE  lifeOf'[t] = lifeOf[t]
BY DEF lifeOf, pending_interrupt

\* One life moves when the others stay.
LEMMA OneMoves ==
  ASSUME NEW t \in Thread, NEW l, lifeOf'[t] = l,
         \A u \in Thread \ {t} : lifeOf'[u] = lifeOf[u]
  PROVE  lifeOf' = [lifeOf EXCEPT ![t] = l]
<1>1. lifeOf = [u \in Thread |-> lifeOf[u]] /\ lifeOf' = [u \in Thread |-> lifeOf'[u]]
  BY DEF lifeOf
<1> HIDE DEF lifeOf
<1>2. [lifeOf EXCEPT ![t] = l] = [u \in Thread |-> IF u = t THEN l ELSE lifeOf[u]]
  BY <1>1, Zenon
<1>3. \A u \in Thread : lifeOf'[u] = IF u = t THEN l ELSE lifeOf[u]
  OBVIOUS
<1>4. QED
  BY <1>1, <1>2, <1>3, Zenon

\* A step that keeps the threads, the checkpoints and the decisions is none.
LEMMA RegisterStutters ==
  ASSUME \A j \in Jobs : job'[j].thread = job[j].thread,
         UNCHANGED <<saved, delivered, reported>>
  PROVE  UNCHANGED Register!vars
<1>1. \A t \in Thread : lifeOf'[t] = lifeOf[t]
  BY LifeKept, SameThreads
<1>2. lifeOf' = lifeOf
  BY <1>1 DEF lifeOf
<1>3. QED
  BY <1>2 DEF Register!vars

\* So for a checkpoint that does not show.
LEMMA CheckpointDoesNotShow ==
  ASSUME \A t \in Thread : lifeOf'[t] = lifeOf[t], UNCHANGED <<delivered, reported>>
  PROVE  UNCHANGED Register!vars
<1>1. lifeOf' = lifeOf
  BY DEF lifeOf
<1>2. QED
  BY <1>1 DEF Register!vars

\* A review that begins is opened.
LEMMA BeginOpens ==
  ASSUME TypeInv, HandsInv, NEW j \in Jobs, up, job[j].loc \in PreWork, Begin(j)
  PROVE  [Register!Next]_(Register!vars)
<1> DEFINE u == job[j].thread
           input == [Blank EXCEPT !.next = "intake", !.patched = saved[u].patched]
<1>1. /\ saved' = [saved EXCEPT ![u] = input]
      /\ job' = [job EXCEPT ![j].loc = "working",
                            ![j].kind = IF @ = "inline" THEN "fixture" ELSE @]
      /\ UNCHANGED history
  BY DEF Begin
<1>2. u \in Thread
  BY TaskFacts DEF PreWork
<1>3. \A k \in Jobs : job'[k].thread = job[k].thread
  BY <1>1, TaskFacts DEF JobRecord, PreWork
<1>4. saved'[u] = input /\ \A t \in Thread \ {u} : saved'[t] = saved[t]
  BY <1>1, <1>2 DEF TypeInv, ServiceTypeOK
<1>5. input.next = "intake"
  BY DEF Blank
<1>6. /\ \A t \in Thread : Restarted(t)' = Restarted(t)
      /\ \A t \in Thread \ {u} : lifeOf'[t] = lifeOf[t]
  BY <1>1, <1>3, <1>4, LifeKept, SameThreads DEF history
<1>7. CASE Restarted(u)
  <2>1. lifeOf'[u] = lifeOf[u]
    BY <1>2, <1>6, <1>7 DEF lifeOf
  <2>2. QED
    BY <1>1, <1>6, <2>1, CheckpointDoesNotShow DEF history
<1>8. CASE ~Restarted(u)
  <2>1. \A k \in Starts(u) : k = j
    <3>1. j \in Starts(u)
      BY DEF Starts
    <3>2. QED
      BY <1>8, <3>1, OneReview
  <2>2. saved[u] = Blank /\ delivered[u] = {}
    BY <1>2, <1>8, <2>1 DEF HandsInv, Hands, Untouched
  <2>3. lifeOf[u] = "absent"
    BY <1>2, <1>8, <2>2 DEF lifeOf, pending_interrupt, Blank
  <2>4. lifeOf'[u] = "open"
    BY <1>1, <1>2, <1>4, <1>5, <1>6, <1>8, <2>2 DEF lifeOf, pending_interrupt, history
  <2>5. Register!Open(u)
    BY <1>1, <1>2, <1>6, <2>3, <2>4, OneMoves DEF Register!Open, Register!Moves, history
  <2>6. QED
    BY <1>2, <2>5 DEF Register!Next
<1>9. QED
  BY <1>7, <1>8

\* A checkpoint of a pause asks; any other leaves the review as it stands.
LEMMA CheckpointAsks ==
  ASSUME TypeInv, HandsInv, Begun, NEW i \in Invocation, put_checkpoint(i)
  PROVE  [Register!Next]_(Register!vars)
<1> DEFINE u == ThreadOf(i)
<1>1. /\ i \in dirty /\ Working(i) /\ saved' = [saved EXCEPT ![u] = mem[i]]
      /\ UNCHANGED <<memory, history>>
  BY DEF put_checkpoint
<1>2. u \in Thread /\ saved'[u] = mem[i]
      /\ \A t \in Thread \ {u} : saved'[t] = saved[t]
  BY <1>1, WorkersHaveThreads DEF TypeInv, ServiceTypeOK, Tidy
<1>3. saved[u].next # "none" /\ mem[i].next # "none"
  BY <1>1 DEF Begun, Exists
<1>4. /\ \A t \in Thread : Restarted(t)' = Restarted(t)
      /\ \A t \in Thread \ {u} : lifeOf'[t] = lifeOf[t]
      /\ delivered' = delivered /\ reported' = reported
  BY <1>1, <1>2, LifeKept, SameThreads DEF memory, history
<1>5. CASE Restarted(u) \/ delivered[u] # {}
  <2>1. lifeOf'[u] = lifeOf[u]
    BY <1>2, <1>4, <1>5 DEF lifeOf
  <2>2. QED
    BY <1>4, <2>1, CheckpointDoesNotShow
<1>6. CASE ~Restarted(u) /\ delivered[u] = {}
  <2>1. InHand(i, u)
    BY <1>1, <1>2, <1>6 DEF HandsInv, Hands, WorksOn
  <2>2. Sole(i, u)
    BY <1>1, <1>6, <2>1 DEF InHand, Parked
  <2>3. lifeOf[u] = "open"
    BY <1>2, <1>3, <1>6, <2>2 DEF lifeOf, pending_interrupt, Sole
  <2>4. CASE mem[i].next = "paused"
    <3>1. lifeOf'[u] = "waiting"
      BY <1>2, <1>4, <1>6, <2>4 DEF lifeOf, pending_interrupt
    <3>2. Register!Ask(u)
      BY <1>2, <1>4, <2>3, <3>1, OneMoves DEF Register!Ask, Register!Moves
    <3>3. QED
      BY <1>2, <3>2 DEF Register!Next
  <2>5. CASE mem[i].next # "paused"
    <3>1. lifeOf'[u] = "open"
      BY <1>2, <1>3, <1>4, <1>6, <2>5 DEF lifeOf, pending_interrupt
    <3>2. QED
      BY <1>4, <2>3, <3>1, CheckpointDoesNotShow
  <2>6. QED
    BY <2>4, <2>5
<1>7. QED
  BY <1>5, <1>6

\* A decision given to a review that waits, or that has one, answers it.
LEMMA DeliveryAnswers ==
  ASSUME TypeInv, HandsInv, NEW i \in Invocation, NEW u \in Thread,
         NEW choice \in Choices, Deliver(i, u, choice),
         ~Restarted(u) => saved[u].next = "paused" \/ Answered(saved[u]),
         UNCHANGED <<job, saved, reported>>
  PROVE  [Register!Next]_(Register!vars)
<1>1. /\ \A t \in Thread : Restarted(t)' = Restarted(t)
      /\ \A t \in Thread \ {u} : delivered'[t] = delivered[t]
  BY SameThreads, DeliveredElsewhere
<1>2. \A t \in Thread \ {u} : lifeOf'[t] = lifeOf[t]
  BY <1>1, LifeKept
<1>3. CASE delivered' = delivered
  BY <1>3, RegisterStutters
<1>4. CASE delivered' # delivered
  <2>1. Loaded(u, choice) # saved[u] /\ delivered' = Recorded(delivered, u, choice)
    BY <1>4 DEF Deliver
  <2>2. delivered \in [Thread -> SUBSET Choices]
        /\ (Restarted(u) => delivered[u] = {})
    BY RequestFacts
  <2>3. ~Restarted(u)
    BY <1>4, <2>1, <2>2 DEF Recorded
  <2>4. delivered' = [delivered EXCEPT ![u] = @ \cup {choice}]
    BY <2>1, <2>3 DEF Recorded
  <2>5. saved[u].next = "paused"
    BY <2>1, <2>3 DEF HandsInv, Hands, SavedInHand, Loaded, Decided
  <2>6. lifeOf[u] \in {"waiting", "answered"}
    BY <2>3, <2>5 DEF lifeOf, pending_interrupt
  <2>7. lifeOf'[u] = "answered"
    <3>1. delivered'[u] # {}
      BY <2>2, <2>4
    <3>2. QED
      BY <1>1, <2>3, <3>1 DEF lifeOf
  <2>8. Register!Answer(u, choice)
    BY <1>2, <2>4, <2>6, <2>7, OneMoves DEF Register!Answer, Register!Moves
  <2>9. QED
    BY <2>8 DEF Register!Next
<1>5. QED
  BY <1>3, <1>4

\* A report carries the decision its writer has in hand.
LEMMA ReportPublishes ==
  ASSUME TypeInv, HandsInv, Begun, NEW i \in Invocation, persist_report(i)
  PROVE  [Register!Next]_(Register!vars)
<1> DEFINE u == ThreadOf(i)
<1>1. /\ Working(i) /\ mem[i].next = "report"
      /\ reported' = Recorded(reported, u, mem[i].hitl)
      /\ UNCHANGED <<memory, saved, delivered>>
  BY DEF persist_report, AtNode
<1>2. /\ u \in Thread /\ reported \in [Thread -> SUBSET (Choices \cup {Undecided})]
      /\ (Restarted(u) => reported[u] = {})
  BY <1>1, WorkerFacts
<1>3. lifeOf' = lifeOf
  <2>1. \A t \in Thread : lifeOf'[t] = lifeOf[t]
    BY <1>1, LifeKept, SameThreads DEF memory
  <2>2. QED
    BY <2>1 DEF lifeOf
<1>4. CASE Restarted(u)
  <2>1. reported' = reported
    BY <1>1, <1>2, <1>4 DEF Recorded
  <2>2. QED
    BY <1>1, <1>3, <2>1 DEF Register!vars
<1>5. CASE ~Restarted(u)
  <2>1. reported' = [reported EXCEPT ![u] = @ \cup {mem[i].hitl}]
    BY <1>1, <1>5 DEF Recorded
  <2>2. InHand(i, u) /\ saved[u].next # "none"
    BY <1>1, <1>2, <1>5 DEF HandsInv, Hands, WorksOn, Begun, Exists
  <2>3. CASE Answered(mem[i])
    <3>1. mem[i].hitl \in delivered[u]
      BY <2>2, <2>3 DEF InHand
    <3>2. lifeOf[u] = "answered"
      BY <1>2, <1>5, <3>1 DEF lifeOf
    <3>3. Register!Publish(u)
      BY <1>1, <1>3, <2>1, <3>1, <3>2 DEF Register!Publish
    <3>4. QED
      BY <1>2, <3>3 DEF Register!Next
  <2>4. CASE ~Answered(mem[i])
    <3>1. Sole(i, u)
      BY <1>1, <2>2, <2>4 DEF InHand, Parked
    <3>2. delivered[u] = {} /\ saved[u].next # "paused"
      BY <3>1 DEF Sole
    <3>3. lifeOf[u] = "open"
      BY <1>2, <1>5, <2>2, <3>2 DEF lifeOf, pending_interrupt
    <3>4. mem[i].hitl = Undecided
      BY <2>4 DEF Answered
    <3>5. Register!Publish(u)
      BY <1>1, <1>3, <2>1, <3>2, <3>3, <3>4 DEF Register!Publish
    <3>6. QED
      BY <1>2, <3>5 DEF Register!Next
  <2>5. QED
    BY <2>3, <2>4
<1>6. QED
  BY <1>4, <1>5

\* A second webhook for the pull request in the same second contests the review.
LEMMA WebhookContests ==
  ASSUME TypeInv, NEW j \in Jobs, NEW pr \in Prs, NEW kind \in Kind,
         NEW second \in Seconds, webhook_pr(j, pr, kind, second)
  PROVE  [Register!Next]_(Register!vars)
<1> DEFINE u == [pr |-> pr, at |-> second]
           reused == {t \in Thread : Restarted(t)'}
<1>1. /\ job[j].loc = "free"
      /\ job' = [job EXCEPT ![j] = [loc |-> "accepted", kind |-> kind, thread |-> u,
                                    paused |-> FALSE]]
      /\ delivered' = [t \in Thread |-> IF t \in reused THEN {} ELSE delivered[t]]
      /\ reported' = [t \in Thread |-> IF t \in reused THEN {} ELSE reported[t]]
      /\ saved' = saved
  BY DEF webhook_pr, disk
<1>2. /\ job'[j].thread = u /\ \A k \in Jobs \ {j} : job'[k] = job[k]
      /\ u \in Thread /\ job[j].thread = NoThread
  BY <1>1 DEF TypeInv, ServiceTypeOK, Thread, Tidy, Threads, NoJob
<1>3. \A t \in Thread : Starts(t)' = IF t = u THEN Starts(t) \cup {j} ELSE Starts(t)
  BY <1>2, NoThreadIsNone DEF Starts
<1>4. \A t \in Thread \ {u} : Restarted(t)' = Restarted(t)
  BY <1>3 DEF Restarted
<1>5. Restarted(u) => Restarted(u)'
  <2>1. IsFiniteSet(Jobs)
    BY MaxJobsAssumption, FS_Interval DEF Jobs
  <2>2. Starts(u) \subseteq Starts(u)' /\ Starts(u)' \subseteq Jobs
    BY <1>2, <1>3 DEF Starts
  <2>3. IsFiniteSet(Starts(u)') /\ IsFiniteSet(Starts(u))
    BY <2>1, <2>2, FS_Subset
  <2>4. Cardinality(Starts(u)) <= Cardinality(Starts(u)')
        /\ Cardinality(Starts(u)) \in Nat /\ Cardinality(Starts(u)') \in Nat
    BY <2>2, <2>3, FS_Subset, FS_CardinalityType
  <2>5. QED
    BY <2>4 DEF Restarted
<1>6. /\ \A t \in Thread : Restarted(t) => delivered[t] = {} /\ reported[t] = {}
      /\ delivered \in [Thread -> SUBSET Choices]
      /\ reported \in [Thread -> SUBSET (Choices \cup {Undecided})]
  BY DEF TypeInv, ServiceTypeOK, Tidy, Contested
<1>7. \A t \in Thread \ {u} : delivered'[t] = delivered[t] /\ reported'[t] = reported[t]
  BY <1>1, <1>4, <1>6
<1>8. \A t \in Thread \ {u} : lifeOf'[t] = lifeOf[t]
  BY <1>1, <1>4, <1>7, LifeKept
<1>9. CASE Restarted(u)' = Restarted(u)
  <2>1. delivered'[u] = delivered[u] /\ reported'[u] = reported[u]
    BY <1>1, <1>2, <1>6, <1>9
  <2>2. delivered' = delivered /\ reported' = reported
    BY <1>1, <1>6, <1>7, <2>1
  <2>3. \A t \in Thread : lifeOf'[t] = lifeOf[t]
    BY <1>1, <1>2, <1>8, <1>9, <2>1, LifeKept
  <2>4. QED
    BY <2>2, <2>3, CheckpointDoesNotShow
<1>10. CASE ~Restarted(u) /\ Restarted(u)'
  <2>1. lifeOf'[u] = "contested" /\ lifeOf[u] # "contested"
    BY <1>2, <1>10 DEF lifeOf
  <2>2. delivered' = [delivered EXCEPT ![u] = {}] /\ reported' = [reported EXCEPT ![u] = {}]
    <3>1. delivered'[u] = {} /\ reported'[u] = {}
      BY <1>1, <1>2, <1>10
    <3> HIDE DEF u, reused
    <3>2. delivered' = [t \in Thread |-> delivered'[t]] /\ reported' = [t \in Thread |-> reported'[t]]
      BY <1>1
    <3>3. delivered' = [delivered EXCEPT ![u] = {}]
      BY <1>6, <1>7, <3>1, <3>2
    <3>4. reported' = [reported EXCEPT ![u] = {}]
      BY <1>6, <1>7, <3>1, <3>2
    <3>5. QED
      BY <3>3, <3>4
  <2>3. Register!Contest(u)
    BY <1>2, <1>8, <2>1, <2>2, OneMoves DEF Register!Contest
  <2>4. QED
    BY <1>2, <2>3 DEF Register!Next
<1>11. QED
  <2>1. Restarted(u) \in BOOLEAN /\ Restarted(u)' \in BOOLEAN
    BY DEF Restarted
  <2>2. QED
    BY <1>5, <1>9, <1>10, <2>1

\* At the start the register is empty.
LEMMA RegisterInit == Init => Register!Init
<1> SUFFICES ASSUME Init PROVE Register!Init
  OBVIOUS
<1>1. \A t \in Thread : Starts(t) = {}
  BY NoThreadIsNone DEF Init, Starts, NoJob
<1>2. \A t \in Thread : ~Restarted(t)
  <2>1. Cardinality({}) = 0
    BY FS_EmptySet
  <2>2. QED
    BY <1>1, <2>1 DEF Restarted
<1>3. \A t \in Thread : lifeOf[t] = "absent"
  BY <1>2 DEF Init, lifeOf, pending_interrupt, Blank
<1>4. lifeOf = [t \in Thread |-> "absent"]
  BY <1>3 DEF lifeOf
<1>5. QED
  BY <1>4 DEF Init, Register!Init

\* Every step of the service is a step of the register, or none.
LEMMA RegisterStep ==
  ASSUME TypeInv, HandsInv, Begun, [Next]_vars
  PROVE  [Register!Next]_(Register!vars)
<1>1. ASSUME NEW j \in Jobs, Task(j) PROVE [Register!Next]_(Register!vars)
  <2>1. CASE materialize_copy(j) \/ materialise_inline(j)
    <3>1. Begin(j) /\ up /\ job[j].loc \in PreWork
      BY <2>1 DEF materialize_copy, materialise_inline, At, PreWork
    <3>2. QED
      BY <3>1, BeginOpens
  <2>2. CASE ~materialize_copy(j) /\ ~materialise_inline(j)
    <3>1. up /\ job[j].loc # "free"
      BY <1>1, <2>2, WhoWorks
      DEF Task, run_review, materialize_clear, materialize_raises,
          materialise_refuses, materialise_escapes,
          invoke_returns, run_review_ends, Returned, At
    <3>2. UNCHANGED <<saved, delivered, reported>>
      BY <1>1, <2>2
      DEF Task, run_review, materialize_clear, materialize_raises,
          materialise_refuses, materialise_escapes, Fails,
          invoke_returns, run_review_ends, disk, history
    <3>3. \A k \in Jobs : job'[k].thread = job[k].thread
      BY <1>1, <2>2, <3>1, TaskKeepsThreads
    <3>4. QED
      BY <3>2, <3>3, RegisterStutters
  <2>3. QED
    BY <2>1, <2>2
<1>2. ASSUME NEW i \in Invocation, Graph(i) PROVE [Register!Next]_(Register!vars)
  <2>1. CASE intake(i) \/ scan(i) \/ apply_fix(i) \/ hitl_approval(i)
             \/ apply_decision(i) \/ upload_report(i)
    <3>1. UNCHANGED <<job, saved, delivered, reported>>
      BY <2>1 DEF intake, scan, apply_fix, hitl_approval, apply_decision,
                  upload_report, Step, memory, history
    <3>2. QED
      BY <3>1, RegisterStutters
  <2>2. CASE node_raises(i)
    <3>1. UNCHANGED <<saved, delivered, reported>>
      BY <2>2 DEF node_raises, Fails, history
    <3>2. \A k \in Jobs : job'[k].thread = job[k].thread
      BY <2>2, RaisingKeepsThreads
    <3>3. QED
      BY <3>1, <3>2, RegisterStutters
  <2>3. QED
    BY <1>2, <2>1, <2>2, CheckpointAsks, ReportPublishes DEF Graph
<1>3. ASSUME NEW c \in Clients, Request(c) PROVE [Register!Next]_(Register!vars)
  <2>1. CASE resume_review(c)
    <3> DEFINE u == req[c].thread
    <3>1. /\ req[c].loc = "checked" /\ Deliver(c, u, req[c].choice)
          /\ UNCHANGED <<job, saved, reported>>
      BY <2>1 DEF resume_review, disk
    <3>2. u \in Thread /\ req[c].choice \in Choices /\ c \in Invocation
      BY <3>1, WhoWorks DEF TypeInv, Tidy, Threads
    <3>3. ~Restarted(u) => saved[u].next = "paused" \/ Answered(saved[u])
      BY <3>1, <3>2 DEF HandsInv, Hands, SavedInHand, NobodyAsks
    <3>4. QED
      BY <3>1, <3>2, <3>3, DeliveryAnswers
  <2>2. CASE resume_responds(c)
    <3>1. UNCHANGED <<job, saved, delivered, reported>>
      BY <2>2 DEF resume_responds, disk, history
    <3>2. QED
      BY <3>1, RegisterStutters
  <2>3. QED
    BY <1>3, <2>1, <2>2 DEF Request
<1>4. ASSUME NEW c \in Clients, NEW t \in Thread, NEW choice \in Choices,
             resume(c, t, choice)
      PROVE  [Register!Next]_(Register!vars)
  <2>1. UNCHANGED <<job, saved, delivered, reported>>
    BY <1>4 DEF resume, Admit, disk, history
  <2>2. QED
    BY <2>1, RegisterStutters
<1>5. ASSUME NEW t \in Thread, run_resumer(t) PROVE [Register!Next]_(Register!vars)
  <2>1. UNCHANGED <<job, saved, reported>>
    BY <1>5 DEF run_resumer, memory, disk
  <2>2. CASE saved[t].next = "paused"
    <3>1. Deliver(Resumer, t, "reject") /\ "reject" \in Choices /\ Resumer \in Invocation
      BY <1>5, <2>2, WhoWorks DEF run_resumer, pending_interrupt, Choices
    <3>2. QED
      BY <2>1, <2>2, <3>1, DeliveryAnswers
  <2>3. CASE saved[t].next # "paused"
    <3>1. delivered' = delivered
      BY <1>5, <2>3 DEF run_resumer, pending_interrupt
    <3>2. QED
      BY <2>1, <3>1, RegisterStutters
  <2>4. QED
    BY <2>2, <2>3
<1>6. CASE resumer_exits \/ restart \/ UNCHANGED vars
  <2>1. UNCHANGED <<job, saved, delivered, reported>>
    BY <1>6 DEF resumer_exits, restart, vars, memory, disk, history
  <2>2. QED
    BY <2>1, RegisterStutters
<1>7. CASE crash
  <2>1. UNCHANGED <<saved, delivered, reported>>
    BY <1>7 DEF crash, disk, history
  <2>2. QED
    BY <1>7, <2>1, DeathKeepsThreads, RegisterStutters
<1>8. QED
  BY <1>1, <1>2, <1>3, <1>4, <1>5, <1>6, <1>7, WebhookContests DEF Next

\* Seen through its checkpoints, decisions and reports the service is the
\* register: a pause is ended by an answer alone, and a report carries an
\* answer that was given, through every crash.
THEOREM ServiceKeepsRegister == Spec => KeepsRegister
<1>1. Spec => []TypeInv /\ []HandsInv
  BY ReviewsInHand, PTL
<1>2. TypeInv /\ HandsInv /\ Begun /\ [Next]_vars => [Register!Next]_(Register!vars)
  BY RegisterStep
<1>3. QED
  BY <1>1, <1>2, ReviewsBegun, RegisterInit, PTL DEF Spec, KeepsRegister, Register!Spec

=============================================================================
