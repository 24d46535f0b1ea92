--------------------------- MODULE ReviewRegister ---------------------------
(***************************************************************************)
(* What the service promises about a review's durable life, without        *)
(* processes, requests or checkpoints: it is opened, it may wait for a     *)
(* human, and while it waits nothing but an answer moves it; what is       *)
(* published carries an answer that was given, if any was.  Crashes and    *)
(* restarts do not show.                                                   *)
(***************************************************************************)
CONSTANTS
  Reviews,
  Choices,
  Undecided    \* what is published when no human was asked

VARIABLES
  life,        \* how far each review has come
  answers,     \* the answers it was given
  published    \* the decisions its reports carry

vars == <<life, answers, published>>

Lives == {"absent", "open", "waiting", "answered", "contested"}

Init ==
  /\ life = [r \in Reviews |-> "absent"]
  /\ answers = [r \in Reviews |-> {}]
  /\ published = [r \in Reviews |-> {}]

Moves(r, from, to) ==
  /\ life[r] \in from
  /\ life' = [life EXCEPT ![r] = to]

Open(r) == Moves(r, {"absent"}, "open") /\ UNCHANGED <<answers, published>>

Ask(r) == Moves(r, {"open"}, "waiting") /\ UNCHANGED <<answers, published>>

\* Two humans who were both shown the pause may both answer it.
Answer(r, choice) ==
  /\ Moves(r, {"waiting", "answered"}, "answered")
  /\ answers' = [answers EXCEPT ![r] = @ \cup {choice}]
  /\ UNCHANGED published

\* A review that is made again after a crash may publish again, but nothing is
\* published over the head of a human who is being asked.
Publish(r) ==
  /\ life[r] \in {"open", "answered"}
  /\ \E decision \in IF answers[r] = {} THEN {Undecided} ELSE answers[r] :
       published' = [published EXCEPT ![r] = @ \cup {decision}]
  /\ UNCHANGED <<life, answers>>

\* A second review is started under the same name; nothing more is promised.
Contest(r) ==
  /\ life[r] # "contested"
  /\ life' = [life EXCEPT ![r] = "contested"]
  /\ answers' = [answers EXCEPT ![r] = {}]
  /\ published' = [published EXCEPT ![r] = {}]

Next ==
  \E r \in Reviews :
    \/ Open(r) \/ Ask(r) \/ Publish(r) \/ Contest(r)
    \/ \E choice \in Choices : Answer(r, choice)

Spec == Init /\ [][Next]_vars

=============================================================================
