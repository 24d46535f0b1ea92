--------------------------- MODULE ReviewContract ---------------------------
(***************************************************************************)
(* What a review promises to whoever submitted the pull request and to the *)
(* human who may be asked about it, without agents, nodes or findings: the *)
(* code is assessed, possibly patched and assessed again a bounded number  *)
(* of times, possibly put before a human, and one decision is published    *)
(* that the last assessment and the human's answer allow.                  *)
(***************************************************************************)
EXTENDS Integers

CONSTANTS
  MaxPasses,   \* patches a review may make before it must conclude
  Choices,     \* what a human may answer
  Approving    \* the answers that approve

VARIABLES
  phase,       \* who acts next, or how the review ended
  risk,        \* the worst the last assessment found, once there is one
  passes,      \* patches made
  answer,      \* the human's answer
  published    \* the decision reported

vars == <<phase, risk, passes, answer, published>>

Phases == {"working", "waiting", "reported", "aborted"}

\* "disputed": every blocking finding has a harmless twin of one fingerprint.
Risks == {"unknown", "refused", "clean", "disputed", "high", "critical"}

Decisions == {"APPROVE", "REQUEST_CHANGES", "BLOCK_MERGE"}

Init ==
  /\ phase = "working"
  /\ risk = "unknown"
  /\ passes = 0
  /\ answer = "none"
  /\ published = "none"

\* An unassessed pull request is assessed, or refused before its first
\* assessment.
Assess ==
  /\ phase = "working"
  /\ risk = "unknown"
  /\ risk' \in Risks \ {"unknown"}
  /\ risk' = "refused" => passes = 0
  /\ UNCHANGED <<phase, passes, answer, published>>

\* Only blocking findings are patched, none while a critical one stands; what
\* is patched has to be assessed again.
Patch ==
  /\ phase = "working"
  /\ risk \in {"disputed", "high"}
  /\ passes < MaxPasses
  /\ passes' = passes + 1
  /\ risk' = "unknown"
  /\ UNCHANGED <<phase, answer, published>>

\* A human is asked once, and only about a critical finding.
Ask ==
  /\ phase = "working"
  /\ risk = "critical"
  /\ answer = "none"
  /\ phase' = "waiting"
  /\ UNCHANGED <<risk, passes, answer, published>>

Answer(choice) ==
  /\ phase = "waiting"
  /\ answer' = choice
  /\ phase' = "working"
  /\ UNCHANGED <<risk, passes, published>>

\* The decisions the last assessment and the human's answer allow.
Allowed ==
  CASE answer # "none" -> IF answer \in Approving THEN {"APPROVE"} ELSE {"BLOCK_MERGE"}
    [] answer = "none" /\ risk \in {"clean", "disputed"} -> Decisions
    [] answer = "none" /\ risk = "high" -> Decisions \ {"APPROVE"}
    [] answer = "none" /\ risk = "refused" -> {"BLOCK_MERGE"}
    [] OTHER -> {}

Publish ==
  /\ phase = "working"
  /\ published' \in Allowed
  /\ phase' = "reported"
  /\ UNCHANGED <<risk, passes, answer>>

\* An exception ends a review without a report.
Abort ==
  /\ phase = "working"
  /\ phase' = "aborted"
  /\ UNCHANGED <<risk, passes, answer, published>>

Next ==
  \/ Assess \/ Patch \/ Ask \/ Publish \/ Abort
  \/ \E choice \in Choices : Answer(choice)

Spec == Init /\ [][Next]_vars

=============================================================================
