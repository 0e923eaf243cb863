-------------------------- MODULE SubmissionLoads --------------------------
(***************************************************************************)
(* Submissions under the two loads worth comparing: actors that overlap,   *)
(* and actors served one by one.  Only under the second does an attempt    *)
(* live as AttemptLifecycle has it, so the premise says what a deployment  *)
(* would have to guarantee.                                                *)
(***************************************************************************)
EXTENDS Submissions

VARIABLE load   \* the load of this behaviour, chosen once

loadVars == <<vars, load>>

Loads == {"overlapping", "one by one"}

Serially == load = "one by one"

\* Between two statements of a request, or two rounds of the task's loop.
Busy(a) == job[a] # Idle \/ (a \in Workers /\ batch[a] # {})

OneByOne == \A a, b \in Actors : Busy(a) /\ Busy(b) => a = b

LoadInit == Init /\ load \in Loads

LoadNext ==
  /\ Next
  /\ Serially => OneByOne'
  /\ UNCHANGED load

LoadSpec == LoadInit /\ [][LoadNext]_loadVars

\* What an observer sees of the attempts, if the actors are served one by one.
seenPhases   == IF Serially THEN phases ELSE [r \in RowIds |-> "absent"]
seenOutcomes == IF Serially THEN outcomes ELSE [r \in RowIds |-> None]

SerialLifecycle == INSTANCE AttemptLifecycle WITH
  Ids <- RowIds,
  Outcomes <- (Answers \cup {NoAnswers}) \X Results \X Snapshots,
  NoOutcome <- None,
  phase <- seenPhases,
  outcome <- seenOutcomes

\* Served one by one, requests and tasks keep what AttemptLifecycle promises
\* of an attempt: opened once, then graded for good or withdrawn before it is.
SerialLifecycleKept == SerialLifecycle!Spec

\* Served one by one, they write from the row as it stands
\* (grade_submission, perform_update and perform_destroy read the copy).
SerialCopyIsCurrent == Serially => CopyIsCurrent

\* Served one by one, they never change a graded row again
\* ("re-submit and edit/delete are blocked").
SerialGradedStays ==
  [][Serially => \A r \in RowIds :
       Stored(r) /\ rows[r].status = "GRADED" => rows'[r] = rows[r]]_loadVars
=============================================================================
