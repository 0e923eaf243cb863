------------------------------ MODULE Grading ------------------------------
(***************************************************************************)
(* GradingService of the attempts app: one attempt of a student at one     *)
(* paper, a mock test or a quiz, and the teachers who edit the paper while *)
(* the attempt is open.                                                    *)
(*                                                                         *)
(* A submit copies the paper into a snapshot first, and grades the answers *)
(* in a later transaction against the questions it fetches then.  The two  *)
(* queries do not look at the same rows: the snapshot goes down the tree   *)
(* of alive sections, groups and questions, the grading takes every alive  *)
(* question, under whatever it hangs.  Who may submit when, and what two   *)
(* submits do to one another, is the subject of module Submissions.        *)
(***************************************************************************)
EXTENDS Integers, FiniteSets, Functions

CONSTANTS
  Questions,  \* question ids, those of later questions included
  Options,    \* option indexes, Nat
  Scores,     \* what a question is worth after an edit (a bound)
  Papers,     \* the papers an attempt may be at
  None,       \* NULL, and no answer
  MaxEdits    \* bound on the edits of the paper

Levels == {"N1", "N2", "N3", "N4", "N5"}
Types  == {"VOCAB", "GRAMMAR_READING", "FULL_WRITTEN", "LISTENING"}

\* A row is not there yet, alive and reachable, alive below a soft-deleted group
\* or section, or soft-deleted itself.
Places == {"new", "there", "hidden", "gone"}

\* correct_option_index is NULL as long as a question has no options.
Question == [place : Places, type : Types, score : Nat, key : Options \cup {None}]
Paper == [kind : {"mock_test", "quiz"}, at : {"exam", "homework"}, level : Levels,
          questions : [Questions -> Question]]

ASSUME PapersAssumption ==
  /\ Papers \subseteq Paper
  /\ \A p \in Papers : p.kind = "quiz" =>
       p.at = "homework" /\ \A q \in Questions : p.questions[q].place # "hidden"
ASSUME QuestionsAssumption == IsFiniteSet(Questions)
ASSUME ScoresAssumption == Scores \subseteq Nat
ASSUME NoneAssumption == None \notin Options /\ None # TRUE /\ MaxEdits \in Nat

VARIABLES
  paper,    \* the rows of the paper
  open,     \* MockTest PUBLISHED, Quiz is_active
  attempt,  \* the submission, and what the request that submits it has in memory
  shown,    \* the last practice result given since the paper was last edited
  edits     \* edits of the paper so far

gradingVars == <<paper, open, attempt, shown, edits>>

-----------------------------------------------------------------------------
(* What the queries of the code see.                                       *)

\* The tree of the paper serializers: every related manager skips deleted rows.
Visible(questions) == {q \in Questions : questions[q].place = "there"}

\* _fetch_questions and the query of _grade_quiz: the alive questions.
Fetched(questions) == {q \in Questions : questions[q].place \in {"there", "hidden"}}

SnapshotWithoutKeys(questions) ==   \* fault: the sanitized serializers are used
  [q \in Questions |-> IF q \in Visible(questions) THEN [questions[q] EXCEPT !.key = None]
                       ELSE [questions[q] EXCEPT !.place = "gone"]]

\* create_snapshot keeps the visible questions with their keys and scores.
SnapshotOf(questions) ==
  [q \in Questions |-> IF q \in Visible(questions) THEN questions[q]
                       ELSE [questions[q] EXCEPT !.place = "gone"]]

ScoreOf(questions, Q) == SumFunctionOnSet([q \in Questions |-> questions[q].score], Q)

-----------------------------------------------------------------------------
(* The verdict on a mock test, from the scores of its sections.            *)

PassMark(level) ==
  CASE level = "N1" -> 100 [] level = "N2" -> 90 [] level = "N3" -> 95
    [] level = "N4" -> 90  [] level = "N5" -> 80

Total(score) == score["VOCAB"] + score["GRAMMAR_READING"]
                  + score["FULL_WRITTEN"] + score["LISTENING"]

\* The areas of a level, each with its score and its minimum in hundredths.
Language(score) ==
  100 * score["VOCAB"] + 50 * score["GRAMMAR_READING"] + 67 * score["FULL_WRITTEN"]
Reading(score) == 50 * score["GRAMMAR_READING"] + 33 * score["FULL_WRITTEN"]

SomeAreaPassed(level, score) ==   \* fault: any in place of all
  \/ score["LISTENING"] >= 19
  \/ level \in {"N1", "N2", "N3"} /\ Language(score) >= 1900 /\ Reading(score) >= 1900
  \/ level \in {"N4", "N5"} /\ score["VOCAB"] + score["GRAMMAR_READING"] >= 38

AreasPassed(level, score) ==
  /\ score["LISTENING"] >= 19
  /\ IF level \in {"N1", "N2", "N3"}
       THEN Language(score) >= 1900 /\ Reading(score) >= 1900
       ELSE score["VOCAB"] + score["GRAMMAR_READING"] >= 38

Passed(level, score) == Total(score) >= PassMark(level) /\ AreasPassed(level, score)

-----------------------------------------------------------------------------
(* Grading answers against questions.                                      *)

Answered(answers) == {q \in Questions : answers[q] # None}

\* The answered questions that exist, and those of them that are right; a
\* question without a key is never right.
Marked(questions, answers)  == Fetched(questions) \cap Answered(answers)
Correct(questions, answers) ==
  {q \in Marked(questions, answers) :
     questions[q].key # None /\ questions[q].key = answers[q]}

SectionScores(questions, Q) ==
  [t \in Types |-> ScoreOf(questions, {q \in Q : questions[q].type = t})]

\* max is the sum over the sections for a mock test; a quiz only counts the
\* questions that were answered.  passed is the JLPT verdict.
Grading(kind, level, questions, answers) ==
  LET right == Correct(questions, answers)
      found == Marked(questions, answers)
  IN [marked  |-> found,
      correct |-> right,
      total   |-> ScoreOf(questions, right),
      max     |-> ScoreOf(questions, IF kind = "quiz" THEN found ELSE Fetched(questions)),
      passed  |-> IF kind = "quiz" THEN None
                  ELSE Passed(level, SectionScores(questions, right))]

Results == [marked : SUBSET Questions, correct : SUBSET Questions,
            total : Nat, max : Nat, passed : BOOLEAN \cup {None}]

StorableAlways(score) == TRUE   \* fault: the column is wider than its type

\* Submission.score is a DecimalField(max_digits=5, decimal_places=2).
Storable(score) == score < 1000

-----------------------------------------------------------------------------
(* The attempt.                                                            *)

Phases  == {"none", "started", "submitting", "graded"}
Answers == [Questions -> Options \cup {None}]
Attempt == [phase : Phases, seen : SUBSET Questions, answers : Answers,
            snapshot : [Questions -> Question] \cup {None}, taken : 0..MaxEdits,
            results : Results \cup {None}]

NoAnswers == [q \in Questions |-> None]

GradingInit ==
  /\ paper \in Papers
  /\ open \in BOOLEAN
  /\ attempt = [phase |-> "none", seen |-> {}, answers |-> NoAnswers, snapshot |-> None,
                taken |-> 0, results |-> None]
  /\ shown = None
  /\ edits = 0

\* The student gets the paper, at first or again: the visible questions.
Start ==
  /\ attempt.phase \in {"none", "started"}
  /\ open
  /\ attempt' = [attempt EXCEPT !.phase = "started",
                                !.seen = attempt.seen \cup Visible(paper.questions)]
  /\ UNCHANGED <<paper, open, shown, edits>>

\* The answers a student can send: to questions of a paper he was given.
SentAnswers == {a \in Answers : a # NoAnswers /\ Answered(a) \subseteq attempt.seen}

Graded(questions, answers) == Grading(paper.kind, paper.level, questions, answers)

\* show-result: the results of a homework item as it is now, nothing is saved.
Practice(answers) ==
  /\ attempt.phase = "started"
  /\ paper.at = "homework"
  /\ shown' = [answers |-> answers, results |-> Graded(paper.questions, answers)]
  /\ UNCHANGED <<paper, open, attempt, edits>>

\* grade_submission, before its transaction.
TakeSnapshot(answers) ==
  /\ attempt.phase = "started"
  /\ attempt' = [attempt EXCEPT !.phase = "submitting", !.answers = answers,
                   !.snapshot = SnapshotOf(paper.questions), !.taken = edits]
  /\ UNCHANGED <<paper, open, shown, edits>>

\* Its transaction: the questions are fetched, and graded, and the row is saved.
SaveResults ==
  /\ attempt.phase = "submitting"
  /\ LET results == Graded(paper.questions, attempt.answers)
     IN /\ Storable(results.total)
        /\ attempt' = [attempt EXCEPT !.phase = "graded", !.results = results]
  /\ UNCHANGED <<paper, open, shown, edits>>

Unsaved == [attempt EXCEPT !.phase = "started", !.answers = NoAnswers, !.snapshot = None,
                           !.taken = 0]

\* The score does not fit its column: an error, and nothing is saved.
SaveFails ==
  /\ attempt.phase = "submitting"
  /\ ~Storable(Graded(paper.questions, attempt.answers).total)
  /\ attempt' = Unsaved
  /\ UNCHANGED <<paper, open, shown, edits>>

\* The process is killed before the transaction commits.
GradingCrash ==
  /\ attempt.phase = "submitting"
  /\ attempt' = Unsaved
  /\ UNCHANGED <<paper, open, shown, edits>>

-----------------------------------------------------------------------------
(* The teachers.                                                           *)

\* publish toggles a mock test; a PATCH sets is_active of a quiz.
Toggle ==
  /\ open' = ~open
  /\ UNCHANGED <<paper, attempt, shown, edits>>

\* A mock test is edited as a draft, a quiz whenever a teacher likes.
MayEdit == edits < MaxEdits /\ (paper.kind = "mock_test" => ~open)

Edit(q, question) ==
  /\ MayEdit
  /\ question # paper.questions[q]
  /\ paper' = [paper EXCEPT !.questions[q] = question]
  /\ edits' = edits + 1
  /\ shown' = None
  /\ UNCHANGED <<open, attempt>>

Rewrite(q, key, score) ==
  /\ paper.questions[q].place = "there"
  /\ Edit(q, [paper.questions[q] EXCEPT !.key = key, !.score = score])

Add(q) ==
  /\ paper.questions[q].place = "new"
  /\ Edit(q, [paper.questions[q] EXCEPT !.place = "there"])

\* A soft deletion of the question.
Remove(q) ==
  /\ paper.questions[q].place = "there"
  /\ Edit(q, [paper.questions[q] EXCEPT !.place = "gone"])

\* A soft deletion of its group or section: the question row stays alive.
Hide(q) ==
  /\ paper.kind = "mock_test"
  /\ paper.questions[q].place = "there"
  /\ Edit(q, [paper.questions[q] EXCEPT !.place = "hidden"])

GradingNext ==
  \/ Start \/ SaveResults \/ SaveFails \/ GradingCrash \/ Toggle
  \/ \E answers \in SentAnswers : Practice(answers) \/ TakeSnapshot(answers)
  \/ \E q \in Questions :
       \/ Add(q) \/ Remove(q) \/ Hide(q)
       \/ \E key \in Options, score \in Scores : Rewrite(q, key, score)

GradingSpec == GradingInit /\ [][GradingNext]_gradingVars

-----------------------------------------------------------------------------
(* Properties.                                                             *)

\* A stored score fits its column, and nobody earns more than there was to earn.
GradingTypeOK ==
  /\ paper \in Paper
  /\ open \in BOOLEAN
  /\ attempt \in Attempt
  /\ attempt.results # None => /\ attempt.results.total \in 0..999
                               /\ attempt.results.total =< attempt.results.max
  /\ shown \in [answers : Answers, results : Results] \cup {None}
  /\ edits \in 0..MaxEdits

\* This step stores the results of a submit, and the paper is the one that was
\* copied: not edited since, with nothing alive below a deleted group.
SavedAsCopied ==
  /\ attempt.phase = "submitting" /\ attempt'.phase = "graded"
  /\ edits = attempt.taken
  /\ Fetched(paper.questions) = Visible(paper.questions)

\* A stored pass is earned: grading what is recorded, the answers against the
\* keys and scores of the snapshot, question by question, gives at least 19
\* points in listening, 38 in the other sections and the pass mark of the level
\* in all.  (services.py _calculate_jlpt_result: FAIL if the total is below the
\* pass mark or any section is below its minimum.)
EarnedOn(snapshot, answers, types) ==
  ScoreOf(snapshot, {q \in Answered(answers) :
                       /\ snapshot[q].place = "there" /\ snapshot[q].type \in types
                       /\ snapshot[q].key = answers[q]})
PassIsEarned ==
  [][SavedAsCopied /\ attempt'.results.passed = TRUE =>
       LET Earned(types) == EarnedOn(attempt'.snapshot, attempt'.answers, types)
       IN /\ Earned({"LISTENING"}) >= 19
          /\ Earned(Types \ {"LISTENING"}) >= 38
          /\ Earned(Types) >= PassMark(paper.level)]_gradingVars

\* The snapshot kept with an attempt explains its results: grading the stored
\* answers against it gives the stored results, and so did the practice run
\* with these answers.  (services.py create_snapshot: "the student's historical
\* result remains unchanged because it was graded against this snapshot".)
SnapshotExplainsResult ==
  [][SavedAsCopied =>
       /\ attempt'.results = Graded(attempt'.snapshot, attempt'.answers)
       /\ shown # None /\ shown.answers = attempt'.answers
            => shown.results = attempt'.results]_gradingVars

\* The same without conditions on the paper.  The code does not keep it.
SnapshotExplainsResultAlways ==
  [][attempt.phase = "submitting" /\ attempt'.phase = "graded" =>
       attempt'.results = Graded(attempt'.snapshot, attempt'.answers)]_gradingVars

=============================================================================
