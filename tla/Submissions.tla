---------------------------- MODULE Submissions ----------------------------
(***************************************************************************)
(* The attempts app: one row of table `submissions` per attempt of a       *)
(* student at an exam or at a homework item, the web requests that start,  *)
(* submit, edit and delete attempts, and the periodic task that submits    *)
(* attempts left open.                                                     *)
(*                                                                         *)
(* A request first loads the row into a Submission instance (a COPY), then *)
(* decides and writes from that copy; no row is ever locked.  Each atomic  *)
(* step below is one database statement or one transaction, so the copy an *)
(* actor holds may be stale by the time it writes.                         *)
(***************************************************************************)
EXTENDS Integers, FiniteSets

CONSTANTS
  Students,        \* user ids with role STUDENT or GUEST
  Exams,           \* ExamAssignment ids
  Homeworks,       \* HomeworkAssignment ids
  MockTests,       \* MockTest ids
  Quizzes,         \* Quiz ids
  Items,           \* Items[h]: the mock tests and quizzes of homework h
  FirstPaper,      \* FirstPaper[e]: the mock test exam e is created with
  Timed,           \* the papers whose sections or questions add up to a duration
  RowIds,          \* submission UUIDs (a bound: one is used up by every attempt)
  Requests,        \* web requests being served at the same time
  Workers,         \* Celery workers running the auto-submit task
  Answers,         \* the non-empty answer dicts a student may send
  NoAnswers,       \* the empty dict: the field's default, and what the task submits
  None,            \* NULL
  TaskSeesTenant,  \* does the task's search_path reach the tenant's tables?
                   \* (as deployed it does not)
  MaxVersion,      \* bound on the edits of a paper's questions
  MaxCrashes       \* bound on the processes killed half-way

Papers  == MockTests \cup Quizzes
Targets == Exams \cup Homeworks
Actors  == Requests \cup Workers

ASSUME PapersAssumption ==
  /\ MockTests \cap Quizzes = {} /\ Exams \cap Homeworks = {}
  /\ Items \in [Homeworks -> SUBSET Papers]
  /\ FirstPaper \in [Exams -> MockTests]
  /\ Timed \subseteq Papers
ASSUME ActorsAssumption == Requests \cap Workers = {}
ASSUME AnswersAssumption == NoAnswers \notin Answers
ASSUME NoneAssumption ==
  None \notin Students \cup Papers \cup Targets \cup RowIds
ASSUME FlagAssumption == TaskSeesTenant \in BOOLEAN
ASSUME BoundsAssumption == MaxVersion \in Nat /\ MaxCrashes \in Nat

VARIABLES
  rows,       \* rows[r]: the submission stored under id r, or None
  overdue,    \* the ids whose started_at + duration + grace period is past
  open,       \* open[e]: ExamAssignment.status = OPEN
  examPaper,  \* examPaper[e]: ExamAssignment.mock_test
  past,       \* the homeworks whose deadline is past
  available,  \* available[p]: MockTest PUBLISHED, Quiz is_active
  version,    \* version[p]: how often the questions of p were edited
  job,        \* job[a]: what actor a is doing, with the copy it loaded
  batch,      \* batch[w]: the copies the task on w has still to submit
  crashes     \* processes killed so far

vars  == <<rows, overdue, open, examPaper, past, available, version, job,
           batch, crashes>>
world == <<open, examPaper, past, available, version>>

-----------------------------------------------------------------------------
(* Data.                                                                   *)

Versions == 0..MaxVersion
Snapshots == [paper : Papers, version : Versions]
Results   == [paper : Papers, version : Versions,
              answers : Answers \cup {NoAnswers}]

\* SUBMITTED exists in the enumeration but no code path assigns it.
Statuses == {"STARTED", "GRADED"}

Row == [user : Students, target : Targets, resource : Papers \cup {None},
        status : Statuses, answers : Answers \cup {NoAnswers},
        results : Results \cup {None}, snapshot : Snapshots \cup {None},
        deleted : BOOLEAN]

\* A Submission instance in memory: its id, its fields when loaded, and the
\* paper its foreign keys led to at that moment.
Loaded == [row : RowIds, copy : Row, paper : Papers]

Ops == {"idle", "start", "submit", "grade", "patch", "delete"}
Job == [op : Ops, sub : Loaded \cup {None}, answers : Answers \cup {NoAnswers},
        snap : Snapshots \cup {None}]
Idle == [op |-> "idle", sub |-> None, answers |-> NoAnswers, snap |-> None]

Stored(r) == rows[r] # None
Alive(r)  == Stored(r) /\ ~rows[r].deleted

\* What the unique constraints compare: (user, exam), or (user, homework, item).
Key(row) == IF row.target \in Exams
              THEN <<row.user, row.target>>
              ELSE <<row.user, row.target, row.resource>>

KeyTakenByAlive(r, row) ==   \* fault: index restricted to deleted_at IS NULL
  \E s \in RowIds \ {r} : Alive(s) /\ Key(rows[s]) = Key(row)

\* The unique indexes know nothing of deleted_at: soft-deleted rows count.
KeyTaken(r, row) == \E s \in RowIds \ {r} : Stored(s) /\ Key(rows[s]) = Key(row)

\* CheckConstraint submission_homework_exactly_one_resource.
WellFormed(row) == row.target \in Homeworks => row.resource # None

ConstraintsHold(r, row) == ~KeyTaken(r, row) /\ WellFormed(row)

\* The paper graded: mock_test, else quiz, else the exam's mock_test.
PaperOf(row) == IF row.resource # None THEN row.resource ELSE examPaper[row.target]

\* The paper that gives the duration: the exam's mock_test goes first here.
TimedPaper(row) ==
  IF row.target \in Exams THEN examPaper[row.target] ELSE row.resource

Load(r) == [row |-> r, copy |-> rows[r], paper |-> PaperOf(rows[r])]

NewRow(s, t, p) ==
  [user |-> s, target |-> t, resource |-> p, status |-> "STARTED",
   answers |-> NoAnswers, results |-> None, snapshot |-> None, deleted |-> FALSE]

\* A fresh uuid4, given to the instance before it is inserted.
FreshId(r) ==
  ~Stored(r) /\ \A a \in Actors : job[a].op # "idle" => job[a].sub.row # r

Attempts(s, t, p) ==
  {r \in RowIds : Alive(r) /\ Key(rows[r]) = Key(NewRow(s, t, p))}

\* NULL is none of the records.
ASSUME NullAssumption ==
  None \notin Row \cup Results \cup Snapshots \cup Loaded

-----------------------------------------------------------------------------
(* Starting an attempt: the checks, then the insert.                       *)

CompletedAlready(s, t, p) ==
  \E r \in Attempts(s, t, p) : rows[r].status = "GRADED"

BeginStart(q, r, row, paper) ==
  /\ job[q] = Idle /\ FreshId(r)
  /\ job' = [job EXCEPT ![q] = [Idle EXCEPT !.op = "start",
                !.sub = [row |-> r, copy |-> row, paper |-> paper]]]
  /\ UNCHANGED <<rows, overdue, world, batch, crashes>>

\* POST start-exam up to the INSERT: the CanStartExam permission and
\* StartExamService's own checks.
StartExam(q, r, s, e) ==
  /\ open[e] /\ available[examPaper[e]]
  /\ ~CompletedAlready(s, e, None)
  /\ BeginStart(q, r, NewRow(s, e, None), examPaper[e])

\* POST homework-start up to the INSERT; an attempt already STARTED is
\* returned as it is, which changes nothing.
StartHomework(q, r, s, h, p) ==
  /\ h \notin past
  /\ p \in Items[h] /\ available[p]
  /\ Attempts(s, h, p) = {}
  /\ BeginStart(q, r, NewRow(s, h, p), p)

\* The INSERT.  On IntegrityError start-exam looks the row up and answers
\* from it, homework-start fails: neither writes anything.
Insert(q) ==
  LET sub == job[q].sub IN
  /\ job[q].op = "start"
  /\ rows' = IF ConstraintsHold(sub.row, sub.copy)
               THEN [rows EXCEPT ![sub.row] = sub.copy] ELSE rows
  /\ job' = [job EXCEPT ![q] = Idle]
  /\ UNCHANGED <<overdue, world, batch, crashes>>

-----------------------------------------------------------------------------
(* Submitting an attempt: load and check, snapshot, grade.                 *)

Submittable(row) == row.status = "STARTED"

LoadSubmit(q, r, a) ==
  /\ job[q] = Idle /\ Alive(r) /\ Submittable(rows[r])
  /\ job' = [job EXCEPT ![q] = [Idle EXCEPT !.op = "submit", !.sub = Load(r),
                                            !.answers = a]]
  /\ UNCHANGED <<rows, overdue, world, batch, crashes>>

\* POST submit-exam takes any submission of the user, whatever its target.
SubmitExam(q, r, a) == LoadSubmit(q, r, a)

\* POST submit-homework also asks for a homework whose deadline is ahead.
SubmitHomework(q, r, a) ==
  /\ Alive(r) /\ rows[r].target \in Homeworks \ past
  /\ LoadSubmit(q, r, a)

\* GradingService.create_snapshot, before the transaction is opened.
CreateSnapshot(a) ==
  LET p == job[a].sub.paper IN
  /\ job[a].op = "submit"
  /\ job' = [job EXCEPT ![a].op = "grade",
                        ![a].snap = [paper |-> p, version |-> version[p]]]
  /\ UNCHANGED <<rows, overdue, world, batch, crashes>>

\* The six fields grade_submission saves (update_fields).
Graded(row, j) ==
  [row EXCEPT !.status = "GRADED", !.answers = j.answers, !.snapshot = j.snap,
     !.results = [paper |-> j.sub.paper, version |-> version[j.sub.paper],
                  answers |-> j.answers]]

\* The transaction of grade_submission.  Its status check reads the copy.
Grade(a) ==
  LET r == job[a].sub.row IN
  /\ job[a].op = "grade"
  /\ rows' = IF job[a].sub.copy.status = "STARTED"
               THEN [rows EXCEPT ![r] = Graded(rows[r], job[a])] ELSE rows
  /\ job' = [job EXCEPT ![a] = Idle]
  /\ UNCHANGED <<overdue, world, batch, crashes>>

-----------------------------------------------------------------------------
(* Editing and deleting an attempt.                                        *)

EditableUnlessSubmitted(row) == row.status # "SUBMITTED"   \* fault: wrong status

Editable(row) == row.status # "GRADED"

\* PUT/PATCH: load, check the status; exam_assignment and homework_assignment
\* are writable, so the request may point the attempt at another target.
LoadPatch(q, r, t) ==
  /\ job[q] = Idle /\ Alive(r) /\ Editable(rows[r])
  /\ job' = [job EXCEPT ![q] = [Idle EXCEPT !.op = "patch",
                                  !.sub = [Load(r) EXCEPT !.copy.target = t]]]
  /\ UNCHANGED <<rows, overdue, world, batch, crashes>>

PatchedInPart(row, copy) ==   \* fault: save(update_fields) without the results
  [row EXCEPT !.target = copy.target, !.status = copy.status]

\* serializer.save() is instance.save() without update_fields: every column
\* is written from the copy.
Patched(row, copy) == copy

WritePatch(q) ==
  LET sub == job[q].sub IN
  /\ job[q].op = "patch"
  /\ rows' = IF ConstraintsHold(sub.row, sub.copy)
               THEN [rows EXCEPT ![sub.row] = Patched(@, sub.copy)] ELSE rows
  /\ job' = [job EXCEPT ![q] = Idle]
  /\ UNCHANGED <<overdue, world, batch, crashes>>

LoadDelete(q, r) ==
  /\ job[q] = Idle /\ Alive(r) /\ Editable(rows[r])
  /\ job' = [job EXCEPT ![q] = [Idle EXCEPT !.op = "delete", !.sub = Load(r)]]
  /\ UNCHANGED <<rows, overdue, world, batch, crashes>>

\* soft_delete saves deleted_at alone.
WriteDelete(q) ==
  /\ job[q].op = "delete"
  /\ rows' = [rows EXCEPT ![job[q].sub.row].deleted = TRUE]
  /\ job' = [job EXCEPT ![q] = Idle]
  /\ UNCHANGED <<overdue, world, batch, crashes>>

-----------------------------------------------------------------------------
(* The auto-submit task.                                                   *)

Stuck(r) ==
  /\ Alive(r) /\ rows[r].status = "STARTED"
  /\ r \in overdue /\ TimedPaper(rows[r]) \in Timed

\* One query loads every open attempt; those past the cutoff are submitted
\* one by one.  The task enters no tenant schema: as deployed its search_path
\* is `public`, the query fails and the run ends (TaskSeesTenant = FALSE).
Scan(w) ==
  /\ TaskSeesTenant
  /\ job[w] = Idle /\ batch[w] = {}
  /\ batch' = [batch EXCEPT ![w] = {Load(r) : r \in {x \in RowIds : Stuck(x)}}]
  /\ UNCHANGED <<rows, overdue, world, job, crashes>>

\* The next attempt of the loop enters grade_submission with empty answers.
TakeNext(w) ==
  \E sub \in batch[w] :
    /\ job[w] = Idle
    /\ job' = [job EXCEPT ![w] = [Idle EXCEPT !.op = "submit", !.sub = sub]]
    /\ batch' = [batch EXCEPT ![w] = @ \ {sub}]
    /\ UNCHANGED <<rows, overdue, world, crashes>>

\* A web or task process is killed: what it held in memory is gone.
Crash(a) ==
  /\ crashes < MaxCrashes
  /\ job[a] # Idle \/ (a \in Workers /\ batch[a] # {})
  /\ job' = [job EXCEPT ![a] = Idle]
  /\ batch' = [w \in Workers |-> IF w = a THEN {} ELSE batch[w]]
  /\ crashes' = crashes + 1
  /\ UNCHANGED <<rows, overdue, world>>

-----------------------------------------------------------------------------
(* What teachers and the clock do meanwhile.                               *)

\* ExamAssignment.status is set by its managers.
ToggleRoom(e) ==
  /\ open' = [open EXCEPT ![e] = ~@]
  /\ UNCHANGED <<rows, overdue, examPaper, past, available, version, job, batch,
                 crashes>>

\* PATCH of an exam assignment: any published mock test may replace the first.
ChangePaper(e, p) ==
  /\ available[p] /\ examPaper[e] # p
  /\ examPaper' = [examPaper EXCEPT ![e] = p]
  /\ UNCHANGED <<rows, overdue, open, past, available, version, job, batch, crashes>>

\* publish/unpublish of a mock test, is_active of a quiz.
ToggleAvailable(p) ==
  /\ available' = [available EXCEPT ![p] = ~@]
  /\ UNCHANGED <<rows, overdue, open, examPaper, past, version, job, batch, crashes>>

\* Questions of a published mock test are locked; those of a quiz never are.
EditQuestions(p) ==
  /\ p \in MockTests => ~available[p]
  /\ version[p] < MaxVersion
  /\ version' = [version EXCEPT ![p] = @ + 1]
  /\ UNCHANGED <<rows, overdue, open, examPaper, past, available, job, batch, crashes>>

AttemptRunsOut(r) ==
  /\ Stored(r) /\ r \notin overdue
  /\ overdue' = overdue \cup {r}
  /\ UNCHANGED <<rows, world, job, batch, crashes>>

\* The deadline passes, or a manager moves it into the future again.
DeadlineMoves(h) ==
  /\ past' = IF h \in past THEN past \ {h} ELSE past \cup {h}
  /\ UNCHANGED <<rows, overdue, open, examPaper, available, version, job, batch,
                 crashes>>

-----------------------------------------------------------------------------
Init ==
  /\ rows = [r \in RowIds |-> None]
  /\ overdue = {} /\ past = {} /\ crashes = 0
  /\ open = [e \in Exams |-> FALSE]
  /\ examPaper = FirstPaper
  /\ available = [p \in Papers |-> TRUE]
  /\ version = [p \in Papers |-> 0]
  /\ job = [a \in Actors |-> Idle]
  /\ batch = [w \in Workers |-> {}]

RequestStep(q) ==
  \/ \E r \in RowIds, s \in Students :
       \/ \E e \in Exams : StartExam(q, r, s, e)
       \/ \E h \in Homeworks, p \in Papers : StartHomework(q, r, s, h, p)
  \/ \E r \in RowIds, a \in Answers : SubmitExam(q, r, a) \/ SubmitHomework(q, r, a)
  \/ \E r \in RowIds, t \in Targets : LoadPatch(q, r, t)
  \/ \E r \in RowIds : LoadDelete(q, r)
  \/ Insert(q) \/ WritePatch(q) \/ WriteDelete(q)

TaskStep(w) == Scan(w) \/ TakeNext(w)

GradingStep(a) == CreateSnapshot(a) \/ Grade(a)

WorldStep ==
  \/ \E e \in Exams : ToggleRoom(e) \/ \E p \in MockTests : ChangePaper(e, p)
  \/ \E p \in Papers : ToggleAvailable(p) \/ EditQuestions(p)
  \/ \E r \in RowIds : AttemptRunsOut(r)
  \/ \E h \in Homeworks : DeadlineMoves(h)

Next ==
  \/ \E q \in Requests : RequestStep(q)
  \/ \E w \in Workers : TaskStep(w)
  \/ \E a \in Actors : GradingStep(a) \/ Crash(a)
  \/ WorldStep

Spec == Init /\ [][Next]_vars

\* Celery Beat fires the task every five minutes and a worker that is not
\* killed finishes its loop.  Nothing is assumed of students and teachers.
Fairness == \A w \in Workers : WF_vars(TaskStep(w)) /\ WF_vars(GradingStep(w))

FairSpec == Spec /\ Fairness

-----------------------------------------------------------------------------
(* Properties.                                                             *)

\* The tables and the actors' copies have the types of models.py.
TypeOK ==
  /\ rows \in [RowIds -> Row \cup {None}]
  /\ overdue \subseteq RowIds
  /\ open \in [Exams -> BOOLEAN]
  /\ examPaper \in [Exams -> MockTests]
  /\ past \subseteq Homeworks
  /\ available \in [Papers -> BOOLEAN]
  /\ version \in [Papers -> Versions]
  /\ job \in [Actors -> Job]
  /\ \A a \in Actors : job[a].op # "idle" => job[a].sub \in Loaded
  /\ \A a \in Actors : job[a].op = "grade" => job[a].snap \in Snapshots
  /\ batch \in [Workers -> SUBSET Loaded]
  /\ crashes \in 0..MaxCrashes

\* One attempt per user and exam, and per user and homework item, for ever:
\* neither two starts at once, nor a deletion and a restart, nor an edit that
\* moves an attempt to another target makes a second row for the same item.
OneAttempt ==
  \A r, s \in RowIds :
    r # s /\ Stored(r) /\ Stored(s) => Key(rows[r]) # Key(rows[s])

Ungraded(row) ==
  row.results = None /\ row.snapshot = None /\ row.answers = NoAnswers

Whole(row) ==
  IF row.status = "GRADED"
    THEN /\ row.results # None /\ row.snapshot # None
         /\ row.results.answers = row.answers
         /\ row.results.paper = row.snapshot.paper
         /\ row.resource # None => row.results.paper = row.resource
    ELSE Ungraded(row)

\* A row's status and its six graded fields never tell different stories,
\* however grading, full-row saves and deletions of stale copies interleave:
\* a GRADED row has the results and the snapshot of one paper (the item it
\* was started for, if it has one) and the very answers that were graded, and
\* a STARTED row carries nothing of an earlier grading.
GradedWhole == \A r \in RowIds : Stored(r) => Whole(rows[r])

\* A graded row is only ever rewritten by an actor that loaded it before it
\* was graded: no request that starts after the grading can touch it.
OnlyStaleCopiesTouchGraded ==
  [][\A r \in RowIds :
       Stored(r) /\ rows[r].status = "GRADED" /\ rows'[r] # rows[r]
       => \E a \in Actors : /\ job[a].op \in {"grade", "patch", "delete"}
                            /\ job[a].sub.row = r
                            /\ job[a].sub.copy.status = "STARTED"
                            /\ job'[a] = Idle]_vars

\* "Once GRADED, re-submit and edit/delete are blocked": a graded row never
\* changes again.
GradedImmutable ==
  [][\A r \in RowIds :
       Stored(r) /\ rows[r].status = "GRADED" => rows'[r] = rows[r]]_vars

\* A copy that is the row as it stands, but for the target a PATCH asks for.
CurrentCopy(sub) ==
  /\ Alive(sub.row) /\ sub.copy.status = "STARTED"
  /\ rows[sub.row] = [sub.copy EXCEPT !.target = rows[sub.row].target]

\* The copy an actor is about to write from is the row as it stands.
CopyIsCurrent ==
  \A a \in Actors : job[a].op \in {"submit", "grade", "patch", "delete"} =>
    CurrentCopy(job[a].sub)

\* An attempt left open beyond its time and the grace period does not stay so
\* (tasks.py: "auto-submit submissions stuck in STARTED", run periodically).
StuckIsSubmitted == \A r \in RowIds : Stuck(r) ~> ~Stuck(r)

\* One attempt, seen through its row.
Phase(row) == IF row = None THEN "absent"
              ELSE IF row.deleted THEN "withdrawn"
              ELSE IF row.status = "GRADED" THEN "final" ELSE "open"

OutcomeOf(row) == IF row # None /\ row.status = "GRADED"
                    THEN <<row.answers, row.results, row.snapshot>> ELSE None

phases   == [r \in RowIds |-> Phase(rows[r])]
outcomes == [r \in RowIds |-> OutcomeOf(rows[r])]
=============================================================================
