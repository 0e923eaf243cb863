-------------------------- MODULE SubmissionsProofs --------------------------
(***************************************************************************)
(* Theorems about Submissions, for every number of students, assignments,  *)
(* papers, attempts, concurrent requests and workers.                      *)
(***************************************************************************)
EXTENDS SubmissionLoads, TLAPS

-----------------------------------------------------------------------------
(* Types.  A row that is loaded leads to a paper only because the database *)
(* keeps rows well formed, and a write to a loaded row finds a row because *)
(* none is ever removed, so both are part of the invariant.                *)

RowsWellFormed == \A r \in RowIds : Stored(r) => WellFormed(rows[r])

Loading == {"submit", "grade", "patch", "delete"}

CopiesStored ==
  /\ \A a \in Actors : job[a].op \in Loading => Stored(job[a].sub.row)
  /\ \A w \in Workers : \A sub \in batch[w] : Stored(sub.row)

TypeInv == TypeOK /\ RowsWellFormed /\ CopiesStored

\* The record of an actor with nothing to do is a Job.
LEMMA IdleIsJob == Idle \in Job /\ Idle.op = "idle"
BY DEF Idle, Job, Ops

\* Loading an attempt gives an instance that holds the stored row and a paper.
LEMMA LoadType ==
  ASSUME TypeInv, NEW r \in RowIds, Stored(r)
  PROVE  /\ Load(r) \in Loaded
         /\ Load(r).row = r /\ Load(r).copy = rows[r] /\ rows[r] \in Row
         /\ rows[r].resource # None => Load(r).paper = rows[r].resource
<1>1. rows[r] \in Row
  BY DEF TypeInv, TypeOK, Stored
<1>2. PaperOf(rows[r]) \in Papers
  <2>1. CASE rows[r].resource # None
    BY <1>1, <2>1 DEF PaperOf, Row
  <2>2. CASE rows[r].resource = None
    <3>1. rows[r].target \in Exams
      BY <1>1, <2>2 DEF TypeInv, RowsWellFormed, WellFormed, Row, Targets
    <3>2. QED
      BY <3>1, <2>2 DEF PaperOf, TypeInv, TypeOK, Papers
  <2>3. QED BY <2>1, <2>2
<1>3. QED
  BY <1>1, <1>2 DEF Load, Loaded, PaperOf

\* A row that starts an attempt is a row.
LEMMA NewRowType ==
  ASSUME NEW s \in Students, NEW t \in Targets, NEW p \in Papers \cup {None}
  PROVE  NewRow(s, t, p) \in Row
BY DEF NewRow, Row, Statuses

\* What a step does to one actor's job keeps the jobs typed.
LEMMA JobUpdate ==
  ASSUME TypeInv, NEW a \in Actors, NEW j \in Job,
         j.op # "idle" => j.sub \in Loaded,
         j.op = "grade" => j.snap \in Snapshots,
         job' = [job EXCEPT ![a] = j]
  PROVE  /\ job' \in [Actors -> Job]
         /\ \A b \in Actors : job'[b].op # "idle" => job'[b].sub \in Loaded
         /\ \A b \in Actors : job'[b].op = "grade" => job'[b].snap \in Snapshots
BY DEF TypeInv, TypeOK

\* The graded fields of a typed row are typed.
LEMMA GradedType ==
  ASSUME TypeInv, NEW a \in Actors, job[a].op = "grade", NEW row \in Row
  PROVE  /\ Graded(row, job[a]) \in Row
         /\ Graded(row, job[a]).target = row.target
         /\ Graded(row, job[a]).resource = row.resource
         /\ Graded(row, job[a]).user = row.user
<1>1. job[a] \in Job /\ job[a].sub \in Loaded /\ job[a].snap \in Snapshots
  BY DEF TypeInv, TypeOK
<1>2. job[a].sub.paper \in Papers /\ job[a].answers \in Answers \cup {NoAnswers}
  BY <1>1 DEF Job, Loaded
<1>3. version[job[a].sub.paper] \in Versions
  BY <1>2 DEF TypeInv, TypeOK
<1>4. [paper |-> job[a].sub.paper, version |-> version[job[a].sub.paper],
       answers |-> job[a].answers] \in Results
  BY <1>2, <1>3 DEF Results
<1>5. QED
  BY <1>1, <1>2, <1>4 DEF Graded, Row, Statuses

\* Loading, snapshotting and taking from the batch change jobs alone.
LEMMA JobStepType ==
  ASSUME TypeInv, NEW a \in Actors, NEW j \in Job,
         j.op # "idle" => j.sub \in Loaded,
         j.op = "grade" => j.snap \in Snapshots,
         job' = [job EXCEPT ![a] = j],
         UNCHANGED <<rows, overdue, world, crashes>>,
         j.op \in Loading => Stored(j.sub.row),
         batch' \in [Workers -> SUBSET Loaded],
         \A w \in Workers : \A sub \in batch'[w] : Stored(sub.row)
  PROVE  TypeInv'
<1>1. TypeOK'
  BY JobUpdate DEF TypeInv, TypeOK, world
<1>2. RowsWellFormed'
  BY DEF TypeInv, RowsWellFormed, Stored, WellFormed
<1>3. CopiesStored'
  BY DEF TypeInv, TypeOK, CopiesStored, Stored
<1>4. QED BY <1>1, <1>2, <1>3 DEF TypeInv

LEMMA LoadStepType ==
  ASSUME TypeInv, NEW a \in Actors, NEW j \in Job,
         j.op # "idle" => j.sub \in Loaded,
         j.op = "grade" => j.snap \in Snapshots,
         j.op \in Loading => Stored(j.sub.row),
         job' = [job EXCEPT ![a] = j],
         UNCHANGED <<rows, overdue, world, batch, crashes>>
  PROVE  TypeInv'
<1>1. /\ batch' \in [Workers -> SUBSET Loaded]
      /\ \A w \in Workers : \A sub \in batch'[w] : Stored(sub.row)
  BY DEF TypeInv, TypeOK, CopiesStored
<1>2. QED BY <1>1, JobStepType

\* A write changes one row, to a well-formed one, and ends the actor's job.
LEMMA WriteType ==
  ASSUME TypeInv, NEW a \in Actors, NEW r \in RowIds, NEW row \in Row,
         WellFormed(row),
         rows' = rows \/ rows' = [rows EXCEPT ![r] = row],
         job' = [job EXCEPT ![a] = Idle],
         UNCHANGED <<overdue, world, batch, crashes>>
  PROVE  TypeInv'
<1>1. rows' \in [RowIds -> Row \cup {None}] /\ RowsWellFormed'
  BY DEF TypeInv, TypeOK, RowsWellFormed, Stored, WellFormed
<1>2. TypeOK'
  BY <1>1, IdleIsJob, JobUpdate DEF TypeInv, TypeOK, world
<1>3. \A i \in RowIds : Stored(i) => rows'[i] # None
  BY NullAssumption DEF TypeInv, TypeOK, Stored
<1>4. \A b \in Actors : job'[b].op \in Loading =>
        job[b].op \in Loading /\ job'[b] = job[b] /\ job[b].sub.row \in RowIds
  BY IdleIsJob DEF TypeInv, TypeOK, Loading, Loaded
<1>5. CopiesStored'
  BY <1>3, <1>4 DEF TypeInv, TypeOK, CopiesStored, Stored, Loaded
<1>6. QED BY <1>1, <1>2, <1>5 DEF TypeInv

LEMMA RequestStepType ==
  ASSUME TypeInv, NEW q \in Requests, RequestStep(q)
  PROVE  TypeInv'
<1> USE DEF Actors
<1>1. ASSUME NEW r \in RowIds, NEW row \in Row, NEW paper \in Papers,
             BeginStart(q, r, row, paper)
      PROVE  TypeInv'
  <2> DEFINE j == [Idle EXCEPT !.op = "start",
                     !.sub = [row |-> r, copy |-> row, paper |-> paper]]
  <2>1. j \in Job /\ j.op = "start" /\ j.sub \in Loaded
    BY <1>1 DEF Idle, Job, Ops, Loaded
  <2>2. job' = [job EXCEPT ![q] = j] /\ batch' = batch
    BY <1>1 DEF BeginStart
  <2>3. QED
    BY <1>1, <2>1, <2>2, LoadStepType DEF BeginStart, Loading
<1>2. ASSUME NEW r \in RowIds, NEW s \in Students, NEW e \in Exams,
             StartExam(q, r, s, e)
      PROVE  TypeInv'
  <2>1. NewRow(s, e, None) \in Row /\ examPaper[e] \in Papers
    BY NewRowType DEF Targets, TypeInv, TypeOK, Papers
  <2>2. QED BY <1>1, <1>2, <2>1 DEF StartExam
<1>3. ASSUME NEW r \in RowIds, NEW s \in Students, NEW h \in Homeworks,
             NEW p \in Papers, StartHomework(q, r, s, h, p)
      PROVE  TypeInv'
  BY <1>1, <1>3, NewRowType DEF StartHomework, Targets
<1>4. ASSUME NEW r \in RowIds, NEW a \in Answers, LoadSubmit(q, r, a)
      PROVE  TypeInv'
  <2> DEFINE j == [Idle EXCEPT !.op = "submit", !.sub = Load(r), !.answers = a]
  <2>1. j \in Job /\ j.op = "submit" /\ j.sub \in Loaded /\ Stored(j.sub.row)
    BY <1>4, LoadType DEF Idle, Job, Ops, LoadSubmit, Alive
  <2>2. job' = [job EXCEPT ![q] = j] /\ batch' = batch
    BY <1>4 DEF LoadSubmit
  <2>3. QED
    BY <1>4, <2>1, <2>2, LoadStepType DEF LoadSubmit
<1>5. ASSUME NEW r \in RowIds, NEW t \in Targets, LoadPatch(q, r, t)
      PROVE  TypeInv'
  <2> DEFINE j == [Idle EXCEPT !.op = "patch",
                     !.sub = [Load(r) EXCEPT !.copy.target = t]]
  <2>1. Load(r) \in Loaded /\ Load(r).row = r /\ Stored(r)
    BY <1>5, LoadType DEF LoadPatch, Alive
  <2>2. [Load(r) EXCEPT !.copy.target = t] \in Loaded
        /\ [Load(r) EXCEPT !.copy.target = t].row = r
    BY <2>1 DEF Loaded, Row
  <2>3. j \in Job /\ j.op = "patch" /\ j.sub \in Loaded /\ Stored(j.sub.row)
    BY <2>1, <2>2 DEF Idle, Job, Ops
  <2>4. job' = [job EXCEPT ![q] = j] /\ batch' = batch
    BY <1>5 DEF LoadPatch
  <2>5. QED
    BY <1>5, <2>3, <2>4, LoadStepType DEF LoadPatch
<1>6. ASSUME NEW r \in RowIds, LoadDelete(q, r)
      PROVE  TypeInv'
  <2> DEFINE j == [Idle EXCEPT !.op = "delete", !.sub = Load(r)]
  <2>1. j \in Job /\ j.op = "delete" /\ j.sub \in Loaded /\ Stored(j.sub.row)
    BY <1>6, LoadType DEF Idle, Job, Ops, LoadDelete, Alive
  <2>2. job' = [job EXCEPT ![q] = j] /\ batch' = batch
    BY <1>6 DEF LoadDelete
  <2>3. QED
    BY <1>6, <2>1, <2>2, LoadStepType DEF LoadDelete
<1>7. ASSUME Insert(q)
      PROVE  TypeInv'
  <2>1. job[q].sub.row \in RowIds /\ job[q].sub.copy \in Row
    BY <1>7 DEF Insert, TypeInv, TypeOK, Loaded
  <2>2. CASE ConstraintsHold(job[q].sub.row, job[q].sub.copy)
    BY <1>7, <2>1, <2>2, WriteType DEF Insert, ConstraintsHold
  <2>3. CASE ~ConstraintsHold(job[q].sub.row, job[q].sub.copy)
    BY <1>7, <2>3, LoadStepType, IdleIsJob DEF Insert, Loading
  <2>4. QED BY <2>2, <2>3
<1>8. ASSUME WritePatch(q)
      PROVE  TypeInv'
  <2>1. job[q].sub.row \in RowIds /\ job[q].sub.copy \in Row
    BY <1>8 DEF WritePatch, TypeInv, TypeOK, Loaded
  <2>2. CASE ConstraintsHold(job[q].sub.row, job[q].sub.copy)
    BY <1>8, <2>1, <2>2, WriteType DEF WritePatch, ConstraintsHold, Patched
  <2>3. CASE ~ConstraintsHold(job[q].sub.row, job[q].sub.copy)
    BY <1>8, <2>3, LoadStepType, IdleIsJob DEF WritePatch, Loading
  <2>4. QED BY <2>2, <2>3
<1>9. ASSUME WriteDelete(q)
      PROVE  TypeInv'
  <2> DEFINE r == job[q].sub.row
  <2>1. r \in RowIds /\ rows[r] \in Row
    BY <1>9 DEF WriteDelete, TypeInv, TypeOK, CopiesStored, Loading, Stored, Loaded
  <2>2. [rows[r] EXCEPT !.deleted = TRUE] \in Row
        /\ WellFormed([rows[r] EXCEPT !.deleted = TRUE])
    BY <1>9, <2>1 DEF TypeInv, CopiesStored, WriteDelete, Loading, RowsWellFormed,
                      WellFormed, Row
  <2>3. rows' = [rows EXCEPT ![r] = [rows[r] EXCEPT !.deleted = TRUE]]
    BY <1>9 DEF WriteDelete
  <2>4. QED
    BY <1>9, <2>1, <2>2, <2>3, WriteType DEF WriteDelete
<1>10. QED
  BY <1>2, <1>3, <1>4, <1>5, <1>6, <1>7, <1>8, <1>9
     DEF RequestStep, SubmitExam, SubmitHomework

LEMMA OtherStepType ==
  ASSUME TypeInv
  PROVE  /\ \A w \in Workers : TaskStep(w) => TypeInv'
         /\ \A a \in Actors : GradingStep(a) \/ Crash(a) => TypeInv'
         /\ WorldStep => TypeInv'
<1>1. ASSUME NEW w \in Workers, Scan(w)
      PROVE  TypeInv'
  <2>1. \A r \in RowIds : Stuck(r) => Load(r) \in Loaded /\ Load(r).row = r /\ Stored(r)
    BY LoadType DEF Stuck, Alive
  <2>2. batch' \in [Workers -> SUBSET Loaded]
    BY <1>1, <2>1 DEF Scan, TypeInv, TypeOK
  <2>3. \A x \in Workers : \A sub \in batch'[x] : Stored(sub.row)
    BY <1>1, <2>1 DEF Scan, TypeInv, TypeOK, CopiesStored
  <2>4. TypeOK'
    BY <1>1, <2>2 DEF Scan, TypeInv, TypeOK, world
  <2>5. QED
    BY <1>1, <2>3, <2>4
       DEF Scan, TypeInv, RowsWellFormed, CopiesStored, Stored, WellFormed, world
<1>2. ASSUME NEW w \in Workers, TakeNext(w)
      PROVE  TypeInv'
  <2>1. PICK sub \in batch[w] :
          /\ job' = [job EXCEPT ![w] = [Idle EXCEPT !.op = "submit", !.sub = sub]]
          /\ batch' = [batch EXCEPT ![w] = @ \ {sub}]
          /\ UNCHANGED <<rows, overdue, world, crashes>>
    BY <1>2 DEF TakeNext
  <2> DEFINE j == [Idle EXCEPT !.op = "submit", !.sub = sub]
  <2>2. sub \in Loaded /\ Stored(sub.row)
    BY <2>1 DEF TypeInv, TypeOK, CopiesStored
  <2>3. j \in Job /\ j.op = "submit" /\ j.sub = sub
    BY <2>2 DEF Idle, Job, Ops
  <2>4. batch' \in [Workers -> SUBSET Loaded]
        /\ \A x \in Workers : \A y \in batch'[x] : Stored(y.row)
    BY <2>1 DEF TypeInv, TypeOK, CopiesStored
  <2>5. QED
    BY <2>1, <2>2, <2>3, <2>4, JobStepType DEF Actors
<1>3. ASSUME NEW a \in Actors, CreateSnapshot(a)
      PROVE  TypeInv'
  <2> DEFINE j == [job[a] EXCEPT !.op = "grade",
                     !.snap = [paper |-> job[a].sub.paper,
                               version |-> version[job[a].sub.paper]]]
  <2>1. job[a] \in Job /\ job[a].sub \in Loaded /\ Stored(job[a].sub.row)
    BY <1>3 DEF CreateSnapshot, TypeInv, TypeOK, CopiesStored, Loading
  <2>2. [paper |-> job[a].sub.paper, version |-> version[job[a].sub.paper]] \in Snapshots
    BY <2>1 DEF TypeInv, TypeOK, Loaded, Snapshots
  <2>3. j \in Job /\ j.op = "grade" /\ j.sub = job[a].sub /\ j.snap \in Snapshots
    BY <2>1, <2>2 DEF Job, Ops
  <2>4. job' = [job EXCEPT ![a] = j]
    BY <1>3 DEF CreateSnapshot, TypeInv, TypeOK
  <2>5. QED
    BY <1>3, <2>1, <2>3, <2>4, LoadStepType DEF CreateSnapshot
<1>4. ASSUME NEW a \in Actors, Grade(a)
      PROVE  TypeInv'
  <2> DEFINE r == job[a].sub.row
             row == Graded(rows[r], job[a])
  <2>1. r \in RowIds /\ rows[r] \in Row /\ WellFormed(rows[r])
    BY <1>4 DEF Grade, TypeInv, TypeOK, CopiesStored, RowsWellFormed, Loading,
                Stored, Loaded
  <2>2. row \in Row /\ WellFormed(row)
    BY <1>4, <2>1, GradedType DEF Grade, WellFormed
  <2>3. rows' = rows \/ rows' = [rows EXCEPT ![r] = row]
    BY <1>4 DEF Grade
  <2>4. QED
    BY <1>4, <2>1, <2>2, <2>3, WriteType DEF Grade
<1>5. ASSUME NEW a \in Actors, Crash(a)
      PROVE  TypeInv'
  <2>1. crashes' \in 0..MaxCrashes
    BY <1>5, BoundsAssumption DEF Crash, TypeInv, TypeOK
  <2>2. batch' \in [Workers -> SUBSET Loaded]
        /\ \A x \in Workers : \A y \in batch'[x] : Stored(y.row)
    BY <1>5 DEF Crash, TypeInv, TypeOK, CopiesStored
  <2>3. TypeOK'
    BY <1>5, <2>1, <2>2, IdleIsJob, JobUpdate DEF Crash, TypeInv, TypeOK, world
  <2>4. CopiesStored'
    BY <1>5, <2>2, IdleIsJob DEF Crash, TypeInv, TypeOK, CopiesStored, Stored, Loading
  <2>5. QED
    BY <1>5, <2>3, <2>4 DEF Crash, TypeInv, RowsWellFormed, Stored, WellFormed
<1>6. ASSUME WorldStep
      PROVE  TypeInv'
  <2>1. UNCHANGED <<rows, job, batch, crashes>>
    BY <1>6 DEF WorldStep, ToggleRoom, ChangePaper, ToggleAvailable, EditQuestions,
                AttemptRunsOut, DeadlineMoves, world
  <2>2. /\ overdue' \subseteq RowIds /\ open' \in [Exams -> BOOLEAN]
        /\ examPaper' \in [Exams -> MockTests] /\ past' \subseteq Homeworks
        /\ available' \in [Papers -> BOOLEAN]
    BY <1>6 DEF WorldStep, ToggleRoom, ChangePaper, ToggleAvailable, EditQuestions,
                AttemptRunsOut, DeadlineMoves, world, TypeInv, TypeOK
  <2>3. version' \in [Papers -> Versions]
    <3>1. CASE UNCHANGED version
      BY <3>1 DEF TypeInv, TypeOK
    <3>2. ASSUME NEW p \in Papers, EditQuestions(p)
          PROVE  version' \in [Papers -> Versions]
      BY <3>2, BoundsAssumption DEF EditQuestions, TypeInv, TypeOK, Versions
    <3>3. QED
      BY <1>6, <3>1, <3>2 DEF WorldStep, ToggleRoom, ChangePaper, ToggleAvailable,
                              AttemptRunsOut, DeadlineMoves, world
  <2>4. TypeOK'
    BY <2>1, <2>2, <2>3 DEF TypeInv, TypeOK
  <2>5. QED
    BY <2>1, <2>4 DEF TypeInv, RowsWellFormed, CopiesStored, Stored, WellFormed
<1>7. QED
  BY <1>1, <1>2, <1>3, <1>4, <1>5, <1>6 DEF TaskStep, GradingStep

LEMMA InitType == Init => TypeInv
<1> SUFFICES ASSUME Init PROVE TypeInv
  OBVIOUS
<1>1. TypeOK
  BY IdleIsJob, PapersAssumption, BoundsAssumption
     DEF Init, TypeOK, Versions, Row, Papers
<1>2. RowsWellFormed /\ CopiesStored
  BY IdleIsJob DEF Init, RowsWellFormed, CopiesStored, Stored, Loading, Idle
<1>3. QED BY <1>1, <1>2 DEF TypeInv

LEMMA NextType == TypeInv /\ [Next]_vars => TypeInv'
<1> SUFFICES ASSUME TypeInv, [Next]_vars PROVE TypeInv'
  OBVIOUS
<1>1. CASE Next
  BY <1>1, RequestStepType, OtherStepType DEF Next
<1>2. CASE UNCHANGED vars
  BY <1>2 DEF vars, TypeInv, TypeOK, RowsWellFormed, CopiesStored, Stored, WellFormed
<1>3. QED BY <1>1, <1>2

\* The tables and every copy in memory keep their types, whatever requests,
\* tasks, crashes and edits interleave.
THEOREM TypeCorrect == Spec => []TypeOK
<1>1. Spec => []TypeInv
  BY InitType, NextType, PTL DEF Spec
<1>2. TypeInv => TypeOK
  BY DEF TypeInv
<1>3. QED BY <1>1, <1>2, PTL

-----------------------------------------------------------------------------
(* Safety.  OneAttempt and GradedWhole are not inductive: what the next    *)
(* write does to a row depends on the copy it is made from.  Every copy in *)
(* memory is an ungraded image of its row, of the same item (SafeCopies),  *)
(* and an id that is about to be inserted is nobody else's.                *)

Clean(row) == row.status = "STARTED" /\ ~row.deleted /\ Ungraded(row)

\* A copy that was made of a row: it may be stale, but not in its item.
ImageOf(sub) ==
  /\ Clean(sub.copy)
  /\ sub.copy.resource = rows[sub.row].resource
  /\ sub.copy.resource # None => sub.paper = sub.copy.resource

SafeJob(j) ==
  /\ j.op \in Loading => Stored(j.sub.row) /\ ImageOf(j.sub)
  /\ j.op = "start" => ~Stored(j.sub.row) /\ Clean(j.sub.copy)
  /\ j.op = "grade" => j.snap.paper = j.sub.paper

SafeCopies ==
  /\ \A a \in Actors : SafeJob(job[a])
  /\ \A w \in Workers : \A sub \in batch[w] : Stored(sub.row) /\ ImageOf(sub)
  /\ \A a, b \in Actors : a # b /\ job[a].op = "start" /\ job[b].op = "start"
                          => job[a].sub.row # job[b].sub.row

IInv == TypeInv /\ OneAttempt /\ GradedWhole /\ SafeCopies

\* Steps that leave the rows alone: a job is replaced by a safe one.
LEMMA JobStepSafe ==
  ASSUME IInv, rows' = rows, NEW a \in Actors, NEW j,
         job' = [job EXCEPT ![a] = j], SafeJob(j),
         j.op = "start" =>
           \A b \in Actors \ {a} : job[b].op = "start" => job[b].sub.row # j.sub.row,
         \A w \in Workers : \A sub \in batch'[w] : Stored(sub.row) /\ ImageOf(sub)
  PROVE  OneAttempt' /\ GradedWhole' /\ SafeCopies'
<1>1. OneAttempt' /\ GradedWhole'
  BY DEF IInv, OneAttempt, GradedWhole, Stored, Key, Whole, Ungraded
<1>2. job \in [Actors -> Job]
  BY DEF IInv, TypeInv, TypeOK
<1>3. \A b \in Actors : job'[b] = IF b = a THEN j ELSE job[b]
  BY <1>2
<1>4. \A b \in Actors : SafeJob(job[b])'
  BY <1>3 DEF IInv, SafeCopies, SafeJob, ImageOf, Stored
<1>5. \A w \in Workers : \A sub \in batch'[w] : (Stored(sub.row) /\ ImageOf(sub))'
  BY DEF ImageOf, Stored
<1>6. \A b, c \in Actors : b # c /\ job'[b].op = "start" /\ job'[c].op = "start"
                          => job'[b].sub.row # job'[c].sub.row
  BY <1>3 DEF IInv, SafeCopies
<1>7. QED
  BY <1>1, <1>4, <1>5, <1>6 DEF SafeCopies

\* Steps that write: the row of the actor's copy, with the same item.
LEMMA WriteSafe ==
  ASSUME IInv, NEW a \in Actors, NEW row \in Row, job[a].op # "idle",
         rows' = [rows EXCEPT ![job[a].sub.row] = row],
         job' = [job EXCEPT ![a] = Idle], batch' = batch,
         ~KeyTaken(job[a].sub.row, row), Whole(row),
         Stored(job[a].sub.row) => row.resource = rows[job[a].sub.row].resource,
         ~Stored(job[a].sub.row) => job[a].op = "start"
  PROVE  OneAttempt' /\ GradedWhole' /\ SafeCopies'
<1> DEFINE r == job[a].sub.row
<1>1. r \in RowIds /\ row # None
  BY NullAssumption DEF IInv, TypeInv, TypeOK, Loaded
<1>2. \A s \in RowIds : rows'[s] = IF s = r THEN row ELSE rows[s]
  BY <1>1 DEF IInv, TypeInv, TypeOK
<1>3. OneAttempt'
  <2>1. \A s \in RowIds \ {r} : Stored(s) => Key(rows[s]) # Key(row)
    BY DEF KeyTaken
  <2>2. \A s, t \in RowIds : s # t /\ Stored(s) /\ Stored(t)
                            => Key(rows[s]) # Key(rows[t])
    BY DEF IInv, OneAttempt
  <2>3. \A s, t \in RowIds : s # t /\ rows'[s] # None /\ rows'[t] # None
                            => Key(rows'[s]) # Key(rows'[t])
    BY <1>1, <1>2, <2>1, <2>2 DEF Stored
  <2>4. QED BY <2>3 DEF OneAttempt, Stored
<1>4. GradedWhole'
  BY <1>1, <1>2 DEF IInv, GradedWhole, Stored, Whole, Ungraded
<1>5. \A s \in RowIds : Stored(s) =>
        rows'[s] # None /\ rows'[s].resource = rows[s].resource
  BY <1>1, <1>2 DEF Stored
<1>6. \A b \in Actors : job'[b] = IF b = a THEN Idle ELSE job[b]
  BY DEF IInv, TypeInv, TypeOK
<1>7. \A b \in Actors : b # a /\ job[b].op # "idle" => job[b].sub \in Loaded
  BY DEF IInv, TypeInv, TypeOK
<1>8. \A b \in Actors : SafeJob(job[b])'
  <2> SUFFICES ASSUME NEW b \in Actors PROVE SafeJob(job[b])'
    OBVIOUS
  <2>1. CASE b = a
    BY <2>1, <1>6, IdleIsJob DEF SafeJob, Loading
  <2>2. CASE b # a
    <3>1. job'[b] = job[b] /\ SafeJob(job[b])
      BY <2>2, <1>6 DEF IInv, SafeCopies
    <3>2. job[b].op = "start" => job[b].sub.row # r
      <4>1. CASE job[a].op = "start"
        BY <4>1, <2>2 DEF IInv, SafeCopies
      <4>2. CASE job[a].op # "start"
        BY <4>2, <3>1 DEF SafeJob
      <4>3. QED BY <4>1, <4>2
    <3>3. CASE job[b].op \in Loading
      BY <3>1, <3>3, <2>2, <1>5, <1>7
         DEF SafeJob, Loading, ImageOf, Stored, Loaded
    <3>4. CASE job[b].op = "start"
      BY <3>1, <3>2, <3>4, <2>2, <1>2, <1>7
         DEF SafeJob, Loading, Stored, Loaded
    <3>5. CASE job[b].op \notin Loading \cup {"start"}
      BY <3>1, <3>5 DEF SafeJob, Loading
    <3>6. QED BY <3>3, <3>4, <3>5
  <2>3. QED BY <2>1, <2>2
<1>9. \A w \in Workers : \A sub \in batch'[w] : (Stored(sub.row) /\ ImageOf(sub))'
  <2>1. \A w \in Workers : \A sub \in batch[w] :
          sub \in Loaded /\ Stored(sub.row) /\ ImageOf(sub)
    BY DEF IInv, SafeCopies, TypeInv, TypeOK
  <2>2. QED
    BY <2>1, <1>5 DEF ImageOf, Stored, Loaded
<1>10. \A b, c \in Actors : b # c /\ job'[b].op = "start" /\ job'[c].op = "start"
                          => job'[b].sub.row # job'[c].sub.row
  BY <1>6, IdleIsJob DEF IInv, SafeCopies
<1>11. QED
  BY <1>3, <1>4, <1>8, <1>9, <1>10 DEF SafeCopies

\* A live attempt that is not graded has a clean row, and loading it makes an
\* image of it.
LEMMA LoadImage ==
  ASSUME IInv, NEW r \in RowIds, Alive(r), rows[r].status # "GRADED"
  PROVE  /\ Load(r) \in Loaded /\ Load(r).row = r /\ Load(r).copy = rows[r]
         /\ Stored(r) /\ ImageOf(Load(r))
<1>1. /\ Load(r) \in Loaded /\ Load(r).row = r /\ Load(r).copy = rows[r]
      /\ rows[r] \in Row /\ Stored(r)
      /\ rows[r].resource # None => Load(r).paper = rows[r].resource
  BY LoadType DEF IInv, Alive
<1>2. Clean(rows[r])
  BY <1>1 DEF IInv, GradedWhole, Whole, Clean, Alive, Row, Statuses
<1>3. QED
  BY <1>1, <1>2 DEF ImageOf

\* Batches that are left alone hold images still.
LEMMA BatchSafe ==
  ASSUME IInv, UNCHANGED <<rows, batch>>
  PROVE  \A w \in Workers : \A sub \in batch'[w] : Stored(sub.row) /\ ImageOf(sub)
BY DEF IInv, SafeCopies

LEMMA RequestStepSafe ==
  ASSUME IInv, NEW q \in Requests, RequestStep(q)
  PROVE  OneAttempt' /\ GradedWhole' /\ SafeCopies'
<1> USE DEF Actors
<1>1. ASSUME NEW r \in RowIds, NEW row, NEW paper, Clean(row),
             BeginStart(q, r, row, paper)
      PROVE  OneAttempt' /\ GradedWhole' /\ SafeCopies'
  <2> DEFINE j == [Idle EXCEPT !.op = "start",
                     !.sub = [row |-> r, copy |-> row, paper |-> paper]]
  <2>1. j.op = "start" /\ j.sub.row = r /\ j.sub.copy = row
    BY DEF Idle
  <2>2. SafeJob(j)
    BY <1>1, <2>1 DEF SafeJob, Loading, BeginStart, FreshId
  <2>3. \A b \in Actors \ {q} : job[b].op = "start" => job[b].sub.row # r
    BY <1>1 DEF BeginStart, FreshId
  <2>4. rows' = rows /\ batch' = batch /\ job' = [job EXCEPT ![q] = j]
    BY <1>1 DEF BeginStart
  <2>5. QED
    BY <2>1, <2>2, <2>3, <2>4, JobStepSafe, BatchSafe
<1>2. \A s, t, p : Clean(NewRow(s, t, p))
  BY DEF NewRow, Clean, Ungraded
<1>3. ASSUME NEW r \in RowIds, NEW s \in Students, NEW e \in Exams,
             StartExam(q, r, s, e)
      PROVE  OneAttempt' /\ GradedWhole' /\ SafeCopies'
  BY <1>1, <1>2, <1>3 DEF StartExam
<1>4. ASSUME NEW r \in RowIds, NEW s \in Students, NEW h \in Homeworks,
             NEW p \in Papers, StartHomework(q, r, s, h, p)
      PROVE  OneAttempt' /\ GradedWhole' /\ SafeCopies'
  BY <1>1, <1>2, <1>4 DEF StartHomework
<1>5. ASSUME NEW r \in RowIds, NEW a \in Answers, LoadSubmit(q, r, a)
      PROVE  OneAttempt' /\ GradedWhole' /\ SafeCopies'
  <2> DEFINE j == [Idle EXCEPT !.op = "submit", !.sub = Load(r), !.answers = a]
  <2>1. j.op = "submit" /\ j.sub = Load(r)
    BY DEF Idle
  <2>2. SafeJob(j)
    BY <1>5, <2>1, LoadImage DEF SafeJob, Loading, LoadSubmit, Submittable
  <2>3. rows' = rows /\ batch' = batch /\ job' = [job EXCEPT ![q] = j]
    BY <1>5 DEF LoadSubmit
  <2>4. QED
    BY <2>1, <2>2, <2>3, JobStepSafe, BatchSafe
<1>6. ASSUME NEW r \in RowIds, NEW t \in Targets, LoadPatch(q, r, t)
      PROVE  OneAttempt' /\ GradedWhole' /\ SafeCopies'
  <2> DEFINE sub == [Load(r) EXCEPT !.copy.target = t]
             j == [Idle EXCEPT !.op = "patch", !.sub = sub]
  <2>1. /\ Load(r) \in Loaded /\ Load(r).row = r /\ Load(r).copy = rows[r]
        /\ Stored(r) /\ ImageOf(Load(r))
    BY <1>6, LoadImage DEF LoadPatch, Editable
  <2>2. /\ sub.row = r /\ sub.paper = Load(r).paper
        /\ sub.copy = [Load(r).copy EXCEPT !.target = t]
    BY <2>1 DEF Loaded
  <2>3. ImageOf(sub)
    BY <2>1, <2>2 DEF ImageOf, Clean, Ungraded, Loaded, Row
  <2>4. j.op = "patch" /\ j.sub = sub
    BY DEF Idle
  <2>5. SafeJob(j)
    BY <2>1, <2>2, <2>3, <2>4 DEF SafeJob, Loading
  <2>6. rows' = rows /\ batch' = batch /\ job' = [job EXCEPT ![q] = j]
    BY <1>6 DEF LoadPatch
  <2>7. QED
    BY <2>4, <2>5, <2>6, JobStepSafe, BatchSafe
<1>7. ASSUME NEW r \in RowIds, LoadDelete(q, r)
      PROVE  OneAttempt' /\ GradedWhole' /\ SafeCopies'
  <2> DEFINE j == [Idle EXCEPT !.op = "delete", !.sub = Load(r)]
  <2>1. j.op = "delete" /\ j.sub = Load(r)
    BY DEF Idle
  <2>2. SafeJob(j)
    BY <1>7, <2>1, LoadImage DEF SafeJob, Loading, LoadDelete, Editable
  <2>3. rows' = rows /\ batch' = batch /\ job' = [job EXCEPT ![q] = j]
    BY <1>7 DEF LoadDelete
  <2>4. QED
    BY <2>1, <2>2, <2>3, JobStepSafe, BatchSafe
<1>8. ASSUME rows' = rows, batch' = batch, job' = [job EXCEPT ![q] = Idle]
      PROVE  OneAttempt' /\ GradedWhole' /\ SafeCopies'
  <2>1. SafeJob(Idle) /\ Idle.op # "start"
    BY IdleIsJob DEF SafeJob, Loading
  <2>2. QED
    BY <1>8, <2>1, JobStepSafe, BatchSafe
<1>9. ASSUME Insert(q)
      PROVE  OneAttempt' /\ GradedWhole' /\ SafeCopies'
  <2> DEFINE sub == job[q].sub
  <2>1. sub.copy \in Row /\ ~Stored(sub.row) /\ Clean(sub.copy)
    BY <1>9 DEF Insert, IInv, TypeInv, TypeOK, Loaded, SafeCopies, SafeJob
  <2>2. CASE ConstraintsHold(sub.row, sub.copy)
    BY <1>9, <2>1, <2>2, WriteSafe DEF Insert, ConstraintsHold, Whole, Clean
  <2>3. CASE ~ConstraintsHold(sub.row, sub.copy)
    BY <1>8, <1>9, <2>3 DEF Insert
  <2>4. QED BY <2>2, <2>3
<1>10. ASSUME WritePatch(q)
       PROVE  OneAttempt' /\ GradedWhole' /\ SafeCopies'
  <2> DEFINE sub == job[q].sub
  <2>1. /\ sub.copy \in Row /\ Stored(sub.row) /\ Clean(sub.copy)
        /\ sub.copy.resource = rows[sub.row].resource
    BY <1>10 DEF WritePatch, IInv, TypeInv, TypeOK, Loaded, SafeCopies, SafeJob,
                 Loading, ImageOf
  <2>2. CASE ConstraintsHold(sub.row, sub.copy)
    BY <1>10, <2>1, <2>2, WriteSafe
       DEF WritePatch, Patched, ConstraintsHold, Whole, Clean
  <2>3. CASE ~ConstraintsHold(sub.row, sub.copy)
    BY <1>8, <1>10, <2>3 DEF WritePatch
  <2>4. QED BY <2>2, <2>3
<1>11. ASSUME WriteDelete(q)
       PROVE  OneAttempt' /\ GradedWhole' /\ SafeCopies'
  <2> DEFINE r == job[q].sub.row
             row == [rows[r] EXCEPT !.deleted = TRUE]
  <2>1. r \in RowIds /\ Stored(r) /\ rows[r] \in Row
    BY <1>11 DEF WriteDelete, IInv, TypeInv, TypeOK, Loaded, CopiesStored,
                 Loading, Stored
  <2>2. row \in Row /\ row.resource = rows[r].resource /\ Key(row) = Key(rows[r])
    BY <2>1 DEF Row, Key
  <2>3. ~KeyTaken(r, row)
    BY <2>1, <2>2 DEF KeyTaken, IInv, OneAttempt
  <2>4. Whole(row)
    BY <2>1 DEF IInv, GradedWhole, Whole, Ungraded, Row
  <2>5. rows' = [rows EXCEPT ![r] = row]
    BY <1>11 DEF WriteDelete
  <2>6. QED
    BY <1>11, <2>1, <2>2, <2>3, <2>4, <2>5, WriteSafe DEF WriteDelete
<1>12. QED
  BY <1>3, <1>4, <1>5, <1>6, <1>7, <1>9, <1>10, <1>11
     DEF RequestStep, SubmitExam, SubmitHomework

\* What create_snapshot and grade_submission work on.
LEMMA GradingFacts ==
  ASSUME IInv, NEW a \in Actors, job[a].op \in Loading
  PROVE  LET sub == job[a].sub IN
         /\ job[a] \in Job /\ sub \in Loaded /\ sub.row \in RowIds
         /\ Stored(sub.row) /\ rows[sub.row] \in Row /\ ImageOf(sub)
BY DEF IInv, TypeInv, TypeOK, CopiesStored, SafeCopies, SafeJob, Loading, Stored,
       Loaded

LEMMA OtherStepSafe ==
  ASSUME IInv
  PROVE  /\ \A w \in Workers : TaskStep(w) => OneAttempt' /\ GradedWhole' /\ SafeCopies'
         /\ \A a \in Actors : GradingStep(a) \/ Crash(a)
                              => OneAttempt' /\ GradedWhole' /\ SafeCopies'
         /\ WorldStep => OneAttempt' /\ GradedWhole' /\ SafeCopies'
<1>1. ASSUME NEW w \in Workers, Scan(w)
      PROVE  OneAttempt' /\ GradedWhole' /\ SafeCopies'
  <2>1. \A r \in RowIds : Stuck(r) =>
          Load(r).row = r /\ Stored(r) /\ ImageOf(Load(r))
    BY LoadImage DEF Stuck
  <2>2. \A x \in Workers : \A sub \in batch'[x] : Stored(sub.row) /\ ImageOf(sub)
    BY <1>1, <2>1 DEF Scan, IInv, TypeInv, TypeOK, SafeCopies
  <2>3. job' = [job EXCEPT ![w] = job[w]] /\ SafeJob(job[w]) /\ job[w].op # "start"
    BY <1>1, IdleIsJob DEF Scan, IInv, TypeInv, TypeOK, SafeCopies, Actors, Idle
  <2>4. QED
    BY <1>1, <2>2, <2>3, JobStepSafe DEF Scan, Actors
<1>2. ASSUME NEW w \in Workers, TakeNext(w)
      PROVE  OneAttempt' /\ GradedWhole' /\ SafeCopies'
  <2>1. PICK sub \in batch[w] :
          /\ job' = [job EXCEPT ![w] = [Idle EXCEPT !.op = "submit", !.sub = sub]]
          /\ batch' = [batch EXCEPT ![w] = @ \ {sub}]
          /\ rows' = rows
    BY <1>2 DEF TakeNext
  <2> DEFINE j == [Idle EXCEPT !.op = "submit", !.sub = sub]
  <2>2. j.op = "submit" /\ j.sub = sub
    BY DEF Idle
  <2>3. SafeJob(j)
    BY <2>1, <2>2 DEF IInv, SafeCopies, SafeJob, Loading
  <2>4. \A x \in Workers : \A y \in batch'[x] : Stored(y.row) /\ ImageOf(y)
    BY <2>1 DEF IInv, TypeInv, TypeOK, SafeCopies
  <2>5. QED
    BY <2>1, <2>2, <2>3, <2>4, JobStepSafe DEF Actors
<1>3. ASSUME NEW a \in Actors, CreateSnapshot(a)
      PROVE  OneAttempt' /\ GradedWhole' /\ SafeCopies'
  <2> DEFINE j == [job[a] EXCEPT !.op = "grade",
                     !.snap = [paper |-> job[a].sub.paper,
                               version |-> version[job[a].sub.paper]]]
  <2>1. /\ job[a] \in Job /\ Stored(job[a].sub.row) /\ ImageOf(job[a].sub)
    BY <1>3, GradingFacts DEF CreateSnapshot, Loading
  <2>2. /\ j.op = "grade" /\ j.sub = job[a].sub
        /\ j.snap.paper = job[a].sub.paper
    BY <2>1 DEF Job
  <2>3. SafeJob(j)
    BY <2>1, <2>2 DEF SafeJob
  <2>4. rows' = rows /\ batch' = batch /\ job' = [job EXCEPT ![a] = j]
    BY <1>3 DEF CreateSnapshot, IInv, TypeInv, TypeOK
  <2>5. QED
    BY <2>2, <2>3, <2>4, JobStepSafe, BatchSafe
<1>4. ASSUME NEW a \in Actors, Grade(a)
      PROVE  OneAttempt' /\ GradedWhole' /\ SafeCopies'
  <2> DEFINE sub == job[a].sub
             r == sub.row
             row == Graded(rows[r], job[a])
  <2>1. /\ r \in RowIds /\ Stored(r) /\ rows[r] \in Row /\ ImageOf(sub)
        /\ sub \in Loaded /\ job[a] \in Job
    BY <1>4, GradingFacts DEF Grade, Loading
  <2>2. /\ row \in Row /\ row.target = rows[r].target
        /\ row.resource = rows[r].resource /\ row.user = rows[r].user
    BY <1>4, <2>1, GradedType DEF Grade, IInv
  <2>3. ~KeyTaken(r, row)
    BY <2>1, <2>2 DEF KeyTaken, IInv, OneAttempt, Key
  <2>4. /\ job[a].snap \in Snapshots /\ job[a].snap.paper = sub.paper
        /\ version[sub.paper] \in Versions /\ sub.paper \in Papers
        /\ job[a].answers \in Answers \cup {NoAnswers}
    BY <1>4, <2>1 DEF Grade, IInv, TypeInv, TypeOK, SafeCopies, SafeJob, Loaded, Job
  <2>5. [paper |-> sub.paper, version |-> version[sub.paper],
         answers |-> job[a].answers] \in Results
    BY <2>4 DEF Results
  <2>6. /\ row.status = "GRADED" /\ row.answers = job[a].answers
        /\ row.snapshot = job[a].snap
        /\ row.results = [paper |-> sub.paper, version |-> version[sub.paper],
                          answers |-> job[a].answers]
    BY <2>1 DEF Graded, Row
  <2>7. Whole(row)
    BY <2>1, <2>2, <2>4, <2>5, <2>6, NullAssumption DEF Whole, ImageOf
  <2>8. rows' = [rows EXCEPT ![r] = row]
    BY <1>4, <2>1 DEF Grade, ImageOf, Clean
  <2>9. QED
    BY <1>4, <2>1, <2>2, <2>3, <2>7, <2>8, WriteSafe DEF Grade
<1>5. ASSUME NEW a \in Actors, Crash(a)
      PROVE  OneAttempt' /\ GradedWhole' /\ SafeCopies'
  <2>1. \A w \in Workers : \A sub \in batch'[w] : Stored(sub.row) /\ ImageOf(sub)
    BY <1>5 DEF Crash, IInv, SafeCopies
  <2>2. SafeJob(Idle) /\ Idle.op # "start"
    BY IdleIsJob DEF SafeJob, Loading
  <2>3. QED
    BY <1>5, <2>1, <2>2, JobStepSafe DEF Crash
<1>6. ASSUME UNCHANGED <<rows, job, batch>>
      PROVE  OneAttempt' /\ GradedWhole' /\ SafeCopies'
  BY <1>6 DEF IInv, OneAttempt, GradedWhole, SafeCopies, SafeJob, ImageOf, Stored, Key
<1>7. ASSUME WorldStep
      PROVE  OneAttempt' /\ GradedWhole' /\ SafeCopies'
  <2>1. UNCHANGED <<rows, job, batch>>
    BY <1>7 DEF WorldStep, ToggleRoom, ChangePaper, ToggleAvailable, EditQuestions,
                AttemptRunsOut, DeadlineMoves, world
  <2>2. QED BY <1>6, <2>1
<1>8. QED
  BY <1>1, <1>2, <1>3, <1>4, <1>5, <1>7 DEF TaskStep, GradingStep

LEMMA InitSafe == Init => IInv
<1> SUFFICES ASSUME Init PROVE IInv
  OBVIOUS
<1>1. OneAttempt /\ GradedWhole
  BY DEF Init, OneAttempt, GradedWhole, Stored
<1>2. SafeCopies
  BY IdleIsJob DEF Init, SafeCopies, SafeJob, Loading
<1>3. QED BY <1>1, <1>2, InitType DEF IInv

LEMMA NextSafe == IInv /\ [Next]_vars => IInv'
<1> SUFFICES ASSUME IInv, [Next]_vars PROVE IInv'
  OBVIOUS
<1>1. TypeInv'
  BY NextType DEF IInv
<1>2. OneAttempt' /\ GradedWhole' /\ SafeCopies'
  <2>1. CASE Next
    BY <2>1, RequestStepSafe, OtherStepSafe DEF Next
  <2>2. CASE UNCHANGED vars
    BY <2>2 DEF vars, IInv, OneAttempt, GradedWhole, SafeCopies, SafeJob, ImageOf,
                Stored, Key
  <2>3. QED BY <2>1, <2>2
<1>3. QED BY <1>1, <1>2 DEF IInv

LEMMA Safe == Spec => []IInv
BY InitSafe, NextSafe, PTL DEF Spec

\* No interleaving of starts, deletions, restarts and edits gives a user two
\* attempts at one exam or homework item.
THEOREM OneAttemptEver == Spec => []OneAttempt
<1>1. IInv => OneAttempt
  BY DEF IInv
<1>2. QED BY <1>1, Safe, PTL

\* However gradings, full-row saves and deletions of stale copies interleave,
\* the status, answers, results and snapshot of a row agree.
THEOREM GradingIsWhole == Spec => []GradedWhole
<1>1. IInv => GradedWhole
  BY DEF IInv
<1>2. QED BY <1>1, Safe, PTL

\* A row that changes is the one an actor loaded when it was not graded.
LEMMA WriterHasStaleCopy ==
  ASSUME IInv, [Next]_vars, NEW r \in RowIds, Stored(r), rows'[r] # rows[r]
  PROVE  \E a \in Actors : /\ job[a].op \in {"grade", "patch", "delete"}
                           /\ job[a].sub.row = r
                           /\ job[a].sub.copy.status = "STARTED"
                           /\ job'[a] = Idle
<1>1. \A a \in Actors : job[a].op \in Loading => job[a].sub.copy.status = "STARTED"
  BY GradingFacts DEF ImageOf, Clean
<1>2. \A a \in Actors : job' = [job EXCEPT ![a] = Idle] => job'[a] = Idle
  BY DEF IInv, TypeInv, TypeOK
<1>3. rows \in [RowIds -> Row \cup {None}]
  BY DEF IInv, TypeInv, TypeOK
<1>4. \A q \in Requests : ~Insert(q)
  BY <1>3 DEF Insert, IInv, SafeCopies, SafeJob, Actors
<1>5. ASSUME NEW q \in Requests, WritePatch(q) \/ WriteDelete(q)
      PROVE  job[q].op \in {"patch", "delete"} /\ job[q].sub.row = r
             /\ job'[q] = Idle
  BY <1>2, <1>3, <1>5 DEF WritePatch, WriteDelete, Actors
<1>6. ASSUME NEW a \in Actors, Grade(a)
      PROVE  job[a].op = "grade" /\ job[a].sub.row = r /\ job'[a] = Idle
  BY <1>2, <1>3, <1>6 DEF Grade
<1>7. (\E q \in Requests : WritePatch(q) \/ WriteDelete(q)) \/ (\E a \in Actors : Grade(a))
  BY <1>4 DEF Next, vars, RequestStep, StartExam, StartHomework, BeginStart,
     SubmitExam, SubmitHomework, LoadSubmit, LoadPatch, LoadDelete, TaskStep, Scan,
     TakeNext, GradingStep, CreateSnapshot, Crash, WorldStep, ToggleRoom,
     ChangePaper, ToggleAvailable, EditQuestions, AttemptRunsOut, DeadlineMoves
<1>8. QED
  BY <1>1, <1>5, <1>6, <1>7 DEF Loading, Actors

\* A write to a graded row comes from a copy made before it was graded.
THEOREM OnlyStaleWrites == Spec => OnlyStaleCopiesTouchGraded
<1>1. IInv /\ [Next]_vars =>
        \A r \in RowIds :
          Stored(r) /\ rows[r].status = "GRADED" /\ rows'[r] # rows[r]
          => \E a \in Actors : /\ job[a].op \in {"grade", "patch", "delete"}
                               /\ job[a].sub.row = r
                               /\ job[a].sub.copy.status = "STARTED"
                               /\ job'[a] = Idle
  BY WriterHasStaleCopy
<1>2. QED
  BY <1>1, Safe, PTL DEF Spec, OnlyStaleCopiesTouchGraded

-----------------------------------------------------------------------------
(* Actors served one by one, a run of the task counting as one: every copy *)
(* in memory is the row as it stands.  A step that writes is made by the   *)
(* only actor that is busy, so what it makes stale is its own copy, which  *)
(* it drops; the other copies of a task's batch are of other rows.         *)

BatchIsCurrent ==
  \A w \in Workers :
    /\ \A sub \in batch[w] :
         /\ CurrentCopy(sub)
         /\ job[w].op \in Loading => job[w].sub.row # sub.row
    /\ \A x, y \in batch[w] : x.row = y.row => x = y

SerialInv == OneByOne /\ CopyIsCurrent /\ BatchIsCurrent

\* Loading a live attempt that is not graded gives a current copy, and so does
\* pointing it at another target.
LEMMA LoadIsCurrent ==
  ASSUME IInv, NEW r \in RowIds, Alive(r), rows[r].status # "GRADED"
  PROVE  /\ CurrentCopy(Load(r)) /\ Load(r).row = r
         /\ \A t \in Targets : CurrentCopy([Load(r) EXCEPT !.copy.target = t])
<1>1. /\ Load(r) \in Loaded /\ Load(r).row = r /\ Load(r).copy = rows[r]
      /\ Stored(r) /\ ImageOf(Load(r)) /\ rows[r] \in Row
  BY LoadImage DEF IInv, TypeInv, TypeOK, Stored
<1>2. rows[r].status = "STARTED"
  BY <1>1 DEF ImageOf, Clean
<1>3. CurrentCopy(Load(r))
  BY <1>1, <1>2 DEF CurrentCopy, Row
<1>4. ASSUME NEW t \in Targets
      PROVE  CurrentCopy([Load(r) EXCEPT !.copy.target = t])
  <2> DEFINE sub == [Load(r) EXCEPT !.copy.target = t]
  <2>1. sub.row = r /\ sub.copy = [rows[r] EXCEPT !.target = t]
    BY <1>1 DEF Loaded
  <2>2. sub.copy.status = "STARTED" /\ rows[r] = [sub.copy EXCEPT !.target = rows[r].target]
    BY <1>1, <1>2, <2>1 DEF Row
  <2> QED BY <2>1, <2>2 DEF CurrentCopy
<1> QED BY <1>1, <1>3, <1>4

\* Steps of one actor that write no row keep the copies current, if what the
\* actor holds afterwards is.
LEMMA ReadsKeepCurrent ==
  ASSUME IInv, SerialInv, rows' = rows, NEW a \in Actors, NEW j,
         job' = [job EXCEPT ![a] = j], j.op \in Loading => CurrentCopy(j.sub),
         \A w \in Workers \ {a} : batch'[w] = batch[w],
         a \in Workers =>
           /\ \A sub \in batch'[a] :
                /\ CurrentCopy(sub)
                /\ j.op \in Loading => j.sub.row # sub.row
           /\ \A x, y \in batch'[a] : x.row = y.row => x = y
  PROVE  CopyIsCurrent' /\ BatchIsCurrent'
<1>1. \A b \in Actors : job'[b] = IF b = a THEN j ELSE job[b]
  BY DEF IInv, TypeInv, TypeOK
<1>2. ASSUME NEW sub, CurrentCopy(sub) PROVE CurrentCopy(sub)'
  BY <1>2 DEF CurrentCopy, Alive, Stored
<1>3. CopyIsCurrent'
  BY <1>1, <1>2 DEF SerialInv, CopyIsCurrent, Loading
<1>4. ASSUME NEW w \in Workers
      PROVE  /\ \A sub \in batch'[w] :
                  /\ CurrentCopy(sub)'
                  /\ job'[w].op \in Loading => job'[w].sub.row # sub.row
             /\ \A x, y \in batch'[w] : x.row = y.row => x = y
  <2>1. w \in Actors
    BY DEF Actors
  <2> QED BY <1>1, <1>2, <2>1 DEF SerialInv, BatchIsCurrent
<1> QED BY <1>3, <1>4 DEF BatchIsCurrent

\* A write to the row of the busy actor's copy makes no other copy stale.
LEMMA WritesKeepCurrent ==
  ASSUME IInv, SerialInv, NEW a \in Actors, job[a].op # "idle",
         \A r \in RowIds \ {job[a].sub.row} : rows'[r] = rows[r],
         job' = [job EXCEPT ![a] = Idle], batch' = batch,
         job[a].op \notin Loading => a \notin Workers
  PROVE  CopyIsCurrent' /\ BatchIsCurrent'
<1>1. \A b \in Actors : job'[b] = IF b = a THEN Idle ELSE job[b]
  BY DEF IInv, TypeInv, TypeOK
<1>2. \A b \in Actors \ {a} : ~Busy(b)
  BY IdleIsJob DEF SerialInv, OneByOne, Busy
<1>3. CopyIsCurrent'
  BY <1>1, <1>2, IdleIsJob DEF CopyIsCurrent, Busy
<1>4. ASSUME NEW w \in Workers
      PROVE  /\ \A sub \in batch'[w] :
                  /\ CurrentCopy(sub)'
                  /\ job'[w].op \in Loading => job'[w].sub.row # sub.row
             /\ \A x, y \in batch'[w] : x.row = y.row => x = y
  <2>0. w \in Actors
    BY DEF Actors
  <2>1. CASE w # a
    BY <1>2, <2>0, <2>1 DEF Busy
  <2>2. CASE w = a
    <3>1. job[a].op \in Loading /\ job'[w].op \notin Loading
      BY <1>1, <2>0, <2>2, IdleIsJob DEF Loading
    <3>2. ASSUME NEW sub \in batch[w] PROVE CurrentCopy(sub)'
      <4>1. CurrentCopy(sub) /\ sub.row # job[a].sub.row /\ sub.row \in RowIds
        BY <2>2, <3>1, <3>2 DEF SerialInv, BatchIsCurrent, IInv, TypeInv, TypeOK, Loaded
      <4> QED BY <4>1 DEF CurrentCopy, Alive, Stored
    <3> QED BY <3>1, <3>2 DEF SerialInv, BatchIsCurrent
  <2> QED BY <2>1, <2>2
<1> QED BY <1>3, <1>4 DEF BatchIsCurrent

\* A request keeps what is loaded current.
LEMMA RequestCurrent ==
  ASSUME IInv, SerialInv, NEW q \in Requests, RequestStep(q)
  PROVE  CopyIsCurrent' /\ BatchIsCurrent'
<1>0. q \in Actors /\ q \notin Workers
  BY ActorsAssumption DEF Actors
<1>1. ASSUME NEW j, rows' = rows, batch' = batch, job' = [job EXCEPT ![q] = j],
             j.op \in Loading => CurrentCopy(j.sub)
      PROVE  CopyIsCurrent' /\ BatchIsCurrent'
  BY <1>0, <1>1, ReadsKeepCurrent
<1>2. ASSUME NEW r \in RowIds, NEW row, NEW paper, BeginStart(q, r, row, paper)
      PROVE  CopyIsCurrent' /\ BatchIsCurrent'
  <2> DEFINE j == [Idle EXCEPT !.op = "start",
                     !.sub = [row |-> r, copy |-> row, paper |-> paper]]
  <2>1. j.op \notin Loading
    BY DEF Idle, Loading
  <2>2. rows' = rows /\ batch' = batch /\ job' = [job EXCEPT ![q] = j]
    BY <1>2 DEF BeginStart
  <2> HIDE DEF j
  <2> QED BY <1>1, <2>1, <2>2
<1>3. ASSUME NEW r \in RowIds, NEW a \in Answers, LoadSubmit(q, r, a)
      PROVE  CopyIsCurrent' /\ BatchIsCurrent'
  <2> DEFINE j == [Idle EXCEPT !.op = "submit", !.sub = Load(r), !.answers = a]
  <2>1. Alive(r) /\ rows[r].status # "GRADED"
    BY <1>3 DEF LoadSubmit, Submittable
  <2>2. rows' = rows /\ batch' = batch /\ job' = [job EXCEPT ![q] = j]
    BY <1>3 DEF LoadSubmit
  <2>3. j.sub = Load(r)
    BY DEF Idle
  <2>4. CurrentCopy(j.sub)
    BY <2>1, <2>3, LoadIsCurrent
  <2> HIDE DEF j
  <2> QED BY <1>1, <2>2, <2>4
<1>4. ASSUME NEW r \in RowIds, NEW t \in Targets, LoadPatch(q, r, t)
      PROVE  CopyIsCurrent' /\ BatchIsCurrent'
  <2> DEFINE j == [Idle EXCEPT !.op = "patch", !.sub = [Load(r) EXCEPT !.copy.target = t]]
  <2>1. Alive(r) /\ rows[r].status # "GRADED"
    BY <1>4 DEF LoadPatch, Editable
  <2>2. rows' = rows /\ batch' = batch /\ job' = [job EXCEPT ![q] = j]
    BY <1>4 DEF LoadPatch
  <2>3. j.sub = [Load(r) EXCEPT !.copy.target = t]
    BY DEF Idle
  <2>4. CurrentCopy(j.sub)
    BY <2>1, <2>3, LoadIsCurrent
  <2> HIDE DEF j
  <2> QED BY <1>1, <2>2, <2>4
<1>5. ASSUME NEW r \in RowIds, LoadDelete(q, r)
      PROVE  CopyIsCurrent' /\ BatchIsCurrent'
  <2> DEFINE j == [Idle EXCEPT !.op = "delete", !.sub = Load(r)]
  <2>1. Alive(r) /\ rows[r].status # "GRADED"
    BY <1>5 DEF LoadDelete, Editable
  <2>2. rows' = rows /\ batch' = batch /\ job' = [job EXCEPT ![q] = j]
    BY <1>5 DEF LoadDelete
  <2>3. j.sub = Load(r)
    BY DEF Idle
  <2>4. CurrentCopy(j.sub)
    BY <2>1, <2>3, LoadIsCurrent
  <2> HIDE DEF j
  <2> QED BY <1>1, <2>2, <2>4
<1>6. ASSUME Insert(q) \/ WritePatch(q) \/ WriteDelete(q)
      PROVE  CopyIsCurrent' /\ BatchIsCurrent'
  <2>1. job[q].op # "idle" /\ job' = [job EXCEPT ![q] = Idle] /\ batch' = batch
    BY <1>6 DEF Insert, WritePatch, WriteDelete
  <2>2. \A r \in RowIds \ {job[q].sub.row} : rows'[r] = rows[r]
    BY <1>6 DEF Insert, WritePatch, WriteDelete, IInv, TypeInv, TypeOK
  <2> QED BY <1>0, <2>1, <2>2, WritesKeepCurrent
<1> QED
  BY <1>2, <1>3, <1>4, <1>5, <1>6
     DEF RequestStep, StartExam, StartHomework, SubmitExam, SubmitHomework

\* So do the task, the gradings and the killing of processes.
LEMMA TaskCurrent ==
  ASSUME IInv, SerialInv, NEW a \in Actors,
         (a \in Workers /\ TaskStep(a)) \/ GradingStep(a) \/ Crash(a)
  PROVE  CopyIsCurrent' /\ BatchIsCurrent'
<1>0. job \in [Actors -> Job] /\ batch \in [Workers -> SUBSET Loaded]
  BY DEF IInv, TypeInv, TypeOK
<1>1. ASSUME a \in Workers, Scan(a)
      PROVE  CopyIsCurrent' /\ BatchIsCurrent'
  <2>1. /\ rows' = rows /\ job[a] = Idle
        /\ batch' = [batch EXCEPT ![a] = {Load(r) : r \in {x \in RowIds : Stuck(x)}}]
        /\ job' = [job EXCEPT ![a] = Idle]
    BY <1>0, <1>1 DEF Scan
  <2>2. batch'[a] = {Load(r) : r \in {x \in RowIds : Stuck(x)}}
    BY <1>0, <1>1, <2>1
  <2>3. \A w \in Workers \ {a} : batch'[w] = batch[w]
    BY <1>0, <2>1
  <2>4. ASSUME NEW r \in RowIds, Stuck(r) PROVE CurrentCopy(Load(r)) /\ Load(r).row = r
    BY <2>4, LoadIsCurrent DEF Stuck
  <2>5. \A sub \in batch'[a] : CurrentCopy(sub)
    BY <2>2, <2>4
  <2>6. \A x, y \in batch'[a] : x.row = y.row => x = y
    BY <2>2, <2>4
  <2>7. Idle.op \notin Loading
    BY DEF Idle, Loading
  <2> QED BY <2>1, <2>3, <2>5, <2>6, <2>7, ReadsKeepCurrent
<1>2. ASSUME a \in Workers, TakeNext(a)
      PROVE  CopyIsCurrent' /\ BatchIsCurrent'
  <2>1. PICK sub \in batch[a] :
          /\ rows' = rows
          /\ job' = [job EXCEPT ![a] = [Idle EXCEPT !.op = "submit", !.sub = sub]]
          /\ batch' = [batch EXCEPT ![a] = @ \ {sub}]
    BY <1>2 DEF TakeNext
  <2> DEFINE j == [Idle EXCEPT !.op = "submit", !.sub = sub]
  <2>2. j.sub = sub /\ job' = [job EXCEPT ![a] = j]
    BY <2>1 DEF Idle
  <2>3. batch'[a] = batch[a] \ {sub} /\ \A w \in Workers \ {a} : batch'[w] = batch[w]
    BY <1>0, <1>2, <2>1
  <2>4. /\ \A x \in batch[a] : CurrentCopy(x)
        /\ \A x, y \in batch[a] : x.row = y.row => x = y
    BY <1>2 DEF SerialInv, BatchIsCurrent
  <2>5. \A x \in batch'[a] : CurrentCopy(x) /\ j.sub.row # x.row
    BY <2>2, <2>3, <2>4
  <2>6. \A x, y \in batch'[a] : x.row = y.row => x = y
    BY <2>3, <2>4
  <2>7. CurrentCopy(j.sub)
    BY <2>2, <2>4
  <2>8. rows' = rows /\ job' = [job EXCEPT ![a] = j] /\ \A w \in Workers \ {a} : batch'[w] = batch[w]
    BY <2>1, <2>2, <2>3
  <2> HIDE DEF j
  <2> QED BY <2>5, <2>6, <2>7, <2>8, ReadsKeepCurrent
<1>3. ASSUME CreateSnapshot(a)
      PROVE  CopyIsCurrent' /\ BatchIsCurrent'
  <2> DEFINE j == [job[a] EXCEPT !.op = "grade",
                     !.snap = [paper |-> job[a].sub.paper,
                               version |-> version[job[a].sub.paper]]]
  <2>1. rows' = rows /\ batch' = batch /\ job' = [job EXCEPT ![a] = j]
    BY <1>0, <1>3 DEF CreateSnapshot
  <2>2. j.sub = job[a].sub /\ job[a].op \in Loading
    BY <1>0, <1>3 DEF CreateSnapshot, Job, Loading
  <2>3. CurrentCopy(j.sub)
    BY <1>3, <2>2 DEF SerialInv, CopyIsCurrent, CreateSnapshot
  <2> HIDE DEF j
  <2>4. a \in Workers =>
          /\ \A sub \in batch'[a] :
               /\ CurrentCopy(sub)
               /\ j.op \in Loading => j.sub.row # sub.row
          /\ \A x, y \in batch'[a] : x.row = y.row => x = y
    BY <2>1, <2>2 DEF SerialInv, BatchIsCurrent
  <2> QED BY <2>1, <2>3, <2>4, ReadsKeepCurrent
<1>4. ASSUME Grade(a)
      PROVE  CopyIsCurrent' /\ BatchIsCurrent'
  <2>1. /\ job[a].op = "grade" /\ job' = [job EXCEPT ![a] = Idle] /\ batch' = batch
        /\ \A r \in RowIds \ {job[a].sub.row} : rows'[r] = rows[r]
    BY <1>4 DEF Grade, IInv, TypeInv, TypeOK
  <2> QED BY <2>1, WritesKeepCurrent DEF Loading
<1>5. ASSUME Crash(a)
      PROVE  CopyIsCurrent' /\ BatchIsCurrent'
  <2>1. /\ rows' = rows /\ job' = [job EXCEPT ![a] = Idle]
        /\ \A w \in Workers : batch'[w] = IF w = a THEN {} ELSE batch[w]
    BY <1>5 DEF Crash
  <2>2. Idle.op \notin Loading
    BY DEF Idle, Loading
  <2> QED BY <2>1, <2>2, ReadsKeepCurrent
<1> QED
  BY <1>1, <1>2, <1>3, <1>4, <1>5 DEF TaskStep, GradingStep

LEMMA SerialCopies ==
  ASSUME IInv, SerialInv, [Next]_vars, OneByOne'
  PROVE  SerialInv'
<1>1. ASSUME UNCHANGED <<rows, job, batch>> PROVE CopyIsCurrent' /\ BatchIsCurrent'
  BY <1>1 DEF SerialInv, CopyIsCurrent, BatchIsCurrent, CurrentCopy, Alive, Stored
<1>2. ASSUME WorldStep PROVE UNCHANGED <<rows, job, batch>>
  BY <1>2 DEF WorldStep, ToggleRoom, ChangePaper, ToggleAvailable, EditQuestions,
              AttemptRunsOut, DeadlineMoves, world
<1>3. ASSUME NEW w \in Workers, TaskStep(w) PROVE CopyIsCurrent' /\ BatchIsCurrent'
  BY <1>3, TaskCurrent DEF Actors
<1>4. CopyIsCurrent' /\ BatchIsCurrent'
  BY <1>1, <1>2, <1>3, RequestCurrent, TaskCurrent DEF Next, vars
<1> QED BY <1>4 DEF SerialInv

LEMMA SerialSafe == LoadSpec => [](IInv /\ (Serially => SerialInv))
<1>1. LoadInit => Init /\ SerialInv
  BY IdleIsJob DEF LoadInit, Init, SerialInv, OneByOne, Busy, CopyIsCurrent, BatchIsCurrent
<1>2. [LoadNext]_loadVars => [Next]_vars /\ (Serially' => Serially)
  BY DEF LoadNext, loadVars, Serially
<1>3. IInv /\ (Serially => SerialInv) /\ [LoadNext]_loadVars => (Serially => SerialInv)'
  <2> SUFFICES ASSUME IInv, SerialInv, Serially, Serially', [LoadNext]_loadVars
               PROVE  SerialInv'
    BY <1>2
  <2>1. CASE LoadNext
    BY <1>2, <2>1, SerialCopies DEF LoadNext
  <2>2. CASE UNCHANGED loadVars
    BY <2>2 DEF loadVars, vars, SerialInv, OneByOne, Busy, CopyIsCurrent, BatchIsCurrent,
                CurrentCopy, Alive, Stored
  <2> QED BY <2>1, <2>2
<1> QED BY <1>1, <1>2, <1>3, InitSafe, NextSafe, PTL DEF LoadSpec

\* Served one by one, requests and tasks write from current copies.
THEOREM SerialCopiesCurrent == LoadSpec => []SerialCopyIsCurrent
<1>1. IInv /\ (Serially => SerialInv) => SerialCopyIsCurrent
  BY DEF SerialInv, SerialCopyIsCurrent
<1> QED BY <1>1, SerialSafe, PTL

\* Served one by one, they never change a graded row.
THEOREM SerialGradedImmutable == LoadSpec => SerialGradedStays
<1>1. IInv /\ (Serially => SerialInv) /\ [LoadNext]_loadVars =>
        [Serially => \A r \in RowIds :
           Stored(r) /\ rows[r].status = "GRADED" => rows'[r] = rows[r]]_loadVars
  <2> SUFFICES ASSUME IInv, SerialInv, [LoadNext]_loadVars, NEW r \in RowIds,
                      Stored(r), rows'[r] # rows[r]
               PROVE  rows[r].status # "GRADED"
    OBVIOUS
  <2>1. [Next]_vars
    BY DEF LoadNext, loadVars
  <2>2. PICK a \in Actors : /\ job[a].op \in {"grade", "patch", "delete"}
                           /\ job[a].sub.row = r
    BY <2>1, WriterHasStaleCopy
  <2>3. /\ rows[r] = [job[a].sub.copy EXCEPT !.target = rows[r].target]
        /\ job[a].sub.copy.status = "STARTED" /\ job[a].sub.copy \in Row
    BY <2>2, GradingFacts DEF SerialInv, CopyIsCurrent, CurrentCopy, Loading, Loaded
  <2> QED BY <2>3 DEF Row
<1> QED BY <1>1, SerialSafe, PTL DEF LoadSpec, SerialGradedStays

\* The phase and the outcome of an attempt by its row.
LEMMA RowPhase ==
  /\ Phase(None) = "absent" /\ OutcomeOf(None) = None
  /\ \A row \in Row :
       /\ row.deleted => Phase(row) = "withdrawn"
       /\ ~row.deleted /\ row.status = "GRADED" => Phase(row) = "final"
       /\ ~row.deleted /\ row.status = "STARTED" => Phase(row) = "open"
       /\ row.status = "STARTED" => OutcomeOf(row) = None
       /\ row.status = "GRADED"
            => OutcomeOf(row) = <<row.answers, row.results, row.snapshot>>
BY NullAssumption DEF Phase, OutcomeOf, Row

\* A write of one row moves that attempt's phase and outcome only.
LEMMA OneRowMoves ==
  ASSUME TypeOK, NEW r \in RowIds, NEW row \in Row, rows' = [rows EXCEPT ![r] = row]
  PROVE  /\ phases' = [phases EXCEPT ![r] = Phase(row)]
         /\ outcomes' = [outcomes EXCEPT ![r] = OutcomeOf(row)]
         /\ phases[r] = Phase(rows[r]) /\ outcomes[r] = OutcomeOf(rows[r])
BY DEF TypeOK, phases, outcomes

LEMMA SerialStep ==
  ASSUME Serially, Serially', IInv, IInv', CopyIsCurrent, NEW q \in Actors,
         rows' = rows \/ (q \in Requests /\ (Insert(q) \/ WriteDelete(q) \/ WritePatch(q)))
                      \/ Grade(q)
  PROVE  [SerialLifecycle!Next]_(SerialLifecycle!lifecycle)
<1> DEFINE r == job[q].sub.row
           copy == job[q].sub.copy
<1>1. TypeOK
  BY DEF IInv, TypeInv
<1>s. /\ seenPhases = phases /\ seenPhases' = phases'
      /\ seenOutcomes = outcomes /\ seenOutcomes' = outcomes'
  BY DEF seenPhases, seenOutcomes
<1>2. ASSUME rows' = rows
      PROVE  UNCHANGED SerialLifecycle!lifecycle
  BY <1>s, <1>2 DEF SerialLifecycle!lifecycle, phases, outcomes
<1>3. ASSUME NEW x \in RowIds, NEW row \in Row, rows' = [rows EXCEPT ![x] = row]
      PROVE  rows'[x] = row
  BY <1>1, <1>3 DEF TypeOK
\* What a request that loaded a row knows of it when it writes.
<1>4. ASSUME job[q].op \in Loading
      PROVE  /\ r \in RowIds /\ rows[r] \in Row /\ copy \in Row
             /\ rows[r] = [copy EXCEPT !.target = rows[r].target]
             /\ copy.status = "STARTED" /\ rows[r].status = "STARTED"
             /\ ~rows[r].deleted /\ ~copy.deleted
             /\ phases[r] = "open" /\ outcomes[r] = None
  <2>1. /\ r \in RowIds /\ rows[r] \in Row /\ copy \in Row
        /\ rows[r] = [copy EXCEPT !.target = rows[r].target]
        /\ copy.status = "STARTED" /\ ~rows[r].deleted
    BY <1>4, GradingFacts DEF Loading, CopyIsCurrent, CurrentCopy, Alive, Loaded
  <2>2. rows[r].status = "STARTED" /\ ~copy.deleted
    BY <2>1 DEF Row
  <2>3. phases[r] = Phase(rows[r]) /\ outcomes[r] = OutcomeOf(rows[r])
    BY <2>1 DEF phases, outcomes
  <2>4. QED BY <2>1, <2>2, <2>3, RowPhase
<1>5. ASSUME Insert(q), rows' # rows
      PROVE  \E x \in RowIds : SerialLifecycle!Open(x)
  <2>1. r \in RowIds /\ copy \in Row /\ Clean(copy) /\ rows[r] = None
    BY <1>1, <1>5 DEF Insert, TypeOK, Loaded, IInv, SafeCopies, SafeJob, Stored
  <2>2. rows' = [rows EXCEPT ![r] = copy]
    BY <1>5 DEF Insert
  <2>3. phases[r] = "absent" /\ outcomes[r] = None
    BY <2>1, RowPhase DEF phases, outcomes
  <2>4. Phase(copy) = "open" /\ OutcomeOf(copy) = None
    BY <2>1, RowPhase DEF Clean
  <2> HIDE DEF r, copy
  <2>5. /\ phases' = [phases EXCEPT ![r] = Phase(copy)]
        /\ outcomes' = [outcomes EXCEPT ![r] = OutcomeOf(copy)]
    BY <1>1, <2>1, <2>2, OneRowMoves
  <2>6. /\ phases' = [phases EXCEPT ![r] = "open"]
        /\ outcomes' = [outcomes EXCEPT ![r] = None]
    BY <2>4, <2>5
  <2>7. outcomes' = outcomes
    BY <2>3, <2>6 DEF outcomes
  <2>8. QED
    BY <1>s, <2>1, <2>3, <2>6, <2>7 DEF SerialLifecycle!Open, SerialLifecycle!Move
<1>6. ASSUME Grade(q), rows' # rows
      PROVE  \E x \in RowIds : SerialLifecycle!Finish(x)
  <2> DEFINE row == Graded(rows[r], job[q])
  <2>1. /\ r \in RowIds /\ rows[r] \in Row /\ ~rows[r].deleted
        /\ phases[r] = "open"
    BY <1>4, <1>6 DEF Grade, Loading
  <2>2. row \in Row /\ row.status = "GRADED" /\ row.deleted = rows[r].deleted
    BY <1>6, <2>1, GradedType DEF Grade, IInv, Graded, Row
  <2>3. rows' = [rows EXCEPT ![r] = row]
    BY <1>6 DEF Grade
  <2>4. Whole(row)
    BY <1>3, <2>1, <2>2, <2>3, NullAssumption DEF IInv, GradedWhole, Stored
  <2>5. /\ Phase(row) = "final"
        /\ OutcomeOf(row) = <<row.answers, row.results, row.snapshot>>
    BY <2>1, <2>2, RowPhase
  <2>6. <<row.answers, row.results, row.snapshot>>
          \in (Answers \cup {NoAnswers}) \X Results \X Snapshots
    BY <2>2, <2>4 DEF Whole, Row
  <2>7. /\ phases' = [phases EXCEPT ![r] = "final"]
        /\ outcomes' = [outcomes EXCEPT ![r] = OutcomeOf(row)]
    BY <1>1, <2>1, <2>2, <2>3, <2>5, OneRowMoves
  <2>8. QED
    BY <1>s, <2>1, <2>5, <2>6, <2>7 DEF SerialLifecycle!Finish, SerialLifecycle!Move
<1>7. ASSUME WriteDelete(q), rows' # rows
      PROVE  \E x \in RowIds : SerialLifecycle!Withdraw(x)
  <2> DEFINE row == [rows[r] EXCEPT !.deleted = TRUE]
  <2>1. /\ r \in RowIds /\ rows[r] \in Row /\ rows[r].status = "STARTED"
        /\ phases[r] = "open" /\ outcomes[r] = None
    BY <1>4, <1>7 DEF WriteDelete, Loading
  <2>2. row \in Row /\ row.deleted /\ row.status = "STARTED"
    BY <2>1 DEF Row
  <2>3. rows' = [rows EXCEPT ![r] = row]
    BY <1>7 DEF WriteDelete
  <2>4. Phase(row) = "withdrawn" /\ OutcomeOf(row) = None
    BY <2>2, RowPhase
  <2>5. /\ phases' = [phases EXCEPT ![r] = "withdrawn"]
        /\ outcomes' = [outcomes EXCEPT ![r] = None]
    BY <1>1, <2>1, <2>2, <2>3, <2>4, OneRowMoves
  <2>6. outcomes' = outcomes
    BY <2>1, <2>5 DEF outcomes
  <2>7. QED
    BY <1>s, <2>1, <2>5, <2>6 DEF SerialLifecycle!Withdraw, SerialLifecycle!Move
<1>8. ASSUME WritePatch(q), rows' # rows
      PROVE  UNCHANGED SerialLifecycle!lifecycle
  <2>1. /\ r \in RowIds /\ copy \in Row /\ copy.status = "STARTED" /\ ~copy.deleted
        /\ phases[r] = "open" /\ outcomes[r] = None
    BY <1>4, <1>8 DEF WritePatch, Loading
  <2>2. rows' = [rows EXCEPT ![r] = copy]
    BY <1>8 DEF WritePatch, Patched
  <2> HIDE DEF r, copy
  <2>3. /\ phases' = [phases EXCEPT ![r] = Phase(copy)]
        /\ outcomes' = [outcomes EXCEPT ![r] = OutcomeOf(copy)]
    BY <1>1, <2>1, <2>2, OneRowMoves
  <2>4. Phase(copy) = "open" /\ OutcomeOf(copy) = None
    BY <2>1, RowPhase
  <2>5. QED
    BY <1>s, <2>1, <2>3, <2>4 DEF SerialLifecycle!lifecycle, phases, outcomes
<1>10. QED
  BY <1>2, <1>5, <1>6, <1>7, <1>8 DEF SerialLifecycle!Next

\* Served one by one, requests and tasks on an attempt implement its abstract
\* life: opened once, then finished for good or withdrawn.
THEOREM SerialKeepsLifecycle == LoadSpec => SerialLifecycleKept
<1>1. LoadInit => SerialLifecycle!Init
  BY RowPhase DEF LoadInit, Init, SerialLifecycle!Init, seenPhases, seenOutcomes,
                  phases, outcomes
<1>2. IInv /\ IInv' /\ (Serially => SerialInv) /\ [LoadNext]_loadVars
        => [SerialLifecycle!Next]_(SerialLifecycle!lifecycle)
  <2> SUFFICES ASSUME IInv, IInv', Serially => SerialInv, [LoadNext]_loadVars
               PROVE  [SerialLifecycle!Next]_(SerialLifecycle!lifecycle)
    OBVIOUS
  <2>0. [Next]_vars /\ load' = load
    BY DEF LoadNext, loadVars
  <2>1. CASE ~Serially
    BY <2>0, <2>1 DEF SerialLifecycle!lifecycle, seenPhases, seenOutcomes, Serially
  <2>2. CASE Serially
    <3>1. Serially' /\ CopyIsCurrent
      BY <2>0, <2>2 DEF Serially, SerialInv
    <3>2. \/ rows' = rows
          \/ \E q \in Requests : Insert(q) \/ WriteDelete(q) \/ WritePatch(q)
          \/ \E a \in Actors : Grade(a)
      BY <2>0 DEF Next, vars, RequestStep, StartExam, StartHomework, BeginStart,
         SubmitExam, SubmitHomework, LoadSubmit, LoadPatch, LoadDelete, TaskStep, Scan,
         TakeNext, GradingStep, CreateSnapshot, Crash, WorldStep, ToggleRoom,
         ChangePaper, ToggleAvailable, EditQuestions, AttemptRunsOut, DeadlineMoves
    <3>3. CASE rows' = rows
      <4>1. UNCHANGED <<seenPhases, seenOutcomes>>
        BY <2>2, <3>1, <3>3 DEF seenPhases, seenOutcomes, phases, outcomes
      <4> QED BY <4>1 DEF SerialLifecycle!lifecycle
    <3>4. ASSUME NEW q \in Requests, Insert(q) \/ WriteDelete(q) \/ WritePatch(q)
          PROVE  [SerialLifecycle!Next]_(SerialLifecycle!lifecycle)
      <4>1. q \in Actors
        BY DEF Actors
      <4> QED BY <2>2, <3>1, <3>4, <4>1, SerialStep
    <3>5. ASSUME NEW a \in Actors, Grade(a)
          PROVE  [SerialLifecycle!Next]_(SerialLifecycle!lifecycle)
      BY <2>2, <3>1, <3>5, SerialStep
    <3> QED BY <3>2, <3>3, <3>4, <3>5
  <2> QED BY <2>1, <2>2
<1>3. LoadSpec => SerialLifecycle!Spec
  BY <1>1, <1>2, SerialSafe, PTL DEF LoadSpec, SerialLifecycle!Spec
<1> QED BY <1>3 DEF SerialLifecycleKept
=============================================================================
