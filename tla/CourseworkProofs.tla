-------------------------- MODULE CourseworkProofs --------------------------
(***************************************************************************)
(* Theorems about the work that students are given and what it earns them: *)
(* about Assignments, for any number of groups, users, requests and loads, *)
(* and about Grading, for every paper, every number of questions and       *)
(* edits.                                                                  *)
(***************************************************************************)
EXTENDS Assignments, Grading, Sums, TLAPS

-----------------------------------------------------------------------------
(* Types.                                                                  *)

Jobs == {Idle} \cup Messengers \cup ExamEdits \cup HomeworkEdits

LEMMA StudentsAreMembers ==
  ASSUME TypeOK, NEW gs
  PROVE  StudentsOf(gs) \subseteq Students
BY DEF TypeOK, StudentsOf

LEMMA NoticesAreTyped ==
  /\ \A us \in SUBSET Students :
       /\ \A t \in {"EXAM_OPENED", "EXAM_UPDATED", "EXAM_CLOSING_SOON"} :
            Notice(us, t, "exam") \subseteq Notices
       /\ \A t \in {"HOMEWORK_UPDATED", "HOMEWORK_DEADLINE_CHANGED",
                    "DEADLINE_APPROACHING", "SUBMISSION_GRADED"} :
            Notice(us, t, "homework") \subseteq Notices
       /\ \A g \in Groups : Notice(us, "GROUP_ADDED", g) \subseteq Notices
  /\ \A us \in SUBSET Teachers, g \in Groups :
       Notice(us, "STUDENT_JOINED_GROUP", g) \subseteq Notices
  /\ Notice(Admins, "MOCK_TEST_PUBLISHED", "mock test") \subseteq Notices
<1>1. ASSUME NEW us \in SUBSET Students,
             NEW t \in {"EXAM_OPENED", "EXAM_UPDATED", "EXAM_CLOSING_SOON"}
      PROVE  Notice(us, t, "exam") \subseteq Notices
  BY DEF Notice, Notices, ToStudents
<1>2. ASSUME NEW us \in SUBSET Students,
             NEW t \in {"HOMEWORK_UPDATED", "HOMEWORK_DEADLINE_CHANGED",
                        "DEADLINE_APPROACHING", "SUBMISSION_GRADED"}
      PROVE  Notice(us, t, "homework") \subseteq Notices
  BY DEF Notice, Notices, ToStudents
<1>3. ASSUME NEW us \in SUBSET Students, NEW g \in Groups
      PROVE  Notice(us, "GROUP_ADDED", g) \subseteq Notices
  BY DEF Notice, Notices, ToStudents
<1>4. ASSUME NEW us \in SUBSET Teachers, NEW g \in Groups
      PROVE  Notice(us, "STUDENT_JOINED_GROUP", g) \subseteq Notices
  <2>1. \A u \in Teachers : [to |-> u, type |-> "STUDENT_JOINED_GROUP", about |-> g] \in ToStaff
    BY DEF ToStaff
  <2> QED BY <2>1 DEF Notice, Notices
<1>5. Notice(Admins, "MOCK_TEST_PUBLISHED", "mock test") \subseteq Notices
  <2>1. \A u \in Admins :
           [to |-> u, type |-> "MOCK_TEST_PUBLISHED", about |-> "mock test"] \in ToStaff
    BY DEF ToStaff
  <2> QED BY <2>1 DEF Notice, Notices
<1> QED BY <1>1, <1>2, <1>3, <1>4, <1>5

LEMMA NotYetIsSubset == \A ns : NotYet(ns) \subseteq ns
BY DEF NotYet

LEMMA ExamNoticesAreTyped ==
  ASSUME TypeOK, NEW prev, NEW row
  PROVE  ExamNotices(prev, row) \subseteq Notices
<1>1. StudentsOf(AliveGroups("exam")) \subseteq Students
  BY StudentsAreMembers
<1> QED BY <1>1, NoticesAreTyped, NotYetIsSubset DEF ExamNotices

LEMMA TargetsAreStudents ==
  ASSUME TypeOK, NEW users \in SUBSET Students
  PROVE  Targets(users) \subseteq Students
BY StudentsAreMembers DEF Targets

LEMMA HomeworkNoticesAreTyped ==
  ASSUME TypeOK, NEW prev, NEW row \in HomeworkRow
  PROVE  HomeworkNotices(prev, row) \subseteq Notices
<1>1. Targets(row.users) \subseteq Students
  BY TargetsAreStudents DEF HomeworkRow
<1> QED BY <1>1, NoticesAreTyped DEF HomeworkNotices

\* What a job is, by what it is about and by its step.
LEMMA JobKinds ==
  ASSUME TypeOK, NEW q \in Requests
  PROVE  /\ req[q] \in Jobs
         /\ req[q].op = "idle" => req[q] = Idle
         /\ req[q].op # "idle" => req[q] # Idle /\ req[q].on \in {"exam", "homework", "nothing"}
         /\ req[q].op # "idle" /\ req[q].on = "exam" => req[q] \in ExamEdits
         /\ req[q].op # "idle" /\ req[q].on = "homework" => req[q] \in HomeworkEdits
         /\ req[q].op # "idle" /\ req[q].on = "nothing" => req[q] \in Messengers
<1>1. req[q] \in Jobs
  BY DEF TypeOK, Jobs
<1>2. CASE req[q] = Idle
  BY <1>1, <1>2 DEF Idle
<1>3. CASE req[q] \in Messengers
  <2>1. req[q].op = "send" /\ req[q].on = "nothing"
    BY <1>3 DEF Messengers
  <2> QED BY <1>1, <1>3, <2>1 DEF Idle
<1>4. CASE req[q] \in ExamEdits
  <2>1. req[q].op \in Steps /\ req[q].on = "exam"
    BY <1>4 DEF ExamEdits
  <2> QED BY <1>1, <1>4, <2>1 DEF Idle, Steps
<1>5. CASE req[q] \in HomeworkEdits
  <2>1. req[q].op \in Steps /\ req[q].on = "homework"
    BY <1>5 DEF HomeworkEdits
  <2> QED BY <1>1, <1>5, <2>1 DEF Idle, Steps
<1> QED BY <1>1, <1>2, <1>3, <1>4, <1>5 DEF Jobs

LEMMA JobFields ==
  /\ Idle.op = "idle"
  /\ \A to : Telling(to).op = "send" /\ Telling(to).on = "nothing" /\ Telling(to).to = to
  /\ \A on, row, gs, us : LET j == EditOf(on, row, gs, us) IN
       /\ j.op = "presave" /\ j.on = on /\ j.row = row /\ j.groups = gs /\ j.users = us
       /\ j.second = FALSE
BY DEF Idle, Telling, EditOf

LEMMA TellingIsAJob ==
  \A to \in SUBSET Notices : Telling(to) \in Messengers
BY DEF Telling, Messengers

\* What the steps of a request make of its job, field by field.
LEMMA EditIsAJob ==
  ASSUME TypeOK, NEW gs \in SUBSET Groups
  PROVE  /\ \A row \in ExamRow : EditOf("exam", row, gs, {}) \in ExamEdits
         /\ \A row \in HomeworkRow, us \in SUBSET Students :
              EditOf("homework", row, gs, us) \in HomeworkEdits
BY DEF TypeOK, EditOf, RowOf, ExamEdits, HomeworkEdits, Steps

-----------------------------------------------------------------------------
(* What a step does to the job it belongs to; the jobs of the others stay. *)

OthersStay(q) == \A r \in Requests \ {q} : req'[r] = req[r]

LEMMA PresaveDoes ==
  ASSUME TypeOK, NEW q \in Requests, Presave(q)
  PROVE  /\ OthersStay(q) /\ req' \in [Requests -> Jobs]
         /\ req[q].op = "presave" /\ req'[q].op = "save" /\ req'[q].on = req[q].on
         /\ req'[q].prev = RowOf(req[q].on) /\ req'[q].row = req[q].row
         /\ req'[q].groups = req[q].groups /\ req'[q].users = req[q].users
         /\ req'[q].second = req[q].second
<1>1. req[q].op = "presave" /\ req \in [Requests -> Jobs]
  BY DEF Presave, TypeOK, Jobs
<1>2. req' = [req EXCEPT ![q] = [req[q] EXCEPT !.op = "save", !.prev = RowOf(req[q].on)]]
  BY DEF Presave
<1>3. req[q] \in ExamEdits \cup HomeworkEdits
  BY <1>1, JobKinds DEF Messengers
<1> DEFINE j == [req[q] EXCEPT !.op = "save", !.prev = RowOf(req[q].on)]
<1>4. /\ j.op = "save" /\ j.on = req[q].on /\ j.prev = RowOf(req[q].on) /\ j.row = req[q].row
      /\ j.groups = req[q].groups /\ j.users = req[q].users /\ j.second = req[q].second
      /\ j \in ExamEdits \cup HomeworkEdits
  BY <1>3 DEF ExamEdits, HomeworkEdits, Steps, RowOf, TypeOK
<1> HIDE DEF j
<1>5. req' = [req EXCEPT ![q] = j]
  BY <1>2 DEF j
<1> QED BY <1>1, <1>4, <1>5 DEF OthersStay, Jobs

LEMMA SaveDoes ==
  ASSUME TypeOK, NEW q \in Requests, Save(q)
  PROVE  /\ OthersStay(q) /\ req' \in [Requests -> Jobs]
         /\ req[q].op = "save" /\ req'[q].op = "tell" /\ req'[q].on = req[q].on
         /\ req'[q].prev = req[q].prev /\ req'[q].row = req[q].row
         /\ req'[q].groups = req[q].groups /\ req'[q].users = req[q].users
         /\ req'[q].second = req[q].second
         /\ exam' \in ExamRow /\ homework' \in HomeworkRow
         /\ req[q].on = "exam" => exam' = req[q].row /\ homework' = homework
         /\ req[q].on = "homework" =>
              /\ exam' = exam
              /\ req[q].second => homework'.users = req[q].users
              /\ ~req[q].second => homework' = req[q].row
<1>1. req[q].op = "save" /\ req \in [Requests -> Jobs]
  BY DEF Save, TypeOK, Jobs
<1>2. req' = [req EXCEPT ![q] = [req[q] EXCEPT !.op = "tell"]]
  BY DEF Save
<1>3. req[q] \in ExamEdits \cup HomeworkEdits
  BY <1>1, JobKinds DEF Messengers
<1> DEFINE j == [req[q] EXCEPT !.op = "tell"]
<1>4. /\ j.op = "tell" /\ j.on = req[q].on /\ j.prev = req[q].prev /\ j.row = req[q].row
      /\ j.groups = req[q].groups /\ j.users = req[q].users /\ j.second = req[q].second
      /\ j \in ExamEdits \cup HomeworkEdits
  BY <1>3 DEF ExamEdits, HomeworkEdits, Steps
<1> HIDE DEF j
<1>5. req' = [req EXCEPT ![q] = j]
  BY <1>2 DEF j
<1>6. CASE req[q] \in ExamEdits
  <2>1. exam' = req[q].row /\ homework' = homework /\ req[q].on = "exam"
        /\ req[q].row \in ExamRow
    BY <1>6 DEF Save, ExamEdits
  <2> QED BY <1>1, <1>4, <1>5, <2>1 DEF OthersStay, Jobs, TypeOK
<1>7. CASE req[q] \in HomeworkEdits
  <2>1. /\ exam' = exam /\ req[q].on = "homework" /\ req[q].row \in HomeworkRow
        /\ req[q].users \in SUBSET Students
        /\ homework' = IF req[q].second THEN [homework EXCEPT !.users = req[q].users]
                       ELSE req[q].row
    BY <1>7 DEF Save, HomeworkEdits
  <2>2. homework \in HomeworkRow
    BY DEF TypeOK
  <2>3. homework' \in HomeworkRow /\ (req[q].second => homework'.users = req[q].users)
        /\ (~req[q].second => homework' = req[q].row)
    BY <2>1, <2>2 DEF HomeworkRow
  <2> QED BY <1>1, <1>4, <1>5, <2>1, <2>3 DEF OthersStay, Jobs, TypeOK
<1> QED BY <1>3, <1>6, <1>7

LEMMA TellDoes ==
  ASSUME TypeOK, NEW q \in Requests, Tell(q)
  PROVE  /\ OthersStay(q) /\ req' \in [Requests -> Jobs]
         /\ req[q].op = "tell" /\ req'[q].op = "send" /\ req'[q].on = req[q].on
         /\ req[q].on = "exam" => req'[q].to = ExamNotices(req[q].prev, req[q].row)
         /\ req[q].on = "homework" => req'[q].to = HomeworkNotices(req[q].prev, req[q].row)
         /\ req[q].on \in {"exam", "homework"}
         /\ req'[q].row = req[q].row
         /\ req'[q].groups = req[q].groups /\ req'[q].users = req[q].users
         /\ req'[q].second = req[q].second
<1>1. req[q].op = "tell" /\ req \in [Requests -> Jobs]
  BY DEF Tell, TypeOK, Jobs
<1> DEFINE to == IF req[q].on = "exam" THEN ExamNotices(req[q].prev, req[q].row)
                 ELSE HomeworkNotices(req[q].prev, req[q].row)
           j == [req[q] EXCEPT !.op = "send", !.to = to]
<1>2. req' = [req EXCEPT ![q] = j]
  BY DEF Tell
<1>3. req[q] \in ExamEdits \cup HomeworkEdits
  BY <1>1, JobKinds DEF Messengers
<1>4. to \in SUBSET Notices
  <2>1. CASE req[q] \in ExamEdits
    BY <2>1, ExamNoticesAreTyped DEF ExamEdits
  <2>2. CASE req[q] \in HomeworkEdits
    BY <2>2, HomeworkNoticesAreTyped DEF HomeworkEdits
  <2> QED BY <1>3, <2>1, <2>2
<1>5. req[q].on = "exam" => to = ExamNotices(req[q].prev, req[q].row)
  OBVIOUS
<1>6. req[q].on = "homework" => to = HomeworkNotices(req[q].prev, req[q].row)
  OBVIOUS
<1> HIDE DEF to
<1>7. /\ j.op = "send" /\ j.on = req[q].on /\ j.to = to /\ j.row = req[q].row
      /\ j.groups = req[q].groups /\ j.users = req[q].users /\ j.second = req[q].second
      /\ j \in ExamEdits \cup HomeworkEdits /\ req[q].on \in {"exam", "homework"}
  BY <1>3, <1>4 DEF ExamEdits, HomeworkEdits, Steps
<1> HIDE DEF j
<1> QED BY <1>1, <1>2, <1>5, <1>6, <1>7 DEF OthersStay, Jobs

LEMMA SendDoes ==
  ASSUME TypeOK, NEW q \in Requests, NEW n \in Notices, Send(q, n)
  PROVE  /\ OthersStay(q) /\ req' \in [Requests -> Jobs]
         /\ req[q].op = "send" /\ req'[q].op = "send" /\ req'[q].on = req[q].on
         /\ req'[q].to = req[q].to \ {n} /\ n \in req[q].to
         /\ req[q].on # "nothing" =>
              /\ req'[q].row = req[q].row
              /\ req'[q].groups = req[q].groups /\ req'[q].users = req[q].users
              /\ req'[q].second = req[q].second
         /\ inbox' \in [Notices -> 0..2] /\ inbox'[n] > 0
         /\ \A m \in Notices : m # n => inbox'[m] = inbox[m]
         /\ n.type \in Debounced /\ inbox[n] = 0 => inbox'[n] = 1
<1>1. req[q].op = "send" /\ req \in [Requests -> Jobs] /\ n \in req[q].to
  BY DEF Send, TypeOK, Jobs
<1> DEFINE j == [req[q] EXCEPT !.to = req[q].to \ {n}]
<1>2. req' = [req EXCEPT ![q] = j]
  BY DEF Send
<1>3. req[q] \in ExamEdits \cup HomeworkEdits \cup Messengers
  BY <1>1, JobKinds
<1>4. /\ j.op = "send" /\ j.on = req[q].on /\ j.to = req[q].to \ {n}
      /\ j \in Messengers \cup ExamEdits \cup HomeworkEdits
  BY <1>1, <1>3 DEF Messengers, ExamEdits, HomeworkEdits
<1>5. req[q].on # "nothing" =>
         /\ j.row = req[q].row
         /\ j.groups = req[q].groups /\ j.users = req[q].users /\ j.second = req[q].second
  BY <1>1, <1>3 DEF Messengers, ExamEdits, HomeworkEdits
<1> HIDE DEF j
<1>6. /\ inbox' \in [Notices -> 0..2] /\ inbox'[n] > 0
      /\ \A m \in Notices : m # n => inbox'[m] = inbox[m]
      /\ n.type \in Debounced /\ inbox[n] = 0 => inbox'[n] = 1
  BY DEF Send, TypeOK
<1> QED BY <1>1, <1>2, <1>4, <1>5, <1>6 DEF OthersStay, Jobs

LEMMA SentDoes ==
  ASSUME TypeOK, NEW q \in Requests, Sent(q)
  PROVE  /\ OthersStay(q) /\ req' \in [Requests -> Jobs]
         /\ req[q].op = "send" /\ req[q].to = {}
         /\ \/ req'[q] = Idle /\ (req[q].on = "homework" => req[q].second)
            \/ /\ req'[q].op = "write" /\ req'[q].on = req[q].on
               /\ req[q].on \in {"exam", "homework"}
               /\ req'[q].old = AliveGroups(req[q].on)
               /\ req'[q].row = req[q].row
               /\ req'[q].groups = req[q].groups /\ req'[q].users = req[q].users
               /\ req'[q].second = FALSE /\ req[q].second = FALSE
<1>1. req[q].op = "send" /\ req[q].to = {} /\ req \in [Requests -> Jobs]
  BY DEF Sent, TypeOK, Jobs
<1> DEFINE j == [req[q] EXCEPT !.op = "write", !.old = AliveGroups(req[q].on)]
<1>2. CASE req[q].on = "nothing" \/ req[q].second
  <2>1. req' = [req EXCEPT ![q] = Idle]
    BY <1>2 DEF Sent
  <2>2. req[q].on = "homework" => req[q].second
    BY <1>2
  <2> QED BY <1>1, <2>1, <2>2 DEF OthersStay, Jobs
<1>3. CASE ~(req[q].on = "nothing" \/ req[q].second)
  <2>1. req' = [req EXCEPT ![q] = j]
    BY <1>3 DEF Sent
  <2>2. req[q] \in ExamEdits \cup HomeworkEdits
    BY <1>1, <1>3, JobKinds
  <2>3. req[q].on \in {"exam", "homework"} /\ req[q].second = FALSE
    BY <1>3, <2>2 DEF ExamEdits, HomeworkEdits
  <2>4. AliveGroups(req[q].on) \in SUBSET Groups
    BY <2>3 DEF AliveGroups, TypeOK, Objects
  <2>5. /\ j.op = "write" /\ j.on = req[q].on /\ j.old = AliveGroups(req[q].on)
        /\ j.row = req[q].row /\ j.groups = req[q].groups /\ j.users = req[q].users
        /\ j.second = req[q].second /\ j \in ExamEdits \cup HomeworkEdits
    BY <2>2, <2>4 DEF ExamEdits, HomeworkEdits, Steps
  <2> HIDE DEF j
  <2> QED BY <1>1, <2>1, <2>3, <2>5 DEF OthersStay, Jobs
<1> QED BY <1>2, <1>3

LEMMA WriteGroupsDoes ==
  ASSUME TypeOK, NEW q \in Requests, WriteGroups(q)
  PROVE  /\ OthersStay(q) /\ req' \in [Requests -> Jobs]
         /\ req[q].op = "write" /\ req[q].on \in {"exam", "homework"}
         /\ assigned' \in [Objects -> SUBSET Groups]
         /\ assigned'[req[q].on] =
              (assigned[req[q].on] \ (req[q].old \ req[q].groups)) \cup req[q].groups
         /\ \A on \in Objects : on # req[q].on => assigned'[on] = assigned[on]
         /\ req[q].on = "exam" => req'[q] = Idle
         /\ req[q].on = "homework" =>
              /\ req'[q].op = "presave" /\ req'[q].on = "homework" /\ req'[q].second = TRUE
              /\ req'[q].row.users = req[q].users
              /\ req'[q].groups = req[q].groups /\ req'[q].users = req[q].users
<1>1. req[q].op = "write" /\ req \in [Requests -> Jobs]
  BY DEF WriteGroups, TypeOK, Jobs
<1>2. req[q] \in ExamEdits \cup HomeworkEdits
  BY <1>1, JobKinds DEF Messengers
<1>3. req[q].on \in {"exam", "homework"} /\ req[q].groups \in SUBSET Groups
  BY <1>2 DEF ExamEdits, HomeworkEdits
<1>4. /\ assigned' \in [Objects -> SUBSET Groups]
      /\ assigned'[req[q].on] =
              (assigned[req[q].on] \ (req[q].old \ req[q].groups)) \cup req[q].groups
      /\ \A on \in Objects : on # req[q].on => assigned'[on] = assigned[on]
  <2>1. assigned \in [Objects -> SUBSET Groups]
    BY DEF TypeOK
  <2>2. assigned' = [assigned EXCEPT ![req[q].on] =
              (assigned[req[q].on] \ (req[q].old \ req[q].groups)) \cup req[q].groups]
    BY DEF WriteGroups
  <2> QED BY <1>3, <2>1, <2>2 DEF Objects
<1>5. CASE req[q].on = "exam"
  <2>1. req' = [req EXCEPT ![q] = Idle]
    BY <1>5 DEF WriteGroups
  <2> QED BY <1>1, <1>3, <1>4, <1>5, <2>1 DEF OthersStay, Jobs
<1>6. CASE req[q].on = "homework"
  <2> DEFINE row == [req[q].row EXCEPT !.users = req[q].users]
             j == [req[q] EXCEPT !.op = "presave", !.second = TRUE, !.row = row]
  <2>1. req' = [req EXCEPT ![q] =
                 [req[q] EXCEPT !.op = "presave", !.second = TRUE, !.row.users = req[q].users]]
    BY <1>6 DEF WriteGroups
  <2>2. req[q] \in HomeworkEdits
    BY <1>1, <1>6, JobKinds
  <2>3. row \in HomeworkRow /\ row.users = req[q].users
    BY <2>2 DEF HomeworkEdits, HomeworkRow
  <2>4. req' = [req EXCEPT ![q] = j]
    BY <2>1, <2>2 DEF HomeworkEdits
  <2> HIDE DEF row
  <2>5. /\ j.op = "presave" /\ j.on = "homework" /\ j.second = TRUE /\ j.row = row
        /\ j.groups = req[q].groups /\ j.users = req[q].users /\ j \in HomeworkEdits
    BY <2>2, <2>3 DEF HomeworkEdits, Steps
  <2> HIDE DEF j
  <2> QED BY <1>1, <1>3, <1>4, <1>6, <2>3, <2>4, <2>5 DEF OthersStay, Jobs
<1> QED BY <1>3, <1>5, <1>6

\* The requests that begin: the job of the one that begins was idle before.
Begins(q) == req[q] = Idle /\ OthersStay(q) /\ req' \in [Requests -> Jobs]

\* The job of a sender of notices, or none where nobody is told.
Tells(q) == Begins(q) /\ (req'[q] = Idle \/ \E to \in SUBSET Notices : req'[q] = Telling(to))

LEMMA BeginsWith ==
  ASSUME TypeOK, NEW q \in Requests, NEW j \in Jobs, req[q] = Idle,
         req' = [req EXCEPT ![q] = j]
  PROVE  Begins(q) /\ req'[q] = j
BY DEF TypeOK, Jobs, Begins, OthersStay

LEMMA PatchExamDoes ==
  ASSUME TypeOK, NEW q \in Requests, NEW w \in Staff, NEW row \in ExamRow,
         NEW gs \in SUBSET Groups, PatchExam(q, w, row, gs)
  PROVE  Begins(q) /\ req'[q] = EditOf("exam", row, gs, {})
BY EditIsAJob, BeginsWith DEF PatchExam, MayBegin, Jobs

LEMMA PatchHomeworkDoes ==
  ASSUME TypeOK, NEW q \in Requests, NEW w \in Staff, NEW due \in {"far", "near", "past"},
         NEW t \in Titles, NEW gs \in SUBSET Groups, NEW us \in SUBSET Students,
         NEW sent \in BOOLEAN, PatchHomework(q, w, due, t, gs, us, sent)
  PROVE  /\ Begins(q)
         /\ \E row \in HomeworkRow : req'[q] = EditOf("homework", row, gs, us)
<1> DEFINE row == [due |-> due, title |-> t, users |-> IF sent THEN us ELSE homework.users]
<1>1. row \in HomeworkRow
  BY DEF HomeworkRow, TypeOK
<1>2. req[q] = Idle /\ req' = [req EXCEPT ![q] = EditOf("homework", row, gs, us)]
  BY DEF PatchHomework, MayBegin
<1> HIDE DEF row
<1> QED BY <1>1, <1>2, EditIsAJob, BeginsWith DEF Jobs

LEMMA TellsWith ==
  ASSUME TypeOK, NEW q \in Requests, NEW to \in SUBSET Notices, req[q] = Idle,
         req' = [req EXCEPT ![q] = Telling(to)]
  PROVE  Tells(q) /\ req'[q] = Telling(to)
BY TellingIsAJob, BeginsWith DEF Tells, Jobs

LEMMA JoinDoes ==
  ASSUME TypeOK, NEW q \in Requests, NEW g \in Groups, NEW u \in Students, Join(q, g, u)
  PROVE  /\ Tells(q) /\ members' \subseteq Groups \X Students
         /\ \/ req'[q] = Idle
            \/ \E ns \in SUBSET Notices : req'[q] = Telling(NotYet(ns))
<1> DEFINE ns == Notice({u} \cap approved, "GROUP_ADDED", g)
           ms == Notice({k \in Teachers : g \in Teaches[k]}, "STUDENT_JOINED_GROUP", g)
<1>1. ns \subseteq Notices /\ ms \subseteq Notices
  BY NoticesAreTyped
<1>2. NotYet(ns) \cup NotYet(ms) = NotYet(ns \cup ms) /\ NotYet(ns \cup ms) \subseteq Notices
  BY <1>1 DEF NotYet
<1>3. req[q] = Idle /\ members' \subseteq Groups \X Students
  BY DEF Join, MayBegin, TypeOK
<1>4. req' = [req EXCEPT ![q] =
                IF NotYet(ns) = {} THEN Idle ELSE Telling(NotYet(ns) \cup NotYet(ms))]
  BY DEF Join
<1> HIDE DEF ns, ms
<1>5. CASE NotYet(ns) = {}
  BY <1>3, <1>4, <1>5, BeginsWith DEF Tells, Jobs
<1>6. CASE NotYet(ns) # {}
  <2>1. req' = [req EXCEPT ![q] = Telling(NotYet(ns \cup ms))]
    BY <1>2, <1>4, <1>6
  <2>2. Tells(q) /\ req'[q] = Telling(NotYet(ns \cup ms))
    BY <1>2, <1>3, <2>1, TellsWith
  <2> QED BY <1>1, <1>3, <2>2
<1> QED BY <1>5, <1>6

LEMMA GradeDoes ==
  ASSUME TypeOK, NEW q \in Requests, NEW u \in Students, Grade(q, u)
  PROVE  /\ Tells(q) /\ graded' \subseteq Students
         /\ \E ns \in SUBSET Notices : req'[q] = Telling(NotYet(ns))
<1> DEFINE ns == Notice({u}, "SUBMISSION_GRADED", "homework")
<1>1. ns \subseteq Notices /\ NotYet(ns) \subseteq Notices
  BY NoticesAreTyped DEF NotYet
<1>2. req[q] = Idle /\ graded' \subseteq Students /\ req' = [req EXCEPT ![q] = Telling(NotYet(ns))]
  BY DEF Grade, MayBegin, TypeOK
<1> HIDE DEF ns
<1> QED BY <1>1, <1>2, TellsWith

LEMMA PublishDoes ==
  ASSUME TypeOK, NEW q \in Requests, Publish(q)
  PROVE  /\ Tells(q) /\ listed' \in BOOLEAN
         /\ \/ req'[q] = Idle
            \/ \E ns \in SUBSET Notices : req'[q] = Telling(NotYet(ns))
<1> DEFINE ns == Notice(Admins, "MOCK_TEST_PUBLISHED", "mock test")
<1>1. ns \subseteq Notices /\ NotYet(ns) \subseteq Notices
  BY NoticesAreTyped DEF NotYet
<1>2. /\ req[q] = Idle /\ listed' \in BOOLEAN
      /\ req' = [req EXCEPT ![q] = IF listed THEN Idle ELSE Telling(NotYet(ns))]
  BY DEF Publish, MayBegin, TypeOK
<1> HIDE DEF ns
<1>3. CASE listed
  BY <1>2, <1>3, BeginsWith DEF Tells, Jobs
<1>4. CASE ~listed
  BY <1>1, <1>2, <1>4, TellsWith
<1> QED BY <1>3, <1>4

LEMMA AlertDoes ==
  ASSUME TypeOK, NEW q \in Requests, AlertDeadline(q) \/ AlertClosing(q)
  PROVE  Tells(q) /\ \E ns \in SUBSET Notices : req'[q] = Telling(NotYet(ns))
<1> DEFINE ns == Notice(Targets(homework.users) \ graded, "DEADLINE_APPROACHING", "homework")
           ms == Notice(StudentsOf(AliveGroups("exam")), "EXAM_CLOSING_SOON", "exam")
<1>1. Targets(homework.users) \subseteq Students /\ StudentsOf(AliveGroups("exam")) \subseteq Students
  BY TargetsAreStudents, StudentsAreMembers DEF TypeOK, HomeworkRow
<1>2. ns \subseteq Notices /\ ms \subseteq Notices
  BY <1>1, NoticesAreTyped
<1>3. NotYet(ns) \subseteq Notices /\ NotYet(ms) \subseteq Notices
  BY <1>2, NotYetIsSubset
<1>4. /\ req[q] = Idle
      /\ req' = [req EXCEPT ![q] = Telling(NotYet(ns))] \/ req' = [req EXCEPT ![q] = Telling(NotYet(ms))]
  BY DEF AlertDeadline, AlertClosing, MayBegin
<1> HIDE DEF ns, ms
<1> QED BY <1>2, <1>3, <1>4, TellsWith

\* A killed process.
LEMMA CrashDoes ==
  ASSUME TypeOK, NEW q \in Requests, Crash(q)
  PROVE  /\ OthersStay(q) /\ req' \in [Requests -> Jobs] /\ req'[q] = Idle
         /\ faults' \in 0..MaxFaults /\ faults' # 0
<1>1. faults' \in 0..MaxFaults /\ faults' # 0
  BY BoundsAssumption, TrafficAssumption DEF Crash, TypeOK
<1> QED BY <1>1 DEF Crash, TypeOK, OthersStay, Jobs

-----------------------------------------------------------------------------
LEMMA InitTyped == Init => TypeOK
BY PeopleAssumption, BoundsAssumption
   DEF Init, TypeOK, ExamRow, HomeworkRow, Titles, Objects, school

\* The variables that a request's own steps leave alone, by step.
LEMMA NextTyped == ASSUME TypeOK, [Next]_vars PROVE TypeOK'
<1> USE DEF Jobs
<1>1. ASSUME NEW q \in Requests, PatchStep(q) PROVE TypeOK'
  <2>1. ASSUME NEW w \in Staff, NEW gs \in SUBSET Groups, NEW row \in ExamRow,
               PatchExam(q, w, row, gs)
        PROVE  TypeOK'
    BY <2>1, PatchExamDoes DEF Begins, PatchExam, TypeOK, school
  <2>2. ASSUME NEW w \in Staff, NEW gs \in SUBSET Groups, NEW due \in {"far", "near", "past"},
               NEW t \in Titles, NEW us \in SUBSET Students, NEW sent \in BOOLEAN,
               PatchHomework(q, w, due, t, gs, us, sent)
        PROVE  TypeOK'
    BY <2>2, PatchHomeworkDoes DEF Begins, PatchHomework, TypeOK, school
  <2> QED BY <1>1, <2>1, <2>2 DEF PatchStep
<1>2. ASSUME NEW q \in Requests, Presave(q) PROVE TypeOK'
  BY <1>2, PresaveDoes DEF Presave, TypeOK, school
<1>3. ASSUME NEW q \in Requests, Save(q) PROVE TypeOK'
  BY <1>3, SaveDoes DEF Save, TypeOK, school
<1>4. ASSUME NEW q \in Requests, Tell(q) PROVE TypeOK'
  BY <1>4, TellDoes DEF Tell, TypeOK, school
<1>5. ASSUME NEW q \in Requests, NEW n \in Notices, Send(q, n) PROVE TypeOK'
  BY <1>5, SendDoes DEF Send, TypeOK, school
<1>6. ASSUME NEW q \in Requests, Sent(q) PROVE TypeOK'
  BY <1>6, SentDoes DEF Sent, TypeOK, school
<1>7. ASSUME NEW q \in Requests, WriteGroups(q) PROVE TypeOK'
  BY <1>7, WriteGroupsDoes DEF WriteGroups, TypeOK, school
<1>8. ASSUME NEW q \in Requests, NEW g \in Groups, NEW u \in Students, Join(q, g, u)
      PROVE  TypeOK'
  BY <1>8, JoinDoes DEF Tells, Begins, Join, TypeOK
<1>9. ASSUME NEW q \in Requests, NEW u \in Students, Grade(q, u) PROVE TypeOK'
  BY <1>9, GradeDoes DEF Tells, Begins, Grade, TypeOK
<1>10. ASSUME NEW q \in Requests, Publish(q) PROVE TypeOK'
  BY <1>10, PublishDoes DEF Tells, Begins, Publish, TypeOK, school
<1>11. ASSUME NEW q \in Requests, AlertDeadline(q) \/ AlertClosing(q) PROVE TypeOK'
  BY <1>11, AlertDoes DEF Tells, Begins, AlertDeadline, AlertClosing, TypeOK, school
<1>12. ASSUME NEW q \in Requests, Crash(q) PROVE TypeOK'
  BY <1>12, CrashDoes DEF Crash, TypeOK, school
<1>13. ASSUME NEW g \in Groups, NEW u \in Students, Leave(g, u) PROVE TypeOK'
  BY <1>13 DEF Leave, TypeOK
<1>14. ASSUME NEW g \in Groups, Dissolve(g) PROVE TypeOK'
  BY <1>14 DEF Dissolve, TypeOK
<1>15. ASSUME NEW u \in Students, Approve(u) PROVE TypeOK'
  BY <1>15 DEF Approve, TypeOK
<1>16. CASE TimePasses
  <2>1. homework' \in HomeworkRow
    BY <1>16 DEF TimePasses, TypeOK, HomeworkRow
  <2> QED BY <1>16, <2>1 DEF TimePasses, TypeOK, school
<1>17. CASE UNCHANGED vars
  BY <1>17 DEF vars, school, TypeOK
<1> QED BY <1>1, <1>2, <1>3, <1>4, <1>5, <1>6, <1>7, <1>8, <1>9, <1>10, <1>11, <1>12,
           <1>13, <1>14, <1>15, <1>16, <1>17 DEF Next, RequestStep

\* Whatever overlaps or is killed, the rows, the jobs and the notices keep their
\* types: a notice of a type is only written for whom it is meant.
THEOREM TypeCorrect == Spec => []TypeOK
<1>1. TypeOK /\ [Next]_vars => TypeOK'
  BY NextTyped
<1> QED BY <1>1, InitTyped, PTL DEF Spec

-----------------------------------------------------------------------------
(* One notice each.  Where every sender is served alone there is one job at *)
(* most, and a notice of a debounced type that is still to be sent is not   *)
(* stored yet.                                                              *)

SendersAlone == Senders \subseteq traffic.alone

OneSender ==
  SendersAlone => \A q, r \in Requests : req[q] # Idle /\ req[r] # Idle => q = r

Unsent ==
  SendersAlone =>
    \A q \in Requests : req[q].op = "send" =>
      \A n \in req[q].to : n.type \in Debounced => inbox[n] = 0

LEMMA BeginningAlone ==
  ASSUME TypeOK, OneSender, NEW q \in Requests, SendersAlone => AllQuiet, OthersStay(q),
         traffic' = traffic
  PROVE  OneSender'
BY DEF OneSender, SendersAlone, AllQuiet, OthersStay

LEMMA ContinuingAlone ==
  ASSUME TypeOK, OneSender, NEW q \in Requests, req[q] # Idle, OthersStay(q),
         traffic' = traffic
  PROVE  OneSender'
BY DEF OneSender, SendersAlone, OthersStay

\* Who begins finds nobody at work.
LEMMA BeginnersAreAlone ==
  ASSUME NEW q \in Requests, NEW k \in Senders, MayBegin(q, k)
  PROVE  SendersAlone => AllQuiet
BY DEF MayBegin, SendersAlone

\* A job that holds no notices, or only such that nobody has, among idle ones.
LEMMA BeginningUnsent ==
  ASSUME TypeOK, Unsent, NEW q \in Requests, OthersStay(q),
         UNCHANGED <<traffic, inbox>>,
         \/ req'[q].op # "send"
         \/ \A n \in req'[q].to : n.type \in Debounced => inbox[n] = 0
  PROVE  Unsent'
<1>1. SUFFICES ASSUME SendersAlone, NEW r \in Requests, req'[r].op = "send",
                      NEW n \in req'[r].to, n.type \in Debounced
               PROVE  inbox[n] = 0
  BY DEF Unsent, SendersAlone
<1> QED BY <1>1 DEF Unsent, OthersStay

LEMMA NotYetIsUnsent == \A ns : \A n \in NotYet(ns) : inbox[n] = 0
BY DEF NotYet

LEMMA TellsUnsent ==
  ASSUME TypeOK, OneSender, Unsent, NEW q \in Requests, NEW k \in Senders, MayBegin(q, k),
         Tells(q), UNCHANGED <<traffic, inbox>>,
         \/ req'[q] = Idle
         \/ \E ns \in SUBSET Notices : req'[q] = Telling(NotYet(ns))
  PROVE  (OneSender /\ Unsent)'
<1>1. OneSender'
  BY BeginnersAreAlone, BeginningAlone DEF Tells, Begins
<1>2. req'[q].op # "send" \/ \A n \in req'[q].to : inbox[n] = 0
  BY NotYetIsUnsent, JobFields
<1>3. Unsent'
  BY <1>2, BeginningUnsent DEF Tells, Begins
<1> QED BY <1>1, <1>3

LEMMA NoticesOfEditsAreUnsent ==
  ASSUME TypeOK, NEW q \in Requests, Tell(q)
  PROVE  \A n \in req'[q].to : n.type \in Debounced => inbox[n] = 0
<1>1. \A us, about : \A type \in {"EXAM_UPDATED", "HOMEWORK_UPDATED", "HOMEWORK_DEADLINE_CHANGED"} :
        \A n \in Notice(us, type, about) : n.type \notin Debounced
  BY DEF Notice, Debounced
<1>2. \A prev, row : \A n \in ExamNotices(prev, row) :
         n.type \in Debounced => inbox[n] = 0
  BY <1>1, NotYetIsUnsent DEF ExamNotices
<1>3. \A prev, row : \A n \in HomeworkNotices(prev, row) : n.type \notin Debounced
  BY <1>1 DEF HomeworkNotices
<1> QED BY <1>2, <1>3, TellDoes

LEMMA NextOneNoticeEach ==
  ASSUME TypeOK, OneSender /\ Unsent /\ OneNoticeEach, [Next]_vars
  PROVE  (OneSender /\ Unsent /\ OneNoticeEach)'
<1>1. ASSUME UNCHANGED <<inbox, traffic>> PROVE OneNoticeEach'
  BY <1>1 DEF OneNoticeEach, Senders
<1>2. ASSUME UNCHANGED <<req, inbox, traffic>> PROVE (OneSender /\ Unsent)'
  BY <1>2 DEF OneSender, Unsent, SendersAlone
<1>3. ASSUME NEW q \in Requests, PatchStep(q)
      PROVE (OneSender /\ Unsent /\ OneNoticeEach)'
  <2>1. ASSUME NEW w \in Staff, NEW gs \in SUBSET Groups, NEW row \in ExamRow,
               PatchExam(q, w, row, gs)
        PROVE  (OneSender /\ Unsent)' /\ UNCHANGED <<inbox, traffic>>
    <3>1. Begins(q) /\ req'[q].op = "presave"
      BY <2>1, PatchExamDoes, JobFields
    <3>2. UNCHANGED <<inbox, traffic>> /\ MayBegin(q, "exam")
      BY <2>1 DEF PatchExam
    <3> QED BY <3>1, <3>2, BeginnersAreAlone, BeginningAlone, BeginningUnsent DEF Begins, Senders
  <2>2. ASSUME NEW w \in Staff, NEW gs \in SUBSET Groups, NEW due \in {"far", "near", "past"},
               NEW t \in Titles, NEW us \in SUBSET Students, NEW sent \in BOOLEAN,
               PatchHomework(q, w, due, t, gs, us, sent)
        PROVE  (OneSender /\ Unsent)' /\ UNCHANGED <<inbox, traffic>>
    <3>1. Begins(q) /\ req'[q].op = "presave"
      BY <2>2, PatchHomeworkDoes, JobFields
    <3>2. UNCHANGED <<inbox, traffic>> /\ MayBegin(q, "homework")
      BY <2>2 DEF PatchHomework
    <3> QED BY <3>1, <3>2, BeginnersAreAlone, BeginningAlone, BeginningUnsent DEF Begins, Senders
  <2> QED BY <1>1, <1>3, <2>1, <2>2 DEF PatchStep
<1>4. ASSUME NEW q \in Requests, req[q] # Idle, OthersStay(q), UNCHANGED <<inbox, traffic>>,
             \/ req'[q].op # "send"
             \/ \A n \in req'[q].to : n.type \in Debounced => inbox[n] = 0
      PROVE  (OneSender /\ Unsent /\ OneNoticeEach)'
  BY <1>1, <1>4, ContinuingAlone, BeginningUnsent
<1>5. ASSUME NEW q \in Requests, Presave(q) \/ Save(q) PROVE (OneSender /\ Unsent /\ OneNoticeEach)'
  BY <1>4, <1>5, PresaveDoes, SaveDoes, JobKinds DEF Presave, Save
<1>6. ASSUME NEW q \in Requests, Tell(q) PROVE (OneSender /\ Unsent /\ OneNoticeEach)'
  BY <1>4, <1>6, TellDoes, NoticesOfEditsAreUnsent, JobKinds DEF Tell
<1>7. ASSUME NEW q \in Requests, Sent(q) \/ WriteGroups(q)
      PROVE  (OneSender /\ Unsent /\ OneNoticeEach)'
  <2>1. OthersStay(q) /\ req[q] # Idle /\ UNCHANGED <<inbox, traffic>>
    BY <1>7, SentDoes, WriteGroupsDoes, JobKinds DEF Sent, WriteGroups
  <2>2. req'[q].op # "send"
    BY <1>7, SentDoes, WriteGroupsDoes, JobFields
  <2> QED BY <1>4, <2>1, <2>2
<1>8. ASSUME NEW q \in Requests, NEW n \in Notices, Send(q, n)
      PROVE (OneSender /\ Unsent /\ OneNoticeEach)'
  <2>1. /\ OthersStay(q) /\ req[q].op = "send" /\ req[q] # Idle /\ traffic' = traffic
        /\ req'[q].op = "send" /\ req'[q].to = req[q].to \ {n} /\ n \in req[q].to
        /\ \A m \in Notices : m # n => inbox'[m] = inbox[m]
        /\ n.type \in Debounced /\ inbox[n] = 0 => inbox'[n] = 1
        /\ req[q].to \subseteq Notices
    <3>1. req[q] \in Messengers \cup ExamEdits \cup HomeworkEdits
      BY <1>8, SendDoes, JobKinds
    <3>2. req[q].to \subseteq Notices
      BY <3>1 DEF Messengers, ExamEdits, HomeworkEdits
    <3> QED BY <1>8, <3>2, SendDoes, JobKinds DEF Send
  <2>2. OneSender'
    BY <2>1, ContinuingAlone
  <2>3. SendersAlone => \A r \in Requests : r # q => req[r] = Idle
    BY <2>1 DEF OneSender
  <2>4. Unsent'
    <3>1. SUFFICES ASSUME SendersAlone, NEW r \in Requests, req'[r].op = "send",
                          NEW m \in req'[r].to, m.type \in Debounced
                   PROVE  inbox'[m] = 0
      BY <2>1 DEF Unsent, SendersAlone
    <3>2. r = q
      BY <2>1, <2>3, <3>1 DEF OthersStay, Idle
    <3> QED BY <2>1, <3>1, <3>2 DEF Unsent
  <2>5. OneNoticeEach'
    <3>1. SUFFICES ASSUME SendersAlone, NEW m \in Notices, m.type \in Debounced
                   PROVE  inbox'[m] <= 1
      BY <2>1 DEF OneNoticeEach, SendersAlone
    <3>2. CASE m # n
      BY <2>1, <3>1, <3>2 DEF OneNoticeEach, SendersAlone
    <3>3. CASE m = n
      BY <2>1, <3>1, <3>3 DEF Unsent
    <3> QED BY <3>2, <3>3
  <2> QED BY <2>2, <2>4, <2>5
<1>9. ASSUME NEW q \in Requests, NEW g \in Groups, NEW u \in Students, Join(q, g, u)
      PROVE  (OneSender /\ Unsent /\ OneNoticeEach)'
  BY <1>1, <1>9, JoinDoes, TellsUnsent DEF Join, Senders
<1>10. ASSUME NEW q \in Requests, NEW u \in Students, Grade(q, u)
       PROVE (OneSender /\ Unsent /\ OneNoticeEach)'
  BY <1>1, <1>10, GradeDoes, TellsUnsent DEF Grade, Senders
<1>11. ASSUME NEW q \in Requests, Publish(q) PROVE (OneSender /\ Unsent /\ OneNoticeEach)'
  BY <1>1, <1>11, PublishDoes, TellsUnsent DEF Publish, Senders
<1>12. ASSUME NEW q \in Requests, AlertDeadline(q) \/ AlertClosing(q)
       PROVE (OneSender /\ Unsent /\ OneNoticeEach)'
  <2>1. MayBegin(q, "alerts") /\ UNCHANGED <<inbox, traffic>>
    BY <1>12 DEF AlertDeadline, AlertClosing
  <2> QED BY <1>1, <1>12, <2>1, AlertDoes, TellsUnsent DEF Senders
<1>13. ASSUME NEW q \in Requests, Crash(q) PROVE (OneSender /\ Unsent /\ OneNoticeEach)'
  BY <1>4, <1>13, CrashDoes DEF Crash, Idle
<1>14. ASSUME NEW g \in Groups, \/ Dissolve(g) \/ \E u \in Students : Leave(g, u)
       PROVE (OneSender /\ Unsent /\ OneNoticeEach)'
  BY <1>1, <1>2, <1>14 DEF Leave, Dissolve
<1>15. CASE TimePasses \/ (\E u \in Students : Approve(u)) \/ UNCHANGED vars
  BY <1>1, <1>2, <1>15 DEF Approve, TimePasses, vars
<1> QED BY <1>3, <1>5, <1>6, <1>7, <1>8, <1>9, <1>10, <1>11, <1>12, <1>13, <1>14, <1>15
        DEF Next, RequestStep

\* As long as the requests and tasks that send do not overlap, whoever reopens,
\* joins, leaves, grades or is killed half way: no debounced notice is stored
\* twice (notifications/signals.py, "one notification per user, type and
\* related_id").
THEOREM ToldOnce == Spec => []OneNoticeEach
<1>1. Init => OneSender /\ Unsent /\ OneNoticeEach
  BY DEF Init, OneSender, Unsent, OneNoticeEach, Idle
<1>2. TypeOK /\ OneSender /\ Unsent /\ OneNoticeEach /\ [Next]_vars
         => (OneSender /\ Unsent /\ OneNoticeEach)'
  BY NextOneNoticeEach
<1> QED BY <1>1, <1>2, TypeCorrect, PTL DEF Spec

-----------------------------------------------------------------------------
(* An open exam is announced.  Without regrouping, joins and approvals the   *)
(* groups of an exam stay as they are through every PATCH, and whoever is    *)
(* owed the news of an opening has it, or a request is about to send it.     *)

Calm == faults = 0 /\ {"regroup", "join", "approve"} \cap traffic.kinds = {}

OnExam(q) == req[q].op # "idle" /\ req[q].on = "exam"

ExamGroups ==
  Calm => \A q \in Requests : OnExam(q) =>
    /\ assigned["exam"] \ dead \subseteq req[q].groups
    /\ req[q].groups \subseteq assigned["exam"]
    /\ req[q].op = "write" => req[q].old \subseteq req[q].groups

\* The exam is open, or a request is going to save it that has seen it open.
SeenOpen(q) == OnExam(q) /\ req[q].op = "save" /\ req[q].prev.status = "OPEN"
WasOpen == exam.status = "OPEN" \/ \E q \in Requests : SeenOpen(q)

Owed == Notice(StudentsOf(AliveGroups("exam")) \cap approved, "EXAM_OPENED", "exam")

Bringing(q, n) ==
  \/ req[q].op = "send" /\ n \in req[q].to
  \/ req[q].op = "tell" /\ req[q].on = "exam" /\ Opening(req[q].prev, req[q].row)
Coming(n) == \E q \in Requests : Bringing(q, n)

Announced == Calm /\ WasOpen => \A n \in Owed : inbox[n] > 0 \/ Coming(n)

LEMMA OwedIsTyped == TypeOK => Owed \subseteq Notices
BY StudentsAreMembers, NoticesAreTyped DEF Owed

LEMMA OwedShrinks ==
  ASSUME assigned'["exam"] \subseteq assigned["exam"], dead \subseteq dead',
         members' \subseteq members, approved' \subseteq approved
  PROVE  Owed' \subseteq Owed
BY DEF Owed, Notice, StudentsOf, AliveGroups

LEMMA GroupsAreKept ==
  ASSUME TypeOK, ExamGroups, Calm' => Calm, Calm => assigned'["exam"] = assigned["exam"],
         dead \subseteq dead', NEW q \in Requests, OthersStay(q),
         Calm' /\ OnExam(q)' =>
           /\ assigned["exam"] \ dead' \subseteq req'[q].groups
           /\ req'[q].groups \subseteq assigned["exam"]
           /\ req'[q].op = "write" => req'[q].old \subseteq req'[q].groups
  PROVE  ExamGroups'
<1>1. SUFFICES ASSUME Calm', NEW r \in Requests, OnExam(r)'
               PROVE  /\ assigned'["exam"] \ dead' \subseteq req'[r].groups
                      /\ req'[r].groups \subseteq assigned'["exam"]
                      /\ req'[r].op = "write" => req'[r].old \subseteq req'[r].groups
  BY DEF ExamGroups
<1>2. CASE r = q
  BY <1>1, <1>2
<1>3. CASE r # q
  <2>1. req'[r] = req[r]
    BY <1>3 DEF OthersStay
  <2>2. OnExam(r)
    BY <1>1, <2>1 DEF OnExam
  <2> QED BY <1>1, <2>1, <2>2 DEF ExamGroups
<1> QED BY <1>2, <1>3

LEMMA NewsIsKept ==
  ASSUME TypeOK, Announced, Calm' => Calm,
         Calm => Owed' \subseteq Owed,
         Calm' /\ WasOpen' => WasOpen,
         \A n \in Notices : inbox[n] > 0 => inbox'[n] > 0,
         NEW q \in Requests, OthersStay(q),
         \A n \in Owed : Bringing(q, n) => Bringing(q, n)' \/ inbox'[n] > 0
  PROVE  Announced'
<1>1. SUFFICES ASSUME Calm', WasOpen', NEW n \in Owed, n \in Notices
               PROVE  inbox'[n] > 0 \/ Coming(n)'
  BY OwedIsTyped DEF Announced
<1>2. CASE inbox[n] > 0
  BY <1>1, <1>2
<1>3. ASSUME NEW r \in Requests, Bringing(r, n) PROVE inbox'[n] > 0 \/ Coming(n)'
  <2>1. CASE r = q
    BY <1>1, <1>3, <2>1 DEF Coming
  <2>2. CASE r # q
    <3>1. req'[r] = req[r]
      BY <2>2 DEF OthersStay
    <3>2. Bringing(r, n)'
      BY <1>3, <3>1 DEF Bringing
    <3> QED BY <3>2 DEF Coming
  <2> QED BY <2>1, <2>2
<1> QED BY <1>1, <1>2, <1>3 DEF Announced, Coming

LEMMA OpenWasOpen ==
  ASSUME exam' = exam, NEW q \in Requests, OthersStay(q),
         SeenOpen(q)' => exam.status = "OPEN"
  PROVE  WasOpen' => WasOpen
<1>1. ASSUME NEW r \in Requests, SeenOpen(r)' PROVE WasOpen
  <2>1. CASE r = q
    BY <1>1, <2>1 DEF WasOpen
  <2>2. CASE r # q
    <3>1. req'[r] = req[r]
      BY <2>2 DEF OthersStay
    <3>2. SeenOpen(r)
      BY <1>1, <3>1 DEF SeenOpen, OnExam
    <3> QED BY <3>2 DEF WasOpen
  <2> QED BY <2>1, <2>2
<1> QED BY <1>1 DEF WasOpen

\* A job that was idle, and edits nothing.
LEMMA BeginningKeepsNews ==
  ASSUME TypeOK, ExamGroups, Announced, NEW q \in Requests, Begins(q),
         req'[q].op \in {"idle", "send"}, req'[q].op = "send" => req'[q].on = "nothing",
         UNCHANGED <<exam, assigned, dead, approved, inbox, faults, traffic>>,
         Calm => members' \subseteq members
  PROVE  (ExamGroups /\ Announced)'
<1>1. (Calm' => Calm) /\ ~OnExam(q)' /\ ~SeenOpen(q)' /\ OthersStay(q)
  BY DEF Calm, OnExam, SeenOpen, Begins
<1>2. ExamGroups'
  BY <1>1, GroupsAreKept
<1>3. \A n : ~Bringing(q, n)
  BY JobFields DEF Bringing, Begins
<1>4. Calm => Owed' \subseteq Owed
  BY OwedShrinks
<1>5. WasOpen' => WasOpen
  BY <1>1, OpenWasOpen
<1>6. Announced'
  BY <1>1, <1>3, <1>4, <1>5, NewsIsKept
<1> QED BY <1>2, <1>6

LEMMA TellsKeepsNews ==
  ASSUME TypeOK, ExamGroups, Announced, NEW q \in Requests, Tells(q),
         UNCHANGED <<exam, assigned, dead, approved, inbox, faults, traffic>>,
         Calm => members' \subseteq members
  PROVE  (ExamGroups /\ Announced)'
<1>1. Begins(q) /\ req'[q].op \in {"idle", "send"}
      /\ (req'[q].op = "send" => req'[q].on = "nothing")
  BY JobFields DEF Tells
<1> QED BY <1>1, BeginningKeepsNews

LEMMA PatchKeepsNews ==
  ASSUME TypeOK, ExamGroups, Announced, NEW q \in Requests, PatchStep(q)
  PROVE  (ExamGroups /\ Announced)'
<1>1. ASSUME NEW on \in Objects, NEW row, NEW gs, NEW us, req'[q] = EditOf(on, row, gs, us),
             Begins(q), Calm /\ on = "exam" => gs = AliveGroups("exam"),
             UNCHANGED <<exam, homework, assigned, listed, school, inbox, faults, traffic>>
      PROVE  (ExamGroups /\ Announced)'
  <2>1. UNCHANGED <<exam, assigned, members, dead, approved, inbox, faults, traffic>>
        /\ OthersStay(q)
    BY <1>1 DEF school, Begins
  <2>2. req'[q].op = "presave" /\ req'[q].on = on /\ req'[q].groups = gs
    BY <1>1, JobFields
  <2>3. (Calm' => Calm) /\ ~SeenOpen(q)'
    BY <2>1, <2>2 DEF Calm, SeenOpen
  <2>4. ExamGroups'
    BY <1>1, <2>1, <2>2, <2>3, GroupsAreKept DEF OnExam, AliveGroups
  <2>5. \A n : ~Bringing(q, n)
    BY <1>1, JobFields DEF Bringing, Begins
  <2>6. Owed' \subseteq Owed /\ (WasOpen' => WasOpen)
    BY <2>1, <2>3, OwedShrinks, OpenWasOpen
  <2>7. Announced'
    BY <2>1, <2>3, <2>5, <2>6, NewsIsKept
  <2> QED BY <2>4, <2>7
<1>2. ASSUME NEW w \in Staff, NEW gs \in SUBSET Groups, NEW row \in ExamRow,
             PatchExam(q, w, row, gs)
      PROVE  (ExamGroups /\ Announced)'
  <2>1. Calm => gs = AliveGroups("exam")
    BY <1>2 DEF PatchExam, Calm
  <2>2. UNCHANGED <<exam, homework, assigned, listed, school, inbox, faults, traffic>>
    BY <1>2 DEF PatchExam
  <2>3. Begins(q) /\ req'[q] = EditOf("exam", row, gs, {})
    BY <1>2, PatchExamDoes
  <2> QED BY <1>1, <2>1, <2>2, <2>3 DEF Objects
<1>3. ASSUME NEW w \in Staff, NEW gs \in SUBSET Groups, NEW due \in {"far", "near", "past"},
             NEW t \in Titles, NEW us \in SUBSET Students, NEW sent \in BOOLEAN,
             PatchHomework(q, w, due, t, gs, us, sent)
      PROVE  (ExamGroups /\ Announced)'
  <2>1. Begins(q) /\ \E row : req'[q] = EditOf("homework", row, gs, us)
    BY <1>3, PatchHomeworkDoes
  <2>2. UNCHANGED <<exam, homework, assigned, listed, school, inbox, faults, traffic>>
    BY <1>3 DEF PatchHomework
  <2> QED BY <1>1, <2>1, <2>2 DEF Objects
<1> QED BY <1>2, <1>3 DEF PatchStep

LEMMA PresaveKeepsNews ==
  ASSUME TypeOK, ExamGroups, Announced, NEW q \in Requests, Presave(q)
  PROVE  (ExamGroups /\ Announced)'
<1>1. UNCHANGED <<exam, assigned, members, dead, approved, inbox, faults, traffic>>
  BY DEF Presave, school
<1>2. /\ OthersStay(q) /\ req[q].op = "presave" /\ req'[q].op = "save"
      /\ req'[q].on = req[q].on /\ req'[q].prev = RowOf(req[q].on)
      /\ req'[q].groups = req[q].groups
  BY PresaveDoes
<1>3. (Calm' => Calm) /\ (SeenOpen(q)' => exam.status = "OPEN")
  BY <1>1, <1>2 DEF Calm, SeenOpen, OnExam, RowOf
<1>4. ExamGroups'
  BY <1>1, <1>2, <1>3, GroupsAreKept DEF OnExam, ExamGroups
<1>5. Announced'
  BY <1>1, <1>2, <1>3, OwedShrinks, OpenWasOpen, NewsIsKept DEF Bringing
<1> QED BY <1>4, <1>5

LEMMA SaveKeepsNews ==
  ASSUME TypeOK, ExamGroups, Announced, NEW q \in Requests, Save(q)
  PROVE  (ExamGroups /\ Announced)'
<1>1. UNCHANGED <<assigned, members, dead, approved, inbox, faults, traffic>>
  BY DEF Save, school
<1>2. /\ OthersStay(q) /\ req[q].op = "save" /\ req'[q].op = "tell"
      /\ req'[q].on = req[q].on /\ req'[q].prev = req[q].prev /\ req'[q].row = req[q].row
      /\ req'[q].groups = req[q].groups
      /\ req[q].on = "exam" => exam' = req[q].row
      /\ req[q].on = "homework" => exam' = exam
      /\ req[q].on \in {"exam", "homework"}
  BY SaveDoes, JobKinds DEF Messengers
<1>3. Calm' => Calm
  BY <1>1 DEF Calm
<1>4. ExamGroups'
  BY <1>1, <1>2, <1>3, GroupsAreKept DEF OnExam, ExamGroups
<1>5. ~SeenOpen(q)' /\ \A n : ~Bringing(q, n)
  BY <1>2 DEF SeenOpen, Bringing
<1>6. CASE Opening(req[q].prev, req[q].row) /\ req[q].on = "exam"
  <2>1. \A n : Bringing(q, n)'
    BY <1>2, <1>6 DEF Bringing
  <2> QED BY <1>4, <2>1 DEF Announced, Coming
<1>7. CASE ~(Opening(req[q].prev, req[q].row) /\ req[q].on = "exam")
  <2>1. exam'.status = "OPEN" => WasOpen
    <3>1. CASE req[q].on = "homework"
      BY <1>2, <3>1 DEF WasOpen
    <3>2. CASE req[q].on = "exam"
      BY <1>2, <1>7, <3>2 DEF Opening, WasOpen, SeenOpen, OnExam
    <3> QED BY <1>2, <3>1, <3>2
  <2>2. ASSUME NEW r \in Requests, SeenOpen(r)' PROVE WasOpen
    <3>1. r # q
      BY <1>5, <2>2
    <3>2. req'[r] = req[r]
      BY <1>2, <3>1 DEF OthersStay
    <3>3. SeenOpen(r)
      BY <2>2, <3>2 DEF SeenOpen, OnExam
    <3> QED BY <3>3 DEF WasOpen
  <2>3. WasOpen' => WasOpen
    BY <2>1, <2>2 DEF WasOpen
  <2>4. Announced'
    BY <1>1, <1>2, <1>3, <1>5, <2>3, OwedShrinks, NewsIsKept
  <2> QED BY <1>4, <2>4
<1> QED BY <1>6, <1>7

LEMMA TellKeepsNews ==
  ASSUME TypeOK, ExamGroups, Announced, NEW q \in Requests, Tell(q)
  PROVE  (ExamGroups /\ Announced)'
<1>1. UNCHANGED <<exam, assigned, members, dead, approved, inbox, faults, traffic>>
  BY DEF Tell, school
<1>2. /\ OthersStay(q) /\ req[q].op = "tell" /\ req'[q].op = "send"
      /\ req'[q].on = req[q].on /\ req'[q].groups = req[q].groups
      /\ req[q].on = "exam" => req'[q].to = ExamNotices(req[q].prev, req[q].row)
  BY TellDoes
<1>3. (Calm' => Calm) /\ ~SeenOpen(q)'
  BY <1>1, <1>2 DEF Calm, SeenOpen
<1>4. ExamGroups'
  BY <1>1, <1>2, <1>3, GroupsAreKept DEF OnExam, ExamGroups
<1>5. ASSUME NEW n \in Owed, Bringing(q, n) PROVE Bringing(q, n)' \/ inbox'[n] > 0
  <2>1. req[q].on = "exam" /\ Opening(req[q].prev, req[q].row)
    BY <1>2, <1>5 DEF Bringing
  <2>2. req'[q].to = NotYet(Owed)
    BY <1>2, <2>1 DEF ExamNotices, Owed
  <2>3. n \in NotYet(Owed) \/ inbox[n] # 0
    BY DEF NotYet
  <2>4. inbox[n] # 0 => inbox[n] > 0
    BY OwedIsTyped DEF TypeOK
  <2> QED BY <1>1, <1>2, <2>2, <2>3, <2>4 DEF Bringing
<1>6. Announced'
  BY <1>1, <1>2, <1>3, <1>5, OwedShrinks, OpenWasOpen, NewsIsKept
<1> QED BY <1>4, <1>6

LEMMA SendKeepsNews ==
  ASSUME TypeOK, ExamGroups, Announced, NEW q \in Requests, NEW n \in Notices, Send(q, n)
  PROVE  (ExamGroups /\ Announced)'
<1>1. UNCHANGED <<exam, assigned, members, dead, approved, faults, traffic>>
  BY DEF Send, school
<1>2. /\ OthersStay(q) /\ req[q].op = "send" /\ req'[q].op = "send"
      /\ req'[q].on = req[q].on /\ (req[q].on = "exam" => req'[q].groups = req[q].groups)
      /\ req'[q].to = req[q].to \ {n}
      /\ \A m \in Notices : inbox[m] > 0 => inbox'[m] > 0
      /\ inbox'[n] > 0
  BY SendDoes
<1>3. (Calm' => Calm) /\ ~SeenOpen(q)'
  BY <1>1, <1>2 DEF Calm, SeenOpen
<1>4. ExamGroups'
  BY <1>1, <1>2, <1>3, GroupsAreKept DEF OnExam, ExamGroups
<1>5. Announced'
  BY <1>1, <1>2, <1>3, OwedShrinks, OpenWasOpen, NewsIsKept DEF Bringing
<1> QED BY <1>4, <1>5

LEMMA SentKeepsNews ==
  ASSUME TypeOK, ExamGroups, Announced, NEW q \in Requests, Sent(q)
  PROVE  (ExamGroups /\ Announced)'
<1>1. UNCHANGED <<exam, assigned, members, dead, approved, inbox, faults, traffic>>
  BY DEF Sent, school
<1>2. OthersStay(q) /\ req[q].op = "send" /\ req[q].to = {} /\ req'[q].op \in {"idle", "write"}
  BY SentDoes, JobFields
<1>3. (Calm' => Calm) /\ ~SeenOpen(q)' /\ \A n : ~Bringing(q, n)
  BY <1>1, <1>2 DEF Calm, SeenOpen, Bringing
<1>4. OnExam(q)' => /\ req[q].on = "exam" /\ req'[q].groups = req[q].groups
                    /\ req'[q].old = AliveGroups("exam")
  BY SentDoes, JobFields DEF OnExam
<1>5. ExamGroups'
  BY <1>1, <1>2, <1>3, <1>4, GroupsAreKept DEF OnExam, ExamGroups, AliveGroups
<1>6. Announced'
  BY <1>1, <1>2, <1>3, OwedShrinks, OpenWasOpen, NewsIsKept
<1> QED BY <1>5, <1>6

LEMMA WriteGroupsKeepsNews ==
  ASSUME TypeOK, ExamGroups, Announced, NEW q \in Requests, WriteGroups(q)
  PROVE  (ExamGroups /\ Announced)'
<1>1. UNCHANGED <<exam, members, dead, approved, inbox, faults, traffic>>
  BY DEF WriteGroups, school
<1>2. OthersStay(q) /\ req[q].op = "write" /\ req[q].on \in {"exam", "homework"}
  BY WriteGroupsDoes
<1>3. ~OnExam(q)' /\ ~SeenOpen(q)' /\ (Calm' => Calm) /\ \A n : ~Bringing(q, n)
  BY <1>1, <1>2, WriteGroupsDoes, JobFields DEF OnExam, SeenOpen, Calm, Bringing
<1>4. Calm => assigned'["exam"] = assigned["exam"]
  <2>1. CASE req[q].on = "exam"
    <3>1. assigned'["exam"] = (assigned["exam"] \ (req[q].old \ req[q].groups)) \cup req[q].groups
      BY <2>1, WriteGroupsDoes
    <3>2. Calm => req[q].old \subseteq req[q].groups /\ req[q].groups \subseteq assigned["exam"]
      BY <1>2, <2>1 DEF ExamGroups, OnExam
    <3> QED BY <3>1, <3>2
  <2>2. CASE req[q].on = "homework"
    BY <2>2, WriteGroupsDoes DEF Objects
  <2> QED BY <1>2, <2>1, <2>2
<1>5. ExamGroups'
  BY <1>1, <1>2, <1>3, <1>4, GroupsAreKept
<1>6. Calm => Owed' \subseteq Owed
  BY <1>1, <1>4, OwedShrinks
<1>7. Announced'
  BY <1>1, <1>2, <1>3, <1>6, OpenWasOpen, NewsIsKept
<1> QED BY <1>5, <1>7

\* What happens meanwhile leaves every job as it is, and owes nobody more.
LEMMA OthersKeepNews ==
  ASSUME TypeOK, ExamGroups, Announced, UNCHANGED <<exam, assigned, inbox, req, faults, traffic>>,
         dead \subseteq dead', members' \subseteq members, Calm => approved' \subseteq approved
  PROVE  (ExamGroups /\ Announced)'
<1>1. Calm' => Calm
  BY DEF Calm
<1>2. ExamGroups'
  BY <1>1 DEF ExamGroups, OnExam
<1>3. Calm => Owed' \subseteq Owed
  BY OwedShrinks
<1>4. (WasOpen' => WasOpen) /\ \A n : Coming(n) => Coming(n)'
  BY DEF WasOpen, SeenOpen, OnExam, Coming, Bringing
<1>5. Announced'
  BY <1>1, <1>3, <1>4 DEF Announced
<1> QED BY <1>2, <1>5

LEMMA NextKeepsNews ==
  ASSUME TypeOK, ExamGroups /\ Announced, [Next]_vars PROVE (ExamGroups /\ Announced)'
<1>1. ASSUME NEW q \in Requests, NEW g \in Groups, NEW u \in Students, Join(q, g, u)
      PROVE  (ExamGroups /\ Announced)'
  <2>1. ~Calm
    BY <1>1 DEF Join, MayBegin, Calm
  <2> QED BY <1>1, <2>1, JoinDoes, TellsKeepsNews DEF Join
<1>2. ASSUME NEW q \in Requests, NEW u \in Students, Grade(q, u) PROVE (ExamGroups /\ Announced)'
  BY <1>2, GradeDoes, TellsKeepsNews DEF Grade
<1>3. ASSUME NEW q \in Requests, Publish(q) PROVE (ExamGroups /\ Announced)'
  BY <1>3, PublishDoes, TellsKeepsNews DEF Publish, school
<1>4. ASSUME NEW q \in Requests, AlertDeadline(q) \/ AlertClosing(q)
      PROVE (ExamGroups /\ Announced)'
  BY <1>4, AlertDoes, TellsKeepsNews DEF AlertDeadline, AlertClosing, school
<1>5. ASSUME NEW q \in Requests, Crash(q) PROVE (ExamGroups /\ Announced)'
  BY <1>5, CrashDoes DEF ExamGroups, Announced, Calm
<1>6. ASSUME NEW g \in Groups, Dissolve(g) \/ \E u \in Students : Leave(g, u)
      PROVE  (ExamGroups /\ Announced)'
  BY <1>6, OthersKeepNews DEF Dissolve, Leave
<1>7. ASSUME NEW u \in Students, Approve(u) PROVE (ExamGroups /\ Announced)'
  BY <1>7, OthersKeepNews DEF Approve, Calm
<1>8. CASE TimePasses \/ UNCHANGED vars
  BY <1>8, OthersKeepNews DEF TimePasses, vars, school
<1> QED BY <1>1, <1>2, <1>3, <1>4, <1>5, <1>6, <1>7, <1>8, PatchKeepsNews, PresaveKeepsNews,
           SaveKeepsNews, TellKeepsNews, SendKeepsNews, SentKeepsNews, WriteGroupsKeepsNews
        DEF Next, RequestStep

\* Whoever should know of an open exam has been told once the requests are
\* done, however edits of the exam overlap, while students leave and groups are
\* dissolved (exam_assignment_opened_handler).
THEOREM OpeningsAreAnnounced == Spec => []OpenIsAnnounced
<1>1. Init => ExamGroups /\ Announced
  BY JobFields DEF Init, ExamGroups, Announced, OnExam, WasOpen, SeenOpen
<1>2. TypeOK /\ ExamGroups /\ Announced /\ [Next]_vars => (ExamGroups /\ Announced)'
  BY NextKeepsNews
<1>3. Announced => OpenIsAnnounced
  <2> SUFFICES ASSUME Announced, faults = 0, AllQuiet, exam.status = "OPEN",
                      {"regroup", "join", "approve"} \cap traffic.kinds = {},
                      NEW n \in Owed
               PROVE  inbox[n] > 0
    BY DEF OpenIsAnnounced, Owed
  <2>1. ~Coming(n)
    BY JobFields DEF Coming, Bringing, AllQuiet
  <2> QED BY <2>1 DEF Announced, Calm, WasOpen
<1> QED BY <1>1, <1>2, <1>3, TypeCorrect, PTL DEF Spec

-----------------------------------------------------------------------------
(* A homework is somebody's.  The groups and the users are replaced by      *)
(* statements of their own, but what one edit sends is not empty, and where *)
(* the edits of the homework do not overlap all of it is stored at the end. *)

OnHomework(q) == req[q].op # "idle" /\ req[q].on = "homework"

EditsAlone == "homework" \in traffic.alone

OneEdit == EditsAlone => \A q, r \in Requests : OnHomework(q) /\ OnHomework(r) => q = r

Ownership(q) ==
  /\ req[q].groups # {} \/ req[q].users # {}
  /\ req[q].second => req[q].groups \subseteq assigned["homework"]
  /\ req[q].second /\ req[q].op \in {"tell", "send"} => homework.users = req[q].users

Owned ==
  EditsAlone /\ faults = 0 =>
    /\ (\A q \in Requests : ~OnHomework(q)) => assigned["homework"] # {} \/ homework.users # {}
    /\ \A q \in Requests : OnHomework(q) => Ownership(q)

\* A step of nobody who edits the homework.
LEMMA OthersKeepOwned ==
  ASSUME OneEdit, Owned, assigned'["homework"] = assigned["homework"],
         homework'.users = homework.users, traffic' = traffic, faults' = 0 => faults = 0,
         \A q \in Requests : OnHomework(q)' => OnHomework(q) /\ req'[q] = req[q],
         \A q \in Requests : OnHomework(q) /\ faults' = 0 => OnHomework(q)'
  PROVE  (OneEdit /\ Owned)'
<1>1. OneEdit'
  BY DEF OneEdit, EditsAlone
<1>2. EditsAlone' => EditsAlone
  BY DEF EditsAlone
<1>3. ASSUME NEW q \in Requests, OnHomework(q)', Ownership(q) PROVE Ownership(q)'
  BY <1>3 DEF Ownership
<1>4. ASSUME EditsAlone', faults' = 0
      PROVE  /\ (\A q \in Requests : ~OnHomework(q)') =>
                  assigned'["homework"] # {} \/ homework'.users # {}
             /\ \A q \in Requests : OnHomework(q)' => Ownership(q)'
  BY <1>2, <1>3, <1>4 DEF Owned
<1>5. Owned'
  BY <1>4 DEF Owned
<1> QED BY <1>1, <1>5

\* The step of a job that is not, and was not, an edit of the homework.
LEMMA OtherJobsKeepOwned ==
  ASSUME OneEdit, Owned, NEW q \in Requests, OthersStay(q), ~OnHomework(q), ~OnHomework(q)',
         assigned'["homework"] = assigned["homework"],
         homework'.users = homework.users, traffic' = traffic, faults' = 0 => faults = 0
  PROVE  (OneEdit /\ Owned)'
<1>1. \A r \in Requests : r # q => req'[r] = req[r]
  BY DEF OthersStay
<1>2. \A r \in Requests : r # q => (OnHomework(r)' <=> OnHomework(r))
  BY <1>1 DEF OnHomework
<1> QED BY <1>1, <1>2, OthersKeepOwned

\* The step of the one edit of the homework.
LEMMA TheEditKeepsOwned ==
  ASSUME OneEdit, Owned, NEW q \in Requests, OthersStay(q), traffic' = traffic,
         faults' = 0 => faults = 0,
         EditsAlone => \A r \in Requests : r # q => ~OnHomework(r),
         OnHomework(q)',
         EditsAlone /\ faults = 0 => Ownership(q)'
  PROVE  (OneEdit /\ Owned)'
<1>1. EditsAlone' => EditsAlone
  BY DEF EditsAlone
<1>2. EditsAlone' => \A r \in Requests : r # q => ~OnHomework(r)'
  BY <1>1 DEF OthersStay, OnHomework
<1>3. OneEdit'
  BY <1>2 DEF OneEdit
<1>4. Owned'
  BY <1>1, <1>2 DEF Owned
<1> QED BY <1>3, <1>4

LEMMA TheEditIsAlone ==
  ASSUME OneEdit, NEW q \in Requests, OnHomework(q)
  PROVE  EditsAlone => \A r \in Requests : r # q => ~OnHomework(r)
BY DEF OneEdit

LEMMA TellsKeepsOwned ==
  ASSUME OneEdit, Owned, NEW q \in Requests, Tells(q),
         UNCHANGED <<homework, assigned, faults, traffic>>
  PROVE  (OneEdit /\ Owned)'
<1>1. OthersStay(q) /\ ~OnHomework(q) /\ ~OnHomework(q)'
  BY JobFields DEF Tells, Begins, OnHomework
<1> QED BY <1>1, OtherJobsKeepOwned

LEMMA PatchKeepsOwned ==
  ASSUME TypeOK, OneEdit, Owned, NEW q \in Requests, PatchStep(q)
  PROVE  (OneEdit /\ Owned)'
<1>1. ASSUME NEW w \in Staff, NEW gs \in SUBSET Groups, NEW row \in ExamRow,
             PatchExam(q, w, row, gs)
      PROVE  (OneEdit /\ Owned)'
  <2>1. UNCHANGED <<homework, assigned, faults, traffic>>
    BY <1>1 DEF PatchExam
  <2>2. Begins(q) /\ req'[q] = EditOf("exam", row, gs, {})
    BY <1>1, PatchExamDoes
  <2>3. OthersStay(q) /\ ~OnHomework(q) /\ ~OnHomework(q)'
    BY <2>2, JobFields DEF Begins, OnHomework
  <2> QED BY <2>1, <2>3, OtherJobsKeepOwned
<1>2. ASSUME NEW w \in Staff, NEW gs \in SUBSET Groups, NEW due \in {"far", "near", "past"},
             NEW t \in Titles, NEW us \in SUBSET Students, NEW sent \in BOOLEAN,
             PatchHomework(q, w, due, t, gs, us, sent)
      PROVE  (OneEdit /\ Owned)'
  <2>1. UNCHANGED <<homework, assigned, faults, traffic>>
    BY <1>2 DEF PatchHomework
  <2>2. Begins(q) /\ \E row \in HomeworkRow : req'[q] = EditOf("homework", row, gs, us)
    BY <1>2, PatchHomeworkDoes
  <2>3. /\ req'[q].op = "presave" /\ req'[q].on = "homework" /\ req'[q].groups = gs
        /\ req'[q].users = us /\ req'[q].second = FALSE
    BY <2>2, JobFields
  <2>4. gs # {} \/ us # {}
    BY <1>2 DEF PatchHomework, Assignable
  <2>5. EditsAlone => \A r \in Requests : ~OnHomework(r)
    BY <1>2, JobFields DEF PatchHomework, MayBegin, EditsAlone, AllQuiet, OnHomework
  <2>6. OnHomework(q)' /\ Ownership(q)'
    BY <2>3, <2>4 DEF OnHomework, Ownership
  <2> QED BY <2>1, <2>2, <2>5, <2>6, TheEditKeepsOwned DEF Begins
<1> QED BY <1>1, <1>2 DEF PatchStep

LEMMA PresaveKeepsOwned ==
  ASSUME TypeOK, OneEdit, Owned, NEW q \in Requests, Presave(q)
  PROVE  (OneEdit /\ Owned)'
<1>1. UNCHANGED <<homework, assigned, faults, traffic>>
  BY DEF Presave
<1>2. /\ OthersStay(q) /\ req[q].op = "presave" /\ req'[q].op = "save" /\ req'[q].on = req[q].on
      /\ req'[q].groups = req[q].groups /\ req'[q].users = req[q].users
      /\ req'[q].second = req[q].second
  BY PresaveDoes
<1>3. CASE OnHomework(q)
  <2>1. OnHomework(q)' /\ (EditsAlone /\ faults = 0 => Ownership(q)')
    BY <1>1, <1>2, <1>3 DEF OnHomework, Owned, Ownership
  <2> QED BY <1>1, <1>2, <1>3, <2>1, TheEditIsAlone, TheEditKeepsOwned
<1>4. CASE ~OnHomework(q)
  BY <1>1, <1>2, <1>4, OtherJobsKeepOwned DEF OnHomework
<1> QED BY <1>3, <1>4

LEMMA SaveKeepsOwned ==
  ASSUME TypeOK, OneEdit, Owned, NEW q \in Requests, Save(q)
  PROVE  (OneEdit /\ Owned)'
<1>1. UNCHANGED <<assigned, faults, traffic>>
  BY DEF Save
<1>2. /\ OthersStay(q) /\ req[q].op = "save" /\ req'[q].op = "tell" /\ req'[q].on = req[q].on
      /\ req'[q].groups = req[q].groups /\ req'[q].users = req[q].users
      /\ req'[q].second = req[q].second
      /\ req[q].on \in {"exam", "homework"}
  BY SaveDoes, JobKinds DEF Messengers
<1>3. CASE OnHomework(q)
  <2>1. req[q].second => homework'.users = req[q].users
    BY <1>3, SaveDoes DEF OnHomework
  <2>2. OnHomework(q)' /\ (EditsAlone /\ faults = 0 => Ownership(q)')
    BY <1>1, <1>2, <1>3, <2>1 DEF OnHomework, Owned, Ownership
  <2> QED BY <1>1, <1>2, <1>3, <2>2, TheEditIsAlone, TheEditKeepsOwned
<1>4. CASE ~OnHomework(q)
  <2>1. homework' = homework
    BY <1>2, <1>4, SaveDoes DEF OnHomework
  <2> QED BY <1>1, <1>2, <1>4, <2>1, OtherJobsKeepOwned DEF OnHomework
<1> QED BY <1>3, <1>4

LEMMA TellKeepsOwned ==
  ASSUME TypeOK, OneEdit, Owned, NEW q \in Requests, Tell(q)
  PROVE  (OneEdit /\ Owned)'
<1>1. UNCHANGED <<homework, assigned, faults, traffic>>
  BY DEF Tell
<1>2. /\ OthersStay(q) /\ req[q].op = "tell" /\ req'[q].op = "send" /\ req'[q].on = req[q].on
      /\ req'[q].groups = req[q].groups /\ req'[q].users = req[q].users
      /\ req'[q].second = req[q].second
  BY TellDoes
<1>3. CASE OnHomework(q)
  <2>1. OnHomework(q)' /\ (EditsAlone /\ faults = 0 => Ownership(q)')
    BY <1>1, <1>2, <1>3 DEF OnHomework, Owned, Ownership
  <2> QED BY <1>1, <1>2, <1>3, <2>1, TheEditIsAlone, TheEditKeepsOwned
<1>4. CASE ~OnHomework(q)
  BY <1>1, <1>2, <1>4, OtherJobsKeepOwned DEF OnHomework
<1> QED BY <1>3, <1>4

LEMMA SendKeepsOwned ==
  ASSUME TypeOK, OneEdit, Owned, NEW q \in Requests, NEW n \in Notices, Send(q, n)
  PROVE  (OneEdit /\ Owned)'
<1>1. UNCHANGED <<homework, assigned, faults, traffic>>
  BY DEF Send
<1>2. OthersStay(q) /\ req[q].op = "send" /\ req'[q].op = "send" /\ req'[q].on = req[q].on
  BY SendDoes
<1>3. CASE OnHomework(q)
  <2>1. /\ req'[q].groups = req[q].groups /\ req'[q].users = req[q].users
        /\ req'[q].second = req[q].second
    BY <1>3, SendDoes DEF OnHomework
  <2>2. OnHomework(q)' /\ (EditsAlone /\ faults = 0 => Ownership(q)')
    BY <1>1, <1>2, <1>3, <2>1 DEF OnHomework, Owned, Ownership
  <2> QED BY <1>1, <1>2, <1>3, <2>2, TheEditIsAlone, TheEditKeepsOwned
<1>4. CASE ~OnHomework(q)
  BY <1>1, <1>2, <1>4, OtherJobsKeepOwned DEF OnHomework
<1> QED BY <1>3, <1>4

\* All are told: the first save goes on to the groups; with the second one the
\* edit is done, and what it stored is not empty.
LEMMA SentKeepsOwned ==
  ASSUME TypeOK, OneEdit, Owned, NEW q \in Requests, Sent(q)
  PROVE  (OneEdit /\ Owned)'
<1>1. UNCHANGED <<homework, assigned, faults, traffic>>
  BY DEF Sent
<1>2. OthersStay(q) /\ req[q].op = "send"
  BY SentDoes
<1>3. CASE ~OnHomework(q)
  <2>1. ~OnHomework(q)'
    BY <1>2, <1>3, SentDoes, JobFields DEF OnHomework
  <2> QED BY <1>1, <1>2, <1>3, <2>1, OtherJobsKeepOwned
<1>4. CASE OnHomework(q) /\ req'[q] = Idle
  <2>1. req[q].second
    BY <1>2, <1>4, SentDoes, JobFields DEF OnHomework
  <2>2. EditsAlone /\ faults = 0 => Ownership(q)
    BY <1>4 DEF Owned
  <2>3. EditsAlone /\ faults = 0 => assigned["homework"] # {} \/ homework.users # {}
    BY <1>2, <2>1, <2>2 DEF Ownership
  <2>4. ~OnHomework(q)'
    BY <1>4, JobFields DEF OnHomework
  <2>5. EditsAlone => \A r \in Requests : ~OnHomework(r)'
    BY <1>2, <1>4, <2>4, TheEditIsAlone DEF OthersStay, OnHomework
  <2> QED BY <1>1, <2>3, <2>5 DEF OneEdit, Owned, EditsAlone
<1>5. CASE OnHomework(q) /\ req'[q] # Idle
  <2>1. /\ req'[q].op = "write" /\ req'[q].on = "homework" /\ req'[q].second = FALSE
        /\ req'[q].groups = req[q].groups /\ req'[q].users = req[q].users
    BY <1>5, SentDoes DEF OnHomework
  <2>2. OnHomework(q)' /\ (EditsAlone /\ faults = 0 => Ownership(q)')
    BY <1>5, <2>1 DEF OnHomework, Owned, Ownership
  <2> QED BY <1>1, <1>2, <1>5, <2>2, TheEditIsAlone, TheEditKeepsOwned
<1> QED BY <1>3, <1>4, <1>5

LEMMA WriteGroupsKeepsOwned ==
  ASSUME TypeOK, OneEdit, Owned, NEW q \in Requests, WriteGroups(q)
  PROVE  (OneEdit /\ Owned)'
<1>1. UNCHANGED <<homework, faults, traffic>>
  BY DEF WriteGroups
<1>2. OthersStay(q) /\ req[q].op = "write" /\ req[q].on \in {"exam", "homework"}
  BY WriteGroupsDoes
<1>3. CASE req[q].on = "homework"
  <2>1. /\ req'[q].op = "presave" /\ req'[q].on = "homework" /\ req'[q].second = TRUE
        /\ req'[q].groups = req[q].groups /\ req'[q].users = req[q].users
        /\ req[q].groups \subseteq assigned'["homework"]
    BY <1>3, WriteGroupsDoes
  <2>2. OnHomework(q) /\ OnHomework(q)' /\ (EditsAlone /\ faults = 0 => Ownership(q)')
    BY <1>2, <1>3, <2>1 DEF OnHomework, Owned, Ownership
  <2> QED BY <1>1, <1>2, <2>2, TheEditIsAlone, TheEditKeepsOwned
<1>4. CASE req[q].on = "exam"
  <2>1. ~OnHomework(q) /\ ~OnHomework(q)' /\ assigned'["homework"] = assigned["homework"]
    BY <1>4, WriteGroupsDoes, JobFields DEF OnHomework, Objects
  <2> QED BY <1>1, <1>2, <2>1, OtherJobsKeepOwned
<1> QED BY <1>2, <1>3, <1>4

LEMMA NextKeepsOwned ==
  ASSUME TypeOK, OneEdit /\ Owned, [Next]_vars PROVE (OneEdit /\ Owned)'
<1>1. ASSUME NEW q \in Requests, NEW g \in Groups, NEW u \in Students, Join(q, g, u)
      PROVE  (OneEdit /\ Owned)'
  BY <1>1, JoinDoes, TellsKeepsOwned DEF Join
<1>2. ASSUME NEW q \in Requests, NEW u \in Students, Grade(q, u) PROVE (OneEdit /\ Owned)'
  BY <1>2, GradeDoes, TellsKeepsOwned DEF Grade
<1>3. ASSUME NEW q \in Requests, Publish(q) PROVE (OneEdit /\ Owned)'
  BY <1>3, PublishDoes, TellsKeepsOwned DEF Publish
<1>4. ASSUME NEW q \in Requests, AlertDeadline(q) \/ AlertClosing(q) PROVE (OneEdit /\ Owned)'
  BY <1>4, AlertDoes, TellsKeepsOwned DEF AlertDeadline, AlertClosing
<1>5. ASSUME NEW q \in Requests, Crash(q) PROVE (OneEdit /\ Owned)'
  <2>1. faults' # 0 /\ traffic' = traffic /\ OthersStay(q) /\ ~OnHomework(q)'
    BY <1>5, CrashDoes, JobFields DEF Crash, OnHomework
  <2>2. \A r \in Requests : OnHomework(r)' => OnHomework(r)
    BY <2>1 DEF OthersStay, OnHomework
  <2> QED BY <2>1, <2>2 DEF OneEdit, Owned, EditsAlone
<1>6. ASSUME UNCHANGED <<assigned, req, faults, traffic>>, homework'.users = homework.users
      PROVE  (OneEdit /\ Owned)'
  BY <1>6, OthersKeepOwned DEF OnHomework
<1>7. ASSUME NEW g \in Groups, Dissolve(g) \/ \E u \in Students : Leave(g, u)
      PROVE  (OneEdit /\ Owned)'
  BY <1>6, <1>7 DEF Dissolve, Leave
<1>8. CASE (\E u \in Students : Approve(u)) \/ UNCHANGED vars
  BY <1>6, <1>8 DEF Approve, vars
<1>9. CASE TimePasses
  <2>1. homework'.users = homework.users
    BY <1>9 DEF TimePasses, TypeOK, HomeworkRow
  <2> QED BY <1>6, <1>9, <2>1 DEF TimePasses
<1> QED BY <1>1, <1>2, <1>3, <1>4, <1>5, <1>7, <1>8, <1>9, PatchKeepsOwned, PresaveKeepsOwned,
           SaveKeepsOwned, TellKeepsOwned, SendKeepsOwned, SentKeepsOwned, WriteGroupsKeepsOwned
        DEF Next, RequestStep

\* A homework whose edits do not overlap is left with a group or a user,
\* whatever else goes on (HomeworkAssignmentSerializer.validate and update).
THEOREM HomeworkIsSomebodys == Spec => []SomebodyAssigned
<1>1. Init => OneEdit /\ Owned
  BY PeopleAssumption, JobFields DEF Init, OneEdit, Owned, OnHomework, Objects
<1>2. TypeOK /\ OneEdit /\ Owned /\ [Next]_vars => (OneEdit /\ Owned)'
  BY NextKeepsOwned
<1>3. Owned => SomebodyAssigned
  BY JobFields DEF Owned, SomebodyAssigned, EditsAlone, AllQuiet, OnHomework
<1> QED BY <1>1, <1>2, <1>3, TypeCorrect, PTL DEF Spec

-----------------------------------------------------------------------------
(* The verdict.                                                            *)

Scored == [Types -> Nat]

\* A pass needs 19 points in listening, 38 in the other sections and the pass
\* mark of the level in all (services.py _calculate_jlpt_result).
THEOREM PassNeedsEveryArea ==
  ASSUME NEW level \in Levels, NEW score \in Scored, Passed(level, score)
  PROVE  /\ score["LISTENING"] >= 19
         /\ score["VOCAB"] + score["GRAMMAR_READING"] + score["FULL_WRITTEN"] >= 38
         /\ Total(score) >= PassMark(level)
<1>1. \A t \in Types : score[t] \in Nat
  BY DEF Scored
<1>2. score["LISTENING"] >= 19 /\ Total(score) >= PassMark(level)
  BY DEF Passed, AreasPassed
<1>3. CASE level \in {"N1", "N2", "N3"}
  <2>1. Language(score) >= 1900 /\ Reading(score) >= 1900
    BY <1>3 DEF Passed, AreasPassed
  <2>2. Language(score) + Reading(score)
          = 100 * (score["VOCAB"] + score["GRAMMAR_READING"] + score["FULL_WRITTEN"])
    BY <1>1 DEF Language, Reading, Types
  <2> QED BY <1>1, <1>2, <2>1, <2>2 DEF Language, Reading, Types
<1>4. CASE level \notin {"N1", "N2", "N3"}
  BY <1>1, <1>2, <1>4 DEF Passed, AreasPassed, Types
<1> QED BY <1>3, <1>4

\* One more right answer never turns a pass into a fail: the verdict is
\* monotone in the scores of the sections.
THEOREM VerdictIsMonotone ==
  ASSUME NEW level \in Levels, NEW low \in Scored, NEW high \in Scored,
         \A t \in Types : low[t] =< high[t], Passed(level, low)
  PROVE  Passed(level, high)
<1>1. \A t \in Types : low[t] \in Nat /\ high[t] \in Nat
  BY DEF Scored
<1>2. PassMark(level) \in Nat
  BY DEF PassMark, Levels
<1>3. Total(high) >= Total(low) /\ Language(high) >= Language(low)
        /\ Reading(high) >= Reading(low)
  BY <1>1 DEF Total, Language, Reading, Types
<1>4. Total(high) >= PassMark(level)
  BY <1>1, <1>2, <1>3 DEF Passed, Total, Types
<1>5. high["LISTENING"] >= 19
  BY <1>1 DEF Passed, AreasPassed, Types
<1>6. CASE level \in {"N1", "N2", "N3"}
  <2>1. Language(high) >= 1900 /\ Reading(high) >= 1900
    BY <1>1, <1>3, <1>6 DEF Passed, AreasPassed, Language, Reading, Types
  <2> QED BY <1>4, <1>5, <1>6, <2>1 DEF Passed, AreasPassed
<1>7. CASE level \notin {"N1", "N2", "N3"}
  <2>1. high["VOCAB"] + high["GRAMMAR_READING"] >= 38
    BY <1>1, <1>7 DEF Passed, AreasPassed, Types
  <2> QED BY <1>4, <1>5, <1>7, <2>1 DEF Passed, AreasPassed
<1> QED BY <1>6, <1>7

-----------------------------------------------------------------------------
(* The snapshot.                                                           *)

\* A snapshot nothing was edited after is what a snapshot of now would be, and
\* the practice result shown is what grading now would give.
SnapshotIsCurrent ==
  /\ paper \in Paper
  /\ edits \in Nat
  /\ \E s, r : attempt \in [phase : Phases, seen : SUBSET Questions, answers : Answers,
                           snapshot : {s}, taken : Nat, results : {r}]
  /\ attempt.taken =< edits
  /\ attempt.phase = "submitting" /\ attempt.taken = edits
       => attempt.snapshot = SnapshotOf(paper.questions)
  /\ shown # None => shown.results = Graded(paper.questions, shown.answers)

LEMMA EditedPaper ==
  ASSUME paper \in Paper, NEW q \in Questions, NEW question \in Question
  PROVE  [paper EXCEPT !.questions[q] = question] \in Paper
BY DEF Paper

LEMMA InitIsCurrent == GradingInit => SnapshotIsCurrent
BY PapersAssumption, NoneAssumption
   DEF GradingInit, SnapshotIsCurrent, NoAnswers, Answers, Phases

LEMMA EditKeepsCurrent ==
  ASSUME SnapshotIsCurrent, NEW q \in Questions, NEW question \in Question,
         Edit(q, question)
  PROVE  SnapshotIsCurrent'
<1>1. paper' \in Paper
  BY EditedPaper DEF SnapshotIsCurrent, Edit
<1>2. edits' \in Nat /\ attempt.taken < edits'
  BY DEF SnapshotIsCurrent, Edit
<1> QED BY <1>1, <1>2 DEF SnapshotIsCurrent, Edit

LEMMA NextKeepsCurrent == SnapshotIsCurrent /\ [GradingNext]_gradingVars => SnapshotIsCurrent'
<1> SUFFICES ASSUME SnapshotIsCurrent, [GradingNext]_gradingVars PROVE SnapshotIsCurrent'
  OBVIOUS
<1>1. CASE Start
  BY <1>1 DEF SnapshotIsCurrent, Start, Visible, Phases, Graded
<1>2. ASSUME NEW answers \in SentAnswers, Practice(answers) PROVE SnapshotIsCurrent'
  BY <1>2 DEF SnapshotIsCurrent, Practice, Graded
<1>3. ASSUME NEW answers \in SentAnswers, TakeSnapshot(answers) PROVE SnapshotIsCurrent'
  <2>1. /\ attempt'.taken = edits /\ attempt'.snapshot = SnapshotOf(paper.questions)
        /\ attempt' = [phase |-> "submitting", seen |-> attempt.seen, answers |-> answers,
                       snapshot |-> SnapshotOf(paper.questions), taken |-> edits,
                       results |-> attempt.results]
    BY <1>3 DEF SnapshotIsCurrent, TakeSnapshot
  <2>2. attempt.seen \subseteq Questions /\ answers \in Answers
    BY DEF SnapshotIsCurrent, SentAnswers
  <2> QED BY <1>3, <2>1, <2>2 DEF SnapshotIsCurrent, TakeSnapshot, Phases, Graded
<1>4. CASE SaveResults
  BY <1>4 DEF SnapshotIsCurrent, SaveResults, Phases, Graded
<1>5. CASE SaveFails \/ GradingCrash
  <2>1. attempt' = [phase |-> "started", seen |-> attempt.seen, answers |-> NoAnswers,
                    snapshot |-> None, taken |-> 0, results |-> attempt.results]
    BY <1>5 DEF SnapshotIsCurrent, SaveFails, GradingCrash, Unsaved
  <2>2. attempt.seen \subseteq Questions /\ NoAnswers \in Answers
    BY DEF SnapshotIsCurrent, NoAnswers, Answers
  <2> QED BY <1>5, <2>1, <2>2 DEF SnapshotIsCurrent, SaveFails, GradingCrash, Phases, Graded
<1>6. CASE Toggle \/ UNCHANGED gradingVars
  BY <1>6 DEF SnapshotIsCurrent, Toggle, gradingVars, Graded
<1>7. ASSUME NEW q \in Questions, NEW question \in Question, Edit(q, question)
      PROVE SnapshotIsCurrent'
  BY <1>7, EditKeepsCurrent
<1>8. ASSUME NEW q \in Questions PROVE paper.questions[q] \in Question
  BY <1>8 DEF SnapshotIsCurrent, Paper
<1>9. ASSUME NEW q \in Questions, Add(q) \/ Remove(q) \/ Hide(q) PROVE SnapshotIsCurrent'
  BY <1>7, <1>8, <1>9 DEF Add, Remove, Hide, Question, Places
<1>10. ASSUME NEW q \in Questions, NEW key \in Options, NEW score \in Scores,
              Rewrite(q, key, score)
       PROVE SnapshotIsCurrent'
  BY <1>7, <1>8, <1>10, ScoresAssumption DEF Rewrite, Question
<1> QED BY <1>1, <1>2, <1>3, <1>4, <1>5, <1>6, <1>9, <1>10 DEF GradingNext

\* When every alive question is visible, grading a snapshot is grading the paper.
LEMMA SnapshotGradesAlike ==
  ASSUME NEW questions \in [Questions -> Question], NEW answers \in Answers,
         NEW kind, NEW level, Fetched(questions) = Visible(questions)
  PROVE  Grading(kind, level, SnapshotOf(questions), answers)
           = Grading(kind, level, questions, answers)
<1> DEFINE copy == SnapshotOf(questions)
<1>1. copy \in [Questions -> Question]
  BY DEF SnapshotOf, Visible, Question, Places
<1>2. \A q \in Questions : copy[q].score = questions[q].score /\ copy[q].type = questions[q].type
                           /\ copy[q].key = questions[q].key
  BY DEF SnapshotOf, Visible, Question
<1>3. Fetched(copy) = Fetched(questions)
  BY DEF SnapshotOf, Visible, Fetched, Question
<1>4. Marked(copy, answers) = Marked(questions, answers)
        /\ Correct(copy, answers) = Correct(questions, answers)
  <2>1. Marked(copy, answers) = Marked(questions, answers)
    BY <1>3 DEF Marked
  <2>2. \A q \in Marked(questions, answers) : copy[q].key = questions[q].key
    BY <1>2 DEF Marked, Fetched
  <2> HIDE DEF copy
  <2> QED BY <2>1, <2>2 DEF Correct
<1>5. [q \in Questions |-> copy[q].score] = [q \in Questions |-> questions[q].score]
  BY <1>2
<1>6. \A Q : ScoreOf(copy, Q) = ScoreOf(questions, Q)
  BY <1>5 DEF ScoreOf
<1>7. SectionScores(copy, Correct(questions, answers))
        = SectionScores(questions, Correct(questions, answers))
  <2>1. \A t \in Types : {q \in Correct(questions, answers) : copy[q].type = t}
                           = {q \in Correct(questions, answers) : questions[q].type = t}
    BY <1>2 DEF Correct, Marked, Fetched
  <2> QED BY <1>6, <2>1 DEF SectionScores
<1> QED BY <1>3, <1>4, <1>6, <1>7 DEF Grading

LEMMA SavedResults ==
  ASSUME SnapshotIsCurrent, GradingNext, SavedAsCopied
  PROVE  /\ attempt'.results = Graded(paper.questions, attempt.answers)
         /\ attempt'.snapshot = SnapshotOf(paper.questions)
         /\ attempt'.answers = attempt.answers
         /\ paper' = paper /\ shown' = shown
<1>1. SaveResults
  BY DEF GradingNext, SavedAsCopied, Start, Practice, TakeSnapshot, SaveFails,
         GradingCrash, Unsaved,
         Toggle, Edit, Rewrite, Add, Remove, Hide, SnapshotIsCurrent
<1>2. /\ attempt'.results = Graded(paper.questions, attempt.answers)
      /\ attempt'.snapshot = attempt.snapshot /\ attempt'.answers = attempt.answers
      /\ paper' = paper /\ shown' = shown
  BY <1>1 DEF SaveResults, SnapshotIsCurrent
<1>3. attempt.snapshot = SnapshotOf(paper.questions)
  BY DEF SavedAsCopied, SnapshotIsCurrent
<1> QED BY <1>2, <1>3

\* The snapshot kept with an attempt explains its results, and so do the
\* practice runs (services.py create_snapshot, calculate_result_dry_run).
THEOREM SnapshotsExplain == GradingSpec => SnapshotExplainsResult
<1>1. SnapshotIsCurrent /\ [GradingNext]_gradingVars =>
        [SavedAsCopied =>
           /\ attempt'.results = Graded(attempt'.snapshot, attempt'.answers)
           /\ shown # None /\ shown.answers = attempt'.answers
                => shown.results = attempt'.results]_gradingVars
  <2> SUFFICES ASSUME SnapshotIsCurrent, GradingNext, SavedAsCopied
               PROVE  /\ attempt'.results = Graded(attempt'.snapshot, attempt'.answers)
                      /\ shown # None /\ shown.answers = attempt'.answers
                           => shown.results = attempt'.results
    BY DEF SavedAsCopied, gradingVars
  <2>1. /\ attempt'.results = Graded(paper.questions, attempt.answers)
        /\ attempt'.snapshot = SnapshotOf(paper.questions)
        /\ attempt'.answers = attempt.answers /\ paper' = paper /\ shown' = shown
    BY SavedResults
  <2>2. paper.questions \in [Questions -> Question] /\ attempt.answers \in Answers
    BY DEF SnapshotIsCurrent, Paper
  <2>3. Graded(SnapshotOf(paper.questions), attempt.answers)
          = Graded(paper.questions, attempt.answers)
    BY <2>2, SnapshotGradesAlike DEF SavedAsCopied, Graded
  <2>4. attempt'.results = Graded(attempt'.snapshot, attempt'.answers)
    BY <2>1, <2>3
  <2>5. shown # None /\ shown.answers = attempt'.answers => shown.results = attempt'.results
    BY <2>1 DEF SnapshotIsCurrent
  <2> QED BY <2>4, <2>5
<1>2. QED
  BY <1>1, InitIsCurrent, NextKeepsCurrent, PTL DEF GradingSpec, SnapshotExplainsResult

-----------------------------------------------------------------------------
(* Types and sums of a grading.                                            *)

LEMMA ScoresAreSums ==
  ASSUME NEW questions \in [Questions -> Question]
  PROVE  /\ [q \in Questions |-> questions[q].score] \in [Questions -> Nat]
         /\ \A Q \in SUBSET Questions : ScoreOf(questions, Q) \in Nat
         /\ \A Q \in SUBSET Questions : \A R \in SUBSET Q :
              ScoreOf(questions, R) =< ScoreOf(questions, Q)
         /\ \A Q \in SUBSET Questions, R \in SUBSET Questions : Q \cap R = {} =>
              ScoreOf(questions, Q \cup R) = ScoreOf(questions, Q) + ScoreOf(questions, R)
<1> DEFINE f == [q \in Questions |-> questions[q].score]
<1>1. f \in [Questions -> Nat]
  BY DEF Question
<1>2. \A Q : ScoreOf(questions, Q) = SumFunctionOnSet(f, Q)
  BY DEF ScoreOf
<1> HIDE DEF f
<1>3. \A Q \in SUBSET Questions : ScoreOf(questions, Q) \in Nat
  BY <1>1, <1>2, QuestionsAssumption, SumType
<1>4. \A Q \in SUBSET Questions : \A R \in SUBSET Q :
         ScoreOf(questions, R) =< ScoreOf(questions, Q)
  BY <1>1, <1>2, QuestionsAssumption, SumGrows
<1>5. \A Q \in SUBSET Questions, R \in SUBSET Questions : Q \cap R = {} =>
         ScoreOf(questions, Q \cup R) = ScoreOf(questions, Q) + ScoreOf(questions, R)
  BY <1>1, <1>2, QuestionsAssumption, SumOfUnion
<1> QED BY <1>1, <1>3, <1>4, <1>5 DEF f

LEMMA GradingIsTyped ==
  ASSUME NEW questions \in [Questions -> Question], NEW answers \in Answers, NEW kind, NEW level
  PROVE  LET results == Grading(kind, level, questions, answers) IN
         /\ results \in Results
         /\ results.total =< results.max
<1> DEFINE right == Correct(questions, answers)
           found == Marked(questions, answers)
           scores == SectionScores(questions, right)
           results == Grading(kind, level, questions, answers)
<1>1. /\ right \subseteq found /\ found \subseteq Fetched(questions)
      /\ Fetched(questions) \subseteq Questions
  BY DEF Correct, Marked, Fetched
<1>2. /\ results.marked = found /\ results.correct = right
      /\ results.total = ScoreOf(questions, right)
      /\ results.max = ScoreOf(questions, IF kind = "quiz" THEN found ELSE Fetched(questions))
      /\ results.passed = IF kind = "quiz" THEN None ELSE Passed(level, scores)
      /\ results = [marked |-> results.marked, correct |-> results.correct,
                    total |-> results.total, max |-> results.max, passed |-> results.passed]
  BY DEF Grading
<1> HIDE DEF right, found, scores, results
<1>3. results.total \in Nat /\ results.max \in Nat /\ results.total =< results.max
  <2>1. CASE kind = "quiz"
    BY <1>1, <1>2, <2>1, ScoresAreSums
  <2>2. CASE kind # "quiz"
    <3>1. right \in SUBSET Fetched(questions)
      BY <1>1
    <3> QED BY <1>1, <1>2, <2>2, <3>1, ScoresAreSums
  <2> QED BY <2>1, <2>2
<1>4. results.passed \in BOOLEAN \cup {None}
  <2>1. Passed(level, scores) \in BOOLEAN
    BY Zenon DEF Passed
  <2> QED BY <1>2, <2>1
<1>5. results \in Results
  BY <1>1, <1>2, <1>3, <1>4 DEF Results
<1> QED BY <1>3, <1>5 DEF results

LEMMA SnapshotsAreTyped ==
  ASSUME NEW questions \in [Questions -> Question]
  PROVE  SnapshotOf(questions) \in [Questions -> Question]
BY DEF SnapshotOf, Visible, Question, Places

LEMMA EditIsTyped ==
  ASSUME GradingTypeOK, NEW q \in Questions, NEW question \in Question, Edit(q, question)
  PROVE  GradingTypeOK'
<1>1. paper' \in Paper
  BY EditedPaper DEF GradingTypeOK, Edit
<1>2. edits' \in 0..MaxEdits
  BY NoneAssumption DEF GradingTypeOK, Edit, MayEdit
<1> QED BY <1>1, <1>2 DEF GradingTypeOK, Edit

LEMMA NextIsTyped == ASSUME GradingTypeOK, [GradingNext]_gradingVars PROVE GradingTypeOK'
<1>1. /\ attempt.phase \in Phases /\ attempt.seen \subseteq Questions /\ attempt.answers \in Answers
      /\ attempt.snapshot \in [Questions -> Question] \cup {None}
      /\ attempt.taken \in 0..MaxEdits /\ attempt.results \in Results \cup {None}
      /\ attempt \in Attempt /\ paper.questions \in [Questions -> Question]
  BY DEF GradingTypeOK, Attempt, Paper
<1>2. CASE Start
  <2>1. attempt' = [attempt EXCEPT !.phase = "started",
                                   !.seen = attempt.seen \cup Visible(paper.questions)]
    BY <1>2 DEF Start
  <2>2. attempt' \in Attempt /\ attempt'.results = attempt.results
    BY <1>1, <2>1 DEF Attempt, Phases, Visible
  <2> QED BY <1>2, <2>2 DEF GradingTypeOK, Start
<1>3. ASSUME NEW answers \in SentAnswers, Practice(answers) PROVE GradingTypeOK'
  <2>1. answers \in Answers /\ Graded(paper.questions, answers) \in Results
    BY <1>1, GradingIsTyped DEF SentAnswers, Graded
  <2> QED BY <1>3, <2>1 DEF GradingTypeOK, Practice
<1>4. ASSUME NEW answers \in SentAnswers, TakeSnapshot(answers) PROVE GradingTypeOK'
  <2>1. answers \in Answers /\ SnapshotOf(paper.questions) \in [Questions -> Question]
    BY <1>1, SnapshotsAreTyped DEF SentAnswers
  <2>2. attempt' = [attempt EXCEPT !.phase = "submitting", !.answers = answers,
                      !.snapshot = SnapshotOf(paper.questions), !.taken = edits]
        /\ edits \in 0..MaxEdits
    BY <1>4 DEF TakeSnapshot, GradingTypeOK
  <2>3. attempt' \in Attempt /\ attempt'.results = attempt.results
    BY <1>1, <2>1, <2>2 DEF Attempt, Phases
  <2> QED BY <1>4, <2>3 DEF GradingTypeOK, TakeSnapshot
<1>5. CASE SaveResults
  <2> DEFINE results == Graded(paper.questions, attempt.answers)
  <2>1. results \in Results /\ results.total =< results.max
    BY <1>1, GradingIsTyped DEF Graded
  <2>2. attempt' = [attempt EXCEPT !.phase = "graded", !.results = results]
        /\ results.total < 1000
    BY <1>5 DEF SaveResults, Storable
  <2> HIDE DEF results
  <2>3. attempt' \in Attempt /\ attempt'.results = results
    BY <1>1, <2>1, <2>2 DEF Attempt, Phases
  <2>4. results.total \in 0..999
    BY <2>1, <2>2 DEF Results
  <2> QED BY <1>5, <2>1, <2>3, <2>4 DEF GradingTypeOK, SaveResults
<1>6. CASE SaveFails \/ GradingCrash
  <2>1. attempt' = [attempt EXCEPT !.phase = "started", !.answers = NoAnswers,
                                   !.snapshot = None, !.taken = 0]
    BY <1>6 DEF SaveFails, GradingCrash, Unsaved
  <2>2. NoAnswers \in Answers /\ 0 \in 0..MaxEdits
    BY NoneAssumption DEF NoAnswers, Answers
  <2>3. attempt' \in Attempt /\ attempt'.results = attempt.results
    BY <1>1, <2>1, <2>2 DEF Attempt, Phases
  <2> QED BY <1>6, <2>3 DEF GradingTypeOK, SaveFails, GradingCrash
<1>7. CASE Toggle \/ UNCHANGED gradingVars
  BY <1>7 DEF GradingTypeOK, Toggle, gradingVars
<1>8. ASSUME NEW q \in Questions PROVE paper.questions[q] \in Question
  BY <1>1, <1>8
<1>9. ASSUME NEW q \in Questions, Add(q) \/ Remove(q) \/ Hide(q) PROVE GradingTypeOK'
  BY <1>8, <1>9, EditIsTyped DEF Add, Remove, Hide, Question, Places
<1>10. ASSUME NEW q \in Questions, NEW key \in Options, NEW score \in Scores,
              Rewrite(q, key, score)
       PROVE  GradingTypeOK'
  BY <1>8, <1>10, EditIsTyped, ScoresAssumption DEF Rewrite, Question
<1> QED BY <1>2, <1>3, <1>4, <1>5, <1>6, <1>7, <1>9, <1>10 DEF GradingNext

\* For every paper and whatever is edited: scores are sums of natural numbers,
\* what is stored fits its column, and nobody earns more than there was to earn.
THEOREM GradesAreTyped == GradingSpec => []GradingTypeOK
<1>1. GradingInit => GradingTypeOK
  BY PapersAssumption, NoneAssumption
     DEF GradingInit, GradingTypeOK, Attempt, Phases, NoAnswers, Answers
<1>2. GradingTypeOK /\ [GradingNext]_gradingVars => GradingTypeOK'
  BY NextIsTyped
<1> QED BY <1>1, <1>2, PTL DEF GradingSpec

\* What the snapshot and the answers earn is what the sections earned.
LEMMA EarnedIsGraded ==
  ASSUME NEW questions \in [Questions -> Question], NEW answers \in Answers,
         Fetched(questions) = Visible(questions), NEW types \in SUBSET Types
  PROVE  EarnedOn(SnapshotOf(questions), answers, types)
           = ScoreOf(questions, {q \in Correct(questions, answers) : questions[q].type \in types})
<1> DEFINE copy == SnapshotOf(questions)
           earned == {q \in Answered(answers) :
                        /\ copy[q].place = "there" /\ copy[q].type \in types
                        /\ copy[q].key = answers[q]}
           right == {q \in Correct(questions, answers) : questions[q].type \in types}
<1>1. \A q \in Questions : copy[q].score = questions[q].score
  BY DEF SnapshotOf, Visible, Question
<1>2. \A q \in Questions : /\ copy[q].type = questions[q].type
                           /\ copy[q].key = questions[q].key
                           /\ questions[q].key \in Options \cup {None}
                           /\ (copy[q].place = "there") <=> (q \in Visible(questions))
  BY DEF SnapshotOf, Visible, Question
<1>3. \A q \in Questions : q \in earned <=> q \in right
  <2> SUFFICES ASSUME NEW q \in Questions PROVE q \in earned <=> q \in right
    OBVIOUS
  <2>1. q \in earned <=> /\ answers[q] # None
                         /\ q \in Visible(questions) /\ questions[q].type \in types
                         /\ questions[q].key = answers[q]
    BY <1>2 DEF Answered
  <2>2. q \in right <=> /\ q \in Fetched(questions) /\ answers[q] # None
                        /\ questions[q].key # None /\ questions[q].key = answers[q]
                        /\ questions[q].type \in types
    BY DEF Correct, Marked, Answered
  <2> HIDE DEF earned, right
  <2> QED BY <2>1, <2>2
<1>4. earned = right
  <2>1. earned \subseteq Questions /\ right \subseteq Questions
    BY DEF Correct, Marked, Answered
  <2> HIDE DEF earned, right
  <2> QED BY <1>3, <2>1
<1>5. [q \in Questions |-> copy[q].score] = [q \in Questions |-> questions[q].score]
  BY <1>1
<1>6. ScoreOf(copy, right) = ScoreOf(questions, right)
  BY <1>5 DEF ScoreOf
<1>7. EarnedOn(copy, answers, types) = ScoreOf(copy, earned)
  BY DEF EarnedOn
<1>8. ScoreOf(copy, earned) = ScoreOf(copy, right)
  BY <1>4, Zenon
<1> QED BY <1>6, <1>7, <1>8

\* The sections of a paper add up.
LEMMA SectionsAddUp ==
  ASSUME NEW questions \in [Questions -> Question], NEW Q \in SUBSET Questions
  PROVE  LET score == SectionScores(questions, Q)
             Of(types) == ScoreOf(questions, {q \in Q : questions[q].type \in types})
         IN /\ score \in Scored
            /\ Of({"LISTENING"}) = score["LISTENING"]
            /\ Of(Types \ {"LISTENING"})
                 = score["VOCAB"] + score["GRAMMAR_READING"] + score["FULL_WRITTEN"]
            /\ Of(Types) = Total(score)
<1> DEFINE In(types) == {q \in Q : questions[q].type \in types}
           score == SectionScores(questions, Q)
           S(types) == ScoreOf(questions, In(types))
<1>1. \A t \in Types : score[t] = ScoreOf(questions, {q \in Q : questions[q].type = t})
  BY DEF SectionScores
<1>2. \A t : {q \in Q : questions[q].type = t} = In({t})
  OBVIOUS
<1>3. \A t \in Types : score[t] = S({t})
  BY <1>1, <1>2, Zenon
<1>4. \A types : In(types) \in SUBSET Questions /\ S(types) \in Nat
  BY ScoresAreSums
<1>5. \A types, more : types \cap more = {} => S(types \cup more) = S(types) + S(more)
  <2> SUFFICES ASSUME NEW types, NEW more, types \cap more = {}
               PROVE  S(types \cup more) = S(types) + S(more)
    OBVIOUS
  <2>1. In(types \cup more) = In(types) \cup In(more) /\ In(types) \cap In(more) = {}
    OBVIOUS
  <2>2. ScoreOf(questions, In(types) \cup In(more))
          = ScoreOf(questions, In(types)) + ScoreOf(questions, In(more))
    BY <1>4, <2>1, ScoresAreSums
  <2>3. ScoreOf(questions, In(types \cup more)) = ScoreOf(questions, In(types) \cup In(more))
    BY <2>1, Zenon
  <2> QED BY <2>2, <2>3
<1>6. score \in Scored
  BY <1>3, <1>4 DEF Scored, SectionScores
<1> HIDE DEF S, In
<1> DEFINE V == {"VOCAB"}
           G == {"GRAMMAR_READING"}
           F == {"FULL_WRITTEN"}
           L == {"LISTENING"}
<1>7. S((V \cup G) \cup F) = S(V) + S(G) + S(F)
  <2>1. S((V \cup G) \cup F) = S(V \cup G) + S(F)
    <3>1. (V \cup G) \cap F = {}
      OBVIOUS
    <3> QED BY <1>5, <3>1
  <2>2. S(V \cup G) = S(V) + S(G)
    <3>1. V \cap G = {}
      OBVIOUS
    <3> QED BY <1>5, <3>1
  <2> QED BY <2>1, <2>2
<1>8. S(((V \cup G) \cup F) \cup L) = S((V \cup G) \cup F) + S(L)
  <2>1. ((V \cup G) \cup F) \cap L = {}
    OBVIOUS
  <2> QED BY <1>5, <2>1
<1>9. (V \cup G) \cup F = Types \ L /\ ((V \cup G) \cup F) \cup L = Types
  BY DEF Types
<1>10. S(Types \ L) = S((V \cup G) \cup F) /\ S(Types) = S(((V \cup G) \cup F) \cup L)
  BY <1>9, Zenon
<1>11. /\ S(L) = score["LISTENING"]
       /\ S(Types \ L) = score["VOCAB"] + score["GRAMMAR_READING"] + score["FULL_WRITTEN"]
       /\ S(Types) = Total(score)
  BY <1>3, <1>7, <1>8, <1>10, <1>4 DEF Total, Types
<1> QED BY <1>6, <1>11 DEF S, In

\* A pass that is stored for an undisturbed snapshot can be recomputed from it:
\* question by question the answers earn the minimum of listening, that of the
\* other sections and the pass mark (services.py _calculate_jlpt_result).
THEOREM PassesAreEarned == GradingSpec => PassIsEarned
<1> DEFINE Earned(types) == EarnedOn(attempt'.snapshot, attempt'.answers, types)
<1>1. SnapshotIsCurrent /\ [GradingNext]_gradingVars =>
        [SavedAsCopied /\ attempt'.results.passed = TRUE =>
           LET Gained(types) == EarnedOn(attempt'.snapshot, attempt'.answers, types)
           IN /\ Gained({"LISTENING"}) >= 19
              /\ Gained(Types \ {"LISTENING"}) >= 38
              /\ Gained(Types) >= PassMark(paper.level)]_gradingVars
  <2> SUFFICES ASSUME SnapshotIsCurrent, GradingNext, SavedAsCopied, attempt'.results.passed = TRUE
               PROVE  /\ Earned({"LISTENING"}) >= 19
                      /\ Earned(Types \ {"LISTENING"}) >= 38
                      /\ Earned(Types) >= PassMark(paper.level)
    BY DEF SavedAsCopied, gradingVars
  <2> DEFINE questions == paper.questions
             answers == attempt.answers
             right == Correct(questions, answers)
             score == SectionScores(questions, right)
  <2>1. /\ attempt'.results = Graded(questions, answers)
        /\ attempt'.snapshot = SnapshotOf(questions) /\ attempt'.answers = answers
    BY SavedResults
  <2>2. /\ questions \in [Questions -> Question] /\ answers \in Answers
        /\ paper.level \in Levels /\ Fetched(questions) = Visible(questions)
    BY DEF SnapshotIsCurrent, Paper, SavedAsCopied
  <2>3. Passed(paper.level, score)
    <3>1. attempt'.results.passed
            = IF paper.kind = "quiz" THEN None ELSE Passed(paper.level, score)
      BY <2>1 DEF Graded, Grading
    <3> QED BY <3>1, NoneAssumption
  <2>4. right \in SUBSET Questions
    BY DEF Correct, Marked, Fetched
  <2>5. \A types \in SUBSET Types :
          Earned(types) = ScoreOf(questions, {q \in right : questions[q].type \in types})
    BY <2>1, <2>2, EarnedIsGraded
  <2> HIDE DEF questions, answers, right, score
  <2>6. /\ score \in Scored
        /\ Earned({"LISTENING"}) = score["LISTENING"]
        /\ Earned(Types \ {"LISTENING"})
              = score["VOCAB"] + score["GRAMMAR_READING"] + score["FULL_WRITTEN"]
        /\ Earned(Types) = Total(score)
    <3>1. {"LISTENING"} \in SUBSET Types /\ Types \ {"LISTENING"} \in SUBSET Types
          /\ Types \in SUBSET Types
      BY DEF Types
    <3> QED BY <2>2, <2>4, <2>5, <3>1, SectionsAddUp DEF score
  <2> QED BY <2>2, <2>3, <2>6, PassNeedsEveryArea
<1>2. QED
  BY <1>1, InitIsCurrent, NextKeepsCurrent, PTL DEF GradingSpec, PassIsEarned
=============================================================================
