---------------------------- MODULE Assignments ----------------------------
(***************************************************************************)
(* The assignments and notifications apps: one exam and one homework of a  *)
(* center, the groups and users they are assigned to, and the notices that *)
(* are sent when they are edited.                                          *)
(*                                                                         *)
(* A PATCH loads a row, checks what was sent, saves the whole row and then *)
(* replaces the assigned groups and users in statements of their own.  The *)
(* signal handlers run between them: pre_save reads the row as it was,     *)
(* post_save decides who is told and writes their notices one by one.      *)
(* There is no transaction around it.  Creating an assignment through the  *)
(* API fails (the serializers leave ids in the arguments of the model), so *)
(* the two are there from the start.                                       *)
(***************************************************************************)
EXTENDS Integers, FiniteSets

CONSTANTS
  Groups,      \* groups of the center
  Students,    \* users with a student membership, or without any group
  Teachers,    \* users with a teacher membership
  Admins,      \* center admins
  Teaches,     \* Teaches[k]: the groups teacher k has a membership in
  First,       \* the groups both are assigned to at the start
  Enrolled,    \* the student memberships at the start, <<group, student>>
  Unapproved,  \* the students not approved at the start
  Requests,    \* requests and tasks being served at the same time
  MaxFaults,   \* bound on the processes killed
  Traffic      \* the kinds of load the module is checked under

Staff  == Teachers \cup Admins
People == Students \cup Staff

ASSUME PeopleAssumption ==
  /\ Students \cap Staff = {} /\ Teachers \cap Admins = {}
  /\ Teaches \in [Teachers -> SUBSET Groups]
  /\ First \subseteq Groups /\ First # {}
  /\ Enrolled \subseteq Groups \X Students /\ Unapproved \subseteq Students
ASSUME BoundsAssumption == MaxFaults \in Nat

Kinds == {"exam", "regroup", "reword", "homework", "join", "leave", "dissolve", "approve",
          "publish", "grade", "alerts"}
ASSUME TrafficAssumption ==
  Traffic \subseteq [kinds : SUBSET Kinds, alone : SUBSET Kinds, faults : 0..MaxFaults]

VARIABLES
  exam,       \* the row of exam_assignments
  homework,   \* the row of homework_assignments
  assigned,   \* assigned["exam"], assigned["homework"]: the assigned groups
  listed,     \* is the mock test of both PUBLISHED?
  members,    \* the student memberships, <<group, student>>
  dead,       \* the groups that are soft-deleted
  approved,   \* the students who are approved
  graded,     \* the students with a GRADED submission of the homework
  inbox,      \* inbox[n]: how many notices n are stored; 2 stands for more, and
              \* for the types that are not debounced 1 does
  req,        \* req[q]: what a request or task is doing, with what it loaded
  faults,     \* processes killed so far
  traffic     \* the load of this behaviour, chosen at the start

school == <<members, dead, approved, graded>>
vars == <<exam, homework, assigned, listed, school, inbox, req, faults, traffic>>

-----------------------------------------------------------------------------
(* Data.                                                                   *)

Objects == {"exam", "homework"}
Titles  == {"old", "new"}       \* title, description, start: what may be reworded
ExamRow == [status : {"OPEN", "CLOSED"}, title : Titles]
HomeworkRow ==
  [due : {"far", "near", "past"}, title : Titles, users : SUBSET Students]

\* A notice: to whom, of what type, about which object (related_*_id).
ToStudents ==
  [to : Students,
   type : {"EXAM_OPENED", "EXAM_UPDATED", "EXAM_CLOSING_SOON"}, about : {"exam"}]
  \cup [to : Students, type : {"HOMEWORK_UPDATED", "HOMEWORK_DEADLINE_CHANGED",
          "DEADLINE_APPROACHING", "SUBMISSION_GRADED"}, about : {"homework"}]
  \cup [to : Students, type : {"GROUP_ADDED"}, about : Groups]
ToStaff ==
  [to : Teachers, type : {"STUDENT_JOINED_GROUP"}, about : Groups]
  \cup [to : Admins, type : {"MOCK_TEST_PUBLISHED"}, about : {"mock test"}]
Notices == ToStudents \cup ToStaff

Debounced == {"EXAM_OPENED", "EXAM_CLOSING_SOON", "DEADLINE_APPROACHING",
  "SUBMISSION_GRADED", "GROUP_ADDED", "STUDENT_JOINED_GROUP", "MOCK_TEST_PUBLISHED"}


\* A PATCH in progress: the row as it will be saved, the row before (pre_save),
\* the groups and users that were sent, the groups read by set(), the notices
\* still to be sent, and whether this is the second save of the request.
Steps == {"presave", "save", "tell", "send", "write"}
ExamEdits ==
  [op : Steps, on : {"exam"}, row : ExamRow, prev : ExamRow, groups : SUBSET Groups,
   users : {{}}, old : SUBSET Groups, to : SUBSET Notices, second : {FALSE}]
HomeworkEdits ==
  [op : Steps, on : {"homework"}, row : HomeworkRow, prev : HomeworkRow,
   groups : SUBSET Groups, users : SUBSET Students, old : SUBSET Groups,
   to : SUBSET Notices, second : BOOLEAN]
Messengers == [op : {"send"}, on : {"nothing"}, to : SUBSET Notices]

Idle      == [op |-> "idle"]
AllQuiet  == \A q \in Requests : req[q] = Idle
Telling(to) == [op |-> "send", on |-> "nothing", to |-> to]

RowOf(on) == IF on = "exam" THEN exam ELSE homework

MayBegin(q, k) ==
  req[q] = Idle /\ k \in traffic.kinds /\ (k \in traffic.alone => AllQuiet)

-----------------------------------------------------------------------------
(* Who is told.                                                            *)

Notice(us, type, about) == {[to |-> u, type |-> type, about |-> about] : u \in us}

\* The related manager leaves soft-deleted groups out.
AliveGroups(on) == assigned[on] \ dead

MembersOf(gs) ==   \* for a fault: role_in_group is not asked for
  {m[2] : m \in {x \in members : x[1] \in gs}}
    \cup {k \in Teachers : Teaches[k] \cap gs # {}}

\* role_in_group="STUDENT".
StudentsOf(gs) == {m[2] : m \in {x \in members : x[1] \in gs}}

NotYetAbout(ns) ==   \* fault: the query forgets the type of the notice
  {n \in ns : \A m \in Notices : m.to = n.to /\ m.about = n.about => inbox[m] = 0}

EveryoneAgain(ns) == ns   \* fault: nothing is left out

\* "Debounce": the users who have the notice already are left out, by a query
\* made before the first one is sent.
NotYet(ns) == {n \in ns : inbox[n] = 0}

Opening(prev, row) == row.status = "OPEN" /\ prev.status # "OPEN"

ExamNoticesToAll(prev, row) ==   \* fault: the update is told to every member
  IF Opening(prev, row)
    THEN NotYet(Notice(StudentsOf(AliveGroups("exam")) \cap approved, "EXAM_OPENED", "exam"))
    ELSE Notice(MembersOf(AliveGroups("exam")), "EXAM_UPDATED", "exam")

\* exam_assignment_opened_handler and exam_assignment_updated_handler.
ExamNotices(prev, row) ==
  CASE Opening(prev, row) ->
         NotYet(Notice(StudentsOf(AliveGroups("exam")) \cap approved,
                       "EXAM_OPENED", "exam"))
    [] prev # row /\ ~Opening(prev, row) ->
         Notice(StudentsOf(AliveGroups("exam")), "EXAM_UPDATED", "exam")
    [] OTHER -> {}

Targets(users) == StudentsOf(AliveGroups("homework")) \cup users

\* homework_updated_handler.
HomeworkNotices(prev, row) ==
  CASE prev.due # row.due ->
         Notice(Targets(row.users), "HOMEWORK_DEADLINE_CHANGED", "homework")
    [] prev.due = row.due /\ prev.title # row.title ->
         Notice(Targets(row.users), "HOMEWORK_UPDATED", "homework")
    [] OTHER -> {}

-----------------------------------------------------------------------------
(* PATCH of an assignment, up to the first write.                          *)

\* A teacher reaches the assignments that one of his groups has (deleted groups
\* included), an admin all.
MayReach(w, on) == w \in Teachers => assigned[on] \cap Teaches[w] # {}

\* "Teachers can only assign groups they teach."
MaySend(w, gs) == w \in Teachers => gs \subseteq Teaches[w]

EditOf(on, row, gs, us) ==
  [op |-> "presave", on |-> on, row |-> row, prev |-> RowOf(on), groups |-> gs,
   users |-> us, old |-> {}, to |-> {}, second |-> FALSE]

\* Every PATCH of an exam has to send groups again, all alive; its test has to
\* be PUBLISHED still.
PatchExam(q, w, row, gs) ==
  /\ MayBegin(q, "exam")
  /\ listed /\ gs # {} /\ gs \cap dead = {} /\ MayReach(w, "exam") /\ MaySend(w, gs)
  /\ gs # AliveGroups("exam") => "regroup" \in traffic.kinds
  /\ row.title # exam.title => "reword" \in traffic.kinds
  /\ req' = [req EXCEPT ![q] = EditOf("exam", row, gs, {})]
  /\ UNCHANGED <<exam, homework, assigned, listed, school, inbox, faults, traffic>>

AssignableToNobody(gs, us) == TRUE   \* fault: neither groups nor users asked for

\* "At least one group or one user must be assigned."
Assignable(gs, us) == gs # {} \/ us # {}

\* What is not sent counts as an empty list; the one mock test is sent again (a
\* quiz in its place is left out).  The first save writes the users that were
\* sent, or, where none were, the users that were loaded.
PatchHomework(q, w, due, title, gs, us, sent) ==
  /\ MayBegin(q, "homework")
  /\ listed /\ Assignable(gs, us) /\ MayReach(w, "homework") /\ MaySend(w, gs)
  /\ due \in {"far", "near", homework.due}
  /\ gs # AliveGroups("homework") => "regroup" \in traffic.kinds
  /\ title # homework.title => "reword" \in traffic.kinds
  /\ us # {} => sent
  /\ req' = [req EXCEPT ![q] =
       EditOf("homework", [due |-> due, title |-> title,
                           users |-> IF sent THEN us ELSE homework.users], gs, us)]
  /\ UNCHANGED <<exam, homework, assigned, listed, school, inbox, faults, traffic>>

-----------------------------------------------------------------------------
(* The writes of a PATCH and the signals between them.                     *)

\* pre_save: the row as it is in the table now.
Presave(q) ==
  /\ req[q].op = "presave"
  /\ req' = [req EXCEPT ![q].op = "save", ![q].prev = RowOf(req[q].on)]
  /\ UNCHANGED <<exam, homework, assigned, listed, school, inbox, faults, traffic>>

\* The UPDATE: every column the first time, assigned_user_ids the second.
Save(q) ==
  LET j == req[q] IN
  /\ j.op = "save"
  /\ IF j.on = "exam"
       THEN exam' = j.row /\ UNCHANGED homework
       ELSE /\ homework' = IF j.second THEN [homework EXCEPT !.users = j.users] ELSE j.row
            /\ UNCHANGED exam
  /\ req' = [req EXCEPT ![q].op = "tell"]
  /\ UNCHANGED <<assigned, listed, school, inbox, faults, traffic>>

\* post_save: the groups are still those from before this request.
Tell(q) ==
  LET j == req[q] IN
  /\ j.op = "tell"
  /\ req' = [req EXCEPT ![q].op = "send",
               ![q].to = IF j.on = "exam" THEN ExamNotices(j.prev, j.row)
                                          ELSE HomeworkNotices(j.prev, j.row)]
  /\ UNCHANGED <<exam, homework, assigned, listed, school, inbox, faults, traffic>>

\* One notice: on_commit runs at once where no transaction is open.
Send(q, n) ==
  /\ req[q].op = "send" /\ n \in req[q].to
  /\ inbox' = [inbox EXCEPT ![n] =
       IF n.type \in Debounced /\ inbox[n] > 0 THEN 2 ELSE 1]
  /\ req' = [req EXCEPT ![q].to = req[q].to \ {n}]
  /\ UNCHANGED <<exam, homework, assigned, listed, school, faults, traffic>>

\* All are sent: a task or a join is done, a PATCH goes on with set(), which
\* reads the groups that are assigned and alive.
Sent(q) ==
  LET j == req[q] IN
  /\ j.op = "send" /\ j.to = {}
  /\ req' = [req EXCEPT ![q] =
       IF j.on = "nothing" \/ j.second THEN Idle
       ELSE [j EXCEPT !.op = "write", !.old = AliveGroups(j.on)]]
  /\ UNCHANGED <<exam, homework, assigned, listed, school, inbox, faults, traffic>>

\* What set() found too many is removed and what it missed is added.  A
\* homework then saves assigned_user_ids once more.
WriteGroups(q) ==
  LET j == req[q] IN
  /\ j.op = "write"
  /\ assigned' = [assigned EXCEPT ![j.on] =
       (assigned[j.on] \ (j.old \ j.groups)) \cup j.groups]
  /\ req' = [req EXCEPT ![q] =
       IF j.on = "exam" THEN Idle
       ELSE [j EXCEPT !.op = "presave", !.second = TRUE, !.row.users = j.users]]
  /\ UNCHANGED <<exam, homework, listed, school, inbox, faults, traffic>>

-----------------------------------------------------------------------------
(* The other senders of notices.                                           *)

\* group_membership_created_handler: the student is told, and the teachers
\* that a student has joined, unless the student is not approved or was told
\* of this group before.
Join(q, g, u) ==
  /\ MayBegin(q, "join") /\ g \notin dead /\ <<g, u>> \notin members
  /\ members' = members \cup {<<g, u>>}
  /\ LET him == NotYet(Notice({u} \cap approved, "GROUP_ADDED", g))
         them == NotYet(Notice({k \in Teachers : g \in Teaches[k]},
                               "STUDENT_JOINED_GROUP", g)) IN
     req' = [req EXCEPT ![q] = IF him = {} THEN Idle ELSE Telling(him \cup them)]
  /\ UNCHANGED <<exam, homework, assigned, listed, dead, approved, graded, inbox,
                 faults, traffic>>

\* submission_graded_handler, in the transaction of the grading.
Grade(q, u) ==
  /\ MayBegin(q, "grade")
  /\ u \in Targets(homework.users)
  /\ graded' = graded \cup {u}
  /\ LET him == NotYet(Notice({u}, "SUBMISSION_GRADED", "homework")) IN
     req' = [req EXCEPT ![q] = Telling(him)]
  /\ UNCHANGED <<exam, homework, assigned, listed, members, dead, approved, inbox,
                 faults, traffic>>

\* mock_test_published_handler; unpublishing tells nobody.
Publish(q) ==
  /\ MayBegin(q, "publish")
  /\ listed' = ~listed
  /\ req' = [req EXCEPT ![q] =
       IF listed THEN Idle
       ELSE Telling(NotYet(Notice(Admins, "MOCK_TEST_PUBLISHED", "mock test")))]
  /\ UNCHANGED <<exam, homework, assigned, school, inbox, faults, traffic>>

\* The task check_upcoming_deadlines, one homework: within 24 hours, to the
\* targets who have nothing graded.
AlertDeadline(q) ==
  /\ MayBegin(q, "alerts") /\ homework.due = "near"
  /\ req' = [req EXCEPT ![q] = Telling(NotYet(
       Notice(Targets(homework.users) \ graded, "DEADLINE_APPROACHING", "homework")))]
  /\ UNCHANGED <<exam, homework, assigned, listed, school, inbox, faults, traffic>>

\* The task check_exam_closing_soon, one exam, at any time within its last hour.
AlertClosing(q) ==
  /\ MayBegin(q, "alerts") /\ exam.status = "OPEN"
  /\ req' = [req EXCEPT ![q] = Telling(NotYet(
       Notice(StudentsOf(AliveGroups("exam")), "EXAM_CLOSING_SOON", "exam")))]
  /\ UNCHANGED <<exam, homework, assigned, listed, school, inbox, faults, traffic>>

-----------------------------------------------------------------------------
(* What happens meanwhile.                                                 *)

Leave(g, u) ==
  /\ "leave" \in traffic.kinds /\ <<g, u>> \in members
  /\ members' = members \ {<<g, u>>}
  /\ UNCHANGED <<exam, homework, assigned, listed, dead, approved, graded, inbox,
                 req, faults, traffic>>

\* A group is soft-deleted; its members and assignments stay.
Dissolve(g) ==
  /\ "dissolve" \in traffic.kinds /\ g \notin dead
  /\ dead' = dead \cup {g}
  /\ UNCHANGED <<exam, homework, assigned, listed, members, approved, graded, inbox,
                 req, faults, traffic>>

Approve(u) ==
  /\ "approve" \in traffic.kinds /\ u \notin approved
  /\ approved' = approved \cup {u}
  /\ UNCHANGED <<exam, homework, assigned, listed, members, dead, graded, inbox, req,
                 faults, traffic>>

TimePasses ==
  /\ homework.due # "past" /\ "alerts" \in traffic.kinds
  /\ homework' = [homework EXCEPT !.due =
       IF homework.due = "far" THEN "near" ELSE "past"]
  /\ UNCHANGED <<exam, assigned, listed, school, inbox, req, faults, traffic>>

\* A process is killed; nothing takes up what it was doing.
Crash(q) ==
  /\ faults < traffic.faults /\ req[q] # Idle
  /\ req' = [req EXCEPT ![q] = Idle]
  /\ faults' = faults + 1
  /\ UNCHANGED <<exam, homework, assigned, listed, school, inbox, traffic>>

-----------------------------------------------------------------------------
Init ==
  /\ traffic \in Traffic /\ faults = 0
  /\ exam = [status |-> "CLOSED", title |-> "old"]
  /\ homework = [due |-> "far", title |-> "old", users |-> {}]
  /\ assigned = [on \in Objects |-> First]
  /\ listed = TRUE
  /\ members = Enrolled /\ dead = {} /\ graded = {}
  /\ approved = Students \ Unapproved
  /\ inbox = [n \in Notices |-> 0]
  /\ req = [q \in Requests |-> Idle]

PatchStep(q) ==
  \E w \in Staff, gs \in SUBSET Groups :
    \/ \E row \in ExamRow : PatchExam(q, w, row, gs)
    \/ \E due \in {"far", "near", "past"}, t \in Titles, us \in SUBSET Students,
          sent \in BOOLEAN : PatchHomework(q, w, due, t, gs, us, sent)

RequestStep(q) ==
  \/ PatchStep(q)
  \/ Presave(q) \/ Save(q) \/ Tell(q) \/ Sent(q) \/ WriteGroups(q)
  \/ \E n \in Notices : Send(q, n)
  \/ \E g \in Groups, u \in Students : Join(q, g, u)
  \/ \E u \in Students : Grade(q, u)
  \/ Publish(q) \/ AlertDeadline(q) \/ AlertClosing(q)
  \/ Crash(q)

Next ==
  \/ \E q \in Requests : RequestStep(q)
  \/ \E g \in Groups : Dissolve(g) \/ \E u \in Students : Leave(g, u)
  \/ \E u \in Students : Approve(u)
  \/ TimePasses

Spec == Init /\ [][Next]_vars

-----------------------------------------------------------------------------
(* Properties.                                                             *)

\* Every variable holds a value of its kind; notices go to whom they are for.
TypeOK ==
  /\ exam \in ExamRow /\ homework \in HomeworkRow
  /\ assigned \in [Objects -> SUBSET Groups] /\ listed \in BOOLEAN
  /\ members \subseteq Groups \X Students /\ dead \subseteq Groups
  /\ approved \subseteq Students /\ graded \subseteq Students
  /\ inbox \in [Notices -> 0..2]
  /\ req \in [Requests -> {Idle} \cup Messengers \cup ExamEdits \cup HomeworkEdits]
  /\ faults \in 0..MaxFaults /\ traffic \in Traffic

Senders == {"exam", "homework", "join", "publish", "grade", "alerts"}

\* "One notification per (user, type, related_id)", for the types that ask
\* what was sent before: as long as the requests and tasks that send do not
\* overlap, nobody is told the same thing twice, whatever is reopened, joined
\* again or graded again, and whatever is killed half way.
OneNoticeEach ==
  Senders \subseteq traffic.alone =>
    \A n \in Notices : n.type \in Debounced => inbox[n] <= 1

\* An open room is known: whoever is approved and a student of an assigned
\* group has been told of the opening once the requests are done, however
\* they overlap, reopen or reword the exam, as long as none is killed and
\* neither the groups of the exam nor their members grow.
OpenIsAnnounced ==
  /\ faults = 0 /\ AllQuiet /\ exam.status = "OPEN"
  /\ {"regroup", "join", "approve"} \cap traffic.kinds = {}
  => \A n \in Notice(StudentsOf(AliveGroups("exam")) \cap approved,
                     "EXAM_OPENED", "exam") : inbox[n] > 0

\* A homework is somebody's: the groups and the users are replaced by separate
\* statements, but edits that do not overlap leave at least one of them.
SomebodyAssigned ==
  "homework" \in traffic.alone /\ faults = 0 /\ AllQuiet =>
    assigned["homework"] # {} \/ homework.users # {}

\* The same for edits that do overlap.
SomebodyAssignedAlways ==
  AllQuiet /\ faults = 0 => assigned["homework"] # {} \/ homework.users # {}
=============================================================================
