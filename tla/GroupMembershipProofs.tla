----------------------- MODULE GroupMembershipProofs -----------------------
(***************************************************************************)
(* Theorems about GroupMembership, for every number of students, teachers  *)
(* and requests and all values of max_students.                            *)
(***************************************************************************)
EXTENDS GroupMembership, FiniteSetTheorems, TLAPS

-----------------------------------------------------------------------------
(* Counting.                                                               *)

\* What a COUNT of students or teachers returns.
LEMMA CountTypes ==
  ASSUME NEW us
  PROVE  /\ Cardinality(us \cap Students) \in 0..Cardinality(Students)
         /\ Cardinality(us \cap Teachers) \in 0..Cardinality(Teachers)
         /\ Cardinality(us \cap Students) \in Nat
         /\ Cardinality(us \cap Teachers) \in Nat
<1>1. IsFiniteSet(Students) /\ IsFiniteSet(Teachers)
  BY UsersAssumption
<1>2. /\ IsFiniteSet(us \cap Students) /\ IsFiniteSet(us \cap Teachers)
      /\ Cardinality(us \cap Students) <= Cardinality(Students)
      /\ Cardinality(us \cap Teachers) <= Cardinality(Teachers)
  BY <1>1, FS_Intersection
<1>3. /\ Cardinality(us \cap Students) \in Nat /\ Cardinality(us \cap Teachers) \in Nat
      /\ Cardinality(Students) \in Nat /\ Cardinality(Teachers) \in Nat
  BY <1>1, <1>2, FS_CardinalityType
<1> QED  BY <1>2, <1>3

\* Fewer rows, no higher count.
LEMMA CountMonotone ==
  ASSUME NEW us, NEW vs \in SUBSET us
  PROVE  Cardinality(vs \cap Students) <= Cardinality(us \cap Students)
<1>1. IsFiniteSet(us \cap Students)
  BY UsersAssumption, FS_Intersection
<1>2. vs \cap Students \in SUBSET (us \cap Students)
  OBVIOUS
<1> QED  BY <1>1, <1>2, FS_Subset

\* New members add their seats to those taken.
LEMMA CountJoin ==
  ASSUME NEW us, NEW new, us \cap new = {}
  PROVE  Cardinality((us \cup new) \cap Students)
           = Cardinality(us \cap Students) + Cardinality(new \cap Students)
<1>1. IsFiniteSet(us \cap Students) /\ IsFiniteSet(new \cap Students)
  BY UsersAssumption, FS_Intersection
<1>2. (us \cup new) \cap Students = (us \cap Students) \cup (new \cap Students)
  OBVIOUS
<1>3. (us \cap Students) \cap (new \cap Students) = {}
  OBVIOUS
<1>4. Cardinality((us \cup new) \cap Students)
        = Cardinality(us \cap Students) + Cardinality(new \cap Students) - Cardinality({})
  BY <1>1, <1>2, <1>3, FS_Union
<1>5. Cardinality({}) = 0
  BY FS_EmptySet
<1>6. Cardinality(us \cap Students) \in Nat /\ Cardinality(new \cap Students) \in Nat
  BY CountTypes
<1> QED  BY <1>4, <1>5, <1>6

\* The Group saved with fresh counters is a row of the table.
LEMMA WithCountsType ==
  ASSUME NEW row \in GroupRow, NEW us
  PROVE  /\ WithCounts(row, us) \in GroupRow
         /\ WithCounts(row, us).state = row.state
         /\ WithCounts(row, us).max = row.max
         /\ WithCounts(row, us).students = Cardinality(us \cap Students)
         /\ WithCounts(row, us).teachers = Cardinality(us \cap Teachers)
BY CountTypes DEF WithCounts, GroupRow

\* The numbers in a row.
LEMMA RowNumbers ==
  ASSUME NEW row \in GroupRow
  PROVE  row.students \in Nat /\ row.teachers \in Nat /\ row.max \in Nat
<1>1. Cardinality(Students) \in Nat /\ Cardinality(Teachers) \in Nat
  BY FS_CardinalityType, UsersAssumption
<1> QED  BY <1>1 DEF GroupRow

\* The rows and instances there are at the start.
LEMMA InitialTypes ==
  NoGroup \in GroupRow /\ Idle \in Request
<1>1. 0 \in 0..Cardinality(Students) /\ 0 \in 0..Cardinality(Teachers)
  BY FS_CardinalityType, UsersAssumption
<1> QED  BY <1>1 DEF NoGroup, Idle, GroupRow, Request

-----------------------------------------------------------------------------
(* The first invariant: types, what a request may hold, and the log.       *)

\* A request holds undone deletions only inside the transaction of a removal,
\* a PATCH a copy of a group that was alive; only bulk adds lock the group, and
\* only single adds and removals send the signal.
Sound(q) ==
  /\ q.gone \subseteq q.who
  /\ q.gone # {} => q.kind = "remove"
  /\ q.kind = "patch" => q.row.state = "alive"
  /\ q.pc = "idle" => q = Idle
  /\ q.pc = "begun" => q.kind # "none"
  /\ q.pc = "locked" => q.kind = "bulk"
  /\ q.pc \in {"changed", "counting", "counted"} => q.kind \in {"add", "remove"}

\* The kinds of request that this history knows.
Known(kind) == kind \in traffic.kinds \cup {"none"}

NothingBefore ==
  group.state = "none" => members = {} /\ \A r \in Requests : req[r].pc = "idle"

RowsInv ==
  /\ TypeOK /\ NoSilentRemoval /\ NothingBefore
  /\ \A r \in Requests : Sound(req[r]) /\ Known(req[r].kind)

\* Replacing the record of one request.
LEMMA Replace ==
  ASSUME TypeOK, NEW r \in Requests, NEW x \in Request,
         req' = [req EXCEPT ![r] = x]
  PROVE  /\ req' \in [Requests -> Request]
         /\ req'[r] = x
         /\ \A q \in Requests \ {r} : req'[q] = req[q]
BY DEF TypeOK

\* New rows join: the log still accounts for those that are gone.
LEMMA JoinKeepsLog ==
  ASSUME TypeOK, NoSilentRemoval, NEW us \in SUBSET Users, us \cap members = {},
         Join(us), UNCHANGED history
  PROVE  /\ members' \subseteq Users /\ joined' \in [Users -> Nat]
         /\ NoSilentRemoval'
<1>1. members' \subseteq Users /\ joined' \in [Users -> Nat]
  BY DEF Join, TypeOK
<1>2. ASSUME NEW u \in Users
      PROVE  history'[u] + (IF u \in members' THEN 1 ELSE 0) >= joined'[u]
  <2>1. history[u] + (IF u \in members THEN 1 ELSE 0) >= joined[u]
        /\ history[u] \in Nat /\ joined[u] \in Nat
    BY DEF NoSilentRemoval, TypeOK
  <2>2. CASE u \in us
    <3>1. u \notin members /\ u \in members' /\ joined'[u] = joined[u] + 1
      BY <2>2 DEF Join
    <3> QED  BY <2>1, <3>1
  <2>3. CASE u \notin us
    <3>1. (u \in members' <=> u \in members) /\ joined'[u] = joined[u]
      BY <2>3 DEF Join
    <3> QED  BY <2>1, <3>1
  <2> QED  BY <2>2, <2>3
<1> QED  BY <1>1, <1>2 DEF NoSilentRemoval

\* A step that only moves request r on, to a sound record.
LEMMA MoveOn ==
  ASSUME RowsInv, NEW r \in Requests, NEW x \in Request, Sound(x), Known(x.kind),
         req' = [req EXCEPT ![r] = x],
         group.state # "none" \/ x.pc = "idle",
         UNCHANGED <<group, members, joined, history, traffic>>
  PROVE  RowsInv'
<1>1. /\ req' \in [Requests -> Request] /\ req'[r] = x
      /\ \A q \in Requests \ {r} : req'[q] = req[q]
  BY Replace DEF RowsInv
<1>2. TypeOK' /\ NoSilentRemoval'
  BY <1>1 DEF RowsInv, TypeOK, NoSilentRemoval
<1>3. NothingBefore'
  BY <1>1 DEF RowsInv, NothingBefore
<1>4. \A q \in Requests : Sound(req'[q]) /\ req'[q].kind \in traffic'.kinds \cup {"none"}
  BY <1>1 DEF RowsInv, Known
<1> QED  BY <1>2, <1>3, <1>4 DEF RowsInv, Known

LEMMA RowsInvInit == Init => RowsInv
<1> SUFFICES ASSUME Init PROVE RowsInv
  OBVIOUS
<1>1. TypeOK
  BY InitialTypes DEF Init, TypeOK
<1>2. NoSilentRemoval
  BY DEF Init, NoSilentRemoval
<1>3. NothingBefore /\ \A r \in Requests : Sound(req[r]) /\ Known(req[r].kind)
  BY DEF Init, NothingBefore, Sound, Known, Idle
<1> QED  BY <1>1, <1>2, <1>3 DEF RowsInv

LEMMA RowsInvStep == RowsInv /\ [Next]_vars => RowsInv'
<1> SUFFICES ASSUME RowsInv, [Next]_vars PROVE RowsInv'
  OBVIOUS
<1>t. /\ traffic' = traffic /\ traffic.limits \subseteq Limits
      /\ Step \/ UNCHANGED vars
  BY TrafficAssumption DEF Next, vars, RowsInv, TypeOK, Traffics
<1> USE <1>t
<1> USE DEF RowsInv
<1>k. \A r \in Requests : /\ Sound(req[r]) /\ req[r].kind \in traffic.kinds \cup {"none"}
                          /\ req[r] \in Request
  BY DEF Known, TypeOK
<1>i. Idle \in Request /\ Sound(Idle) /\ Known(Idle.kind) /\ Idle.kind = "none"
  BY InitialTypes DEF Idle, Sound, Known
<1>1. CASE UNCHANGED vars
  BY <1>1 DEF vars, TypeOK, NoSilentRemoval, NothingBefore, Known
<1>2. CASE \E limit \in Limits, ts \in SUBSET Teachers : CreateGroup(limit, ts)
  <2>1. PICK limit \in Limits, ts \in SUBSET Teachers : CreateGroup(limit, ts)
    BY <1>2
  <2>2. members = {} /\ ts \in SUBSET Users /\ limit \in Nat
    BY <2>1, LimitsAssumption DEF CreateGroup, NothingBefore, Users
  <2>3. /\ members' \subseteq Users /\ joined' \in [Users -> Nat] /\ NoSilentRemoval'
    BY <2>1, <2>2, JoinKeepsLog DEF CreateGroup
  <2>4. [NoGroup EXCEPT !.state = "alive", !.max = limit] \in GroupRow
    BY <2>2, InitialTypes DEF NoGroup, GroupRow
  <2>5. group' \in GroupRow /\ group'.state = "alive"
    BY <2>1, <2>4, WithCountsType DEF CreateGroup, NoGroup
  <2> QED  BY <2>1, <2>3, <2>5 DEF CreateGroup, TypeOK, NothingBefore, Known
<1>3. CASE DeleteGroup
  BY <1>3 DEF DeleteGroup, TypeOK, GroupRow, NoSilentRemoval, NothingBefore, Known
<1>4. ASSUME NEW r \in Requests, NEW u \in Users, ValidateAdd(r, u)
      PROVE  RowsInv'
  <2> DEFINE x == [Idle EXCEPT !.kind = "add", !.pc = "begun", !.who = {u}]
  <2>1. x \in Request /\ Sound(x) /\ Known(x.kind)
    BY <1>4, InitialTypes DEF ValidateAdd, Idle, Request, Sound, Known
  <2> QED  BY <1>4, <2>1, MoveOn DEF ValidateAdd, Begin
<1>5. ASSUME NEW r \in Requests, NEW u \in Users, LoadMember(r, u)
      PROVE  RowsInv'
  <2> DEFINE x == [Idle EXCEPT !.kind = "remove", !.pc = "begun", !.who = {u},
                               !.born = joined[u]]
  <2>1. x \in Request /\ Sound(x) /\ Known(x.kind)
    BY <1>5, InitialTypes DEF LoadMember, Idle, Request, Sound, Known, TypeOK
  <2> QED  BY <1>5, <2>1, MoveOn DEF LoadMember, Begin, NothingBefore
<1>6. ASSUME NEW r \in Requests, InsertMember(r)
      PROVE  RowsInv'
  <2>1. req[r] \in Request /\ Sound(req[r]) /\ group.state # "none" /\ req[r].kind = "add"
    BY <1>6, <1>k DEF InsertMember, NothingBefore
  <2>2. CASE req[r].who \cap members # {}
    BY <1>6, <1>i, <2>1, <2>2, MoveOn DEF InsertMember, Answer
  <2>3. CASE req[r].who \cap members = {}
    <3> DEFINE x == [req[r] EXCEPT !.pc = "changed"]
    <3>1. Join(req[r].who) /\ UNCHANGED <<group, history>> /\ req' = [req EXCEPT ![r] = x]
      BY <1>6, <2>3 DEF InsertMember
    <3>2. x \in Request /\ Sound(x) /\ x.kind = "add"
      BY <2>1 DEF Request, Sound
    <3>3. req[r].who \in SUBSET Users
      BY <2>1 DEF Request
    <3>4. members' \subseteq Users /\ joined' \in [Users -> Nat] /\ NoSilentRemoval'
      BY <2>3, <3>1, <3>3, JoinKeepsLog
    <3>5. /\ req' \in [Requests -> Request] /\ req'[r] = x
          /\ \A q \in Requests \ {r} : req'[q] = req[q]
      BY <3>1, <3>2, Replace
    <3>6. \A q \in Requests : Sound(req'[q]) /\ req'[q].kind = req[q].kind
      BY <1>k, <2>1, <3>2, <3>5
    <3> HIDE DEF x
    <3> QED  BY <1>k, <2>1, <3>1, <3>4, <3>5, <3>6 DEF TypeOK, NothingBefore, Known
  <2> QED  BY <2>2, <2>3
<1>8. ASSUME NEW r \in Requests, DeleteMember(r)
      PROVE  RowsInv'
  <2> DEFINE g == {u \in req[r].who \cap members : joined[u] = req[r].born}
             x == [req[r] EXCEPT !.pc = "changed", !.gone = g]
  <2>1. /\ req[r] \in Request /\ group.state # "none" /\ req' = [req EXCEPT ![r] = x]
        /\ req[r].kind = "remove"
    BY <1>8 DEF DeleteMember, TypeOK, NothingBefore
  <2>2. g \subseteq req[r].who
    OBVIOUS
  <2> HIDE DEF g
  <2>3. x \in Request /\ Sound(x) /\ Known(x.kind)
    BY <1>k, <2>1, <2>2 DEF Request, Sound, Known
  <2> HIDE DEF x
  <2> QED  BY <1>8, <2>1, <2>3, MoveOn DEF DeleteMember
<1>9. ASSUME NEW r \in Requests, CountStudents(r)
      PROVE  RowsInv'
  <2> DEFINE n == Cardinality(Seen(r) \cap Students)
             x == [req[r] EXCEPT !.pc = "counting", !.row.students = n]
  <2>1. req[r] \in Request /\ group.state # "none" /\ req' = [req EXCEPT ![r] = x]
    BY <1>9 DEF CountStudents, TypeOK, NothingBefore
  <2>2. n \in 0..Cardinality(Students)
    BY CountTypes
  <2> HIDE DEF n
  <2>3. x \in Request /\ Sound(x) /\ Known(x.kind)
    BY <1>9, <1>k, <2>1, <2>2 DEF CountStudents, Request, GroupRow, Sound, Known
  <2> HIDE DEF x
  <2> QED  BY <1>9, <2>1, <2>3, MoveOn DEF CountStudents
<1>10. ASSUME NEW r \in Requests, CountTeachers(r)
       PROVE  RowsInv'
  <2> DEFINE n == Cardinality(Seen(r) \cap Teachers)
             x == [req[r] EXCEPT !.pc = "counted", !.row.teachers = n]
  <2>1. req[r] \in Request /\ group.state # "none" /\ req' = [req EXCEPT ![r] = x]
    BY <1>10 DEF CountTeachers, TypeOK, NothingBefore
  <2>2. n \in 0..Cardinality(Teachers)
    BY CountTypes
  <2> HIDE DEF n
  <2>3. x \in Request /\ Sound(x) /\ Known(x.kind)
    BY <1>10, <1>k, <2>1, <2>2 DEF CountTeachers, Request, GroupRow, Sound, Known
  <2> HIDE DEF x
  <2> QED  BY <1>10, <2>1, <2>3, MoveOn DEF CountTeachers
<1>11. ASSUME NEW r \in Requests, SaveCounts(r)
       PROVE  RowsInv'
  <2>1. /\ Idle \in Request /\ Sound(Idle) /\ req[r] \in Request /\ Sound(req[r])
        /\ group.state # "none" /\ group \in GroupRow
    BY <1>11, <1>i, <1>k DEF SaveCounts, TypeOK, NothingBefore
  <2>2. group' \in GroupRow /\ group'.state = group.state
    BY <1>11, <2>1 DEF SaveCounts, Request, GroupRow
  <2>3. /\ req' \in [Requests -> Request] /\ req'[r] = Idle
        /\ \A q \in Requests \ {r} : req'[q] = req[q]
    BY <1>11, <2>1, Replace DEF SaveCounts, Answer
  <2>4. /\ members' = members \ req[r].gone
        /\ joined' = joined /\ history' \in [Users -> Nat]
        /\ \A u \in Users : history'[u] = IF req[r].kind = "remove" /\ u \in req[r].who
                                            THEN history[u] + 1 ELSE history[u]
    BY <1>11 DEF SaveCounts, Seen, Logged, TypeOK
  <2>5. ASSUME NEW u \in Users
        PROVE  history'[u] + (IF u \in members' THEN 1 ELSE 0) >= joined'[u]
    <3>1. history[u] + (IF u \in members THEN 1 ELSE 0) >= joined[u]
          /\ history[u] \in Nat /\ joined[u] \in Nat /\ joined'[u] = joined[u]
      BY <2>4 DEF NoSilentRemoval, TypeOK
    <3>2. CASE u \in req[r].gone
      <4>1. history'[u] = history[u] + 1
        BY <2>1, <2>4, <3>2 DEF Sound
      <4> QED  BY <3>1, <4>1
    <3>3. CASE u \notin req[r].gone
      <4>1. (u \in members' <=> u \in members) /\ history'[u] \in {history[u], history[u] + 1}
        BY <2>4, <3>3
      <4> QED  BY <3>1, <4>1
    <3> QED  BY <3>2, <3>3
  <2>6. \A q \in Requests : Sound(req'[q]) /\ req'[q].kind \in traffic'.kinds \cup {"none"}
    BY <1>i, <1>k, <2>1, <2>3
  <2>7. TypeOK' /\ NoSilentRemoval' /\ NothingBefore'
    BY <2>1, <2>2, <2>3, <2>4, <2>5 DEF TypeOK, NoSilentRemoval, NothingBefore
  <2> QED  BY <2>6, <2>7 DEF Known
<1>12. ASSUME NEW r \in Requests, NEW us \in SUBSET Users, ValidateBulk(r, us)
       PROVE  RowsInv'
  <2> DEFINE x == [Idle EXCEPT !.kind = "bulk", !.pc = "begun", !.who = us]
  <2>1. x \in Request /\ Sound(x) /\ Known(x.kind)
    BY <1>12, InitialTypes DEF ValidateBulk, Idle, Request, Sound, Known
  <2> QED  BY <1>12, <2>1, MoveOn DEF ValidateBulk, Begin
<1>13. ASSUME NEW r \in Requests, LockGroup(r)
       PROVE  RowsInv'
  <2> DEFINE x == [req[r] EXCEPT !.pc = "locked", !.row = group]
  <2>1. req[r] \in Request /\ Sound(req[r]) /\ group.state # "none" /\ req[r].kind = "bulk"
    BY <1>13, <1>k DEF LockGroup, NothingBefore
  <2>2. x \in Request /\ Sound(x) /\ Known(x.kind)
    BY <1>k, <2>1 DEF Request, Sound, TypeOK, Known
  <2>3. req' = [req EXCEPT ![r] = x] \/ req' = [req EXCEPT ![r] = Idle]
    BY <1>13 DEF LockGroup, Answer
  <2> HIDE DEF x
  <2> QED  BY <1>13, <1>i, <2>1, <2>2, <2>3, MoveOn DEF LockGroup
<1>14. ASSUME NEW r \in Requests, AddAll(r)
       PROVE  RowsInv'
  <2> DEFINE new == req[r].who \ members
  <2>1. /\ Idle \in Request /\ Sound(Idle) /\ req[r] \in Request
        /\ group.state # "none" /\ group \in GroupRow
        /\ req' = [req EXCEPT ![r] = Idle] /\ UNCHANGED history
    BY <1>14, <1>i, <1>k DEF AddAll, Answer, TypeOK, NothingBefore
  <2>2. CASE UNCHANGED <<group, members, joined>>
    BY <1>i, <2>1, <2>2, MoveOn
  <2>3. CASE Join(new) /\ group' = IF new = {} THEN group
                                   ELSE BulkCounted(group, members, members \cup new)
    <3>1. new \in SUBSET Users /\ new \cap members = {}
      BY <2>1 DEF Request
    <3>2. members' \subseteq Users /\ joined' \in [Users -> Nat] /\ NoSilentRemoval'
      BY <2>1, <2>3, <3>1, JoinKeepsLog
    <3>3. group' \in GroupRow /\ group'.state = group.state
      BY <2>1, <2>3, WithCountsType DEF BulkCounted
    <3>4. /\ req' \in [Requests -> Request] /\ req'[r] = Idle
          /\ \A q \in Requests \ {r} : req'[q] = req[q]
      BY <2>1, Replace
    <3>5. \A q \in Requests : Sound(req'[q]) /\ req'[q].kind \in traffic'.kinds \cup {"none"}
      BY <1>i, <1>k, <2>1, <3>4
    <3>6. TypeOK' /\ NothingBefore'
      BY <2>1, <3>2, <3>3, <3>4 DEF TypeOK, NothingBefore
    <3> QED  BY <3>2, <3>5, <3>6 DEF Known
  <2> QED  BY <1>14, <2>2, <2>3 DEF AddAll
<1>15. ASSUME NEW r \in Requests, LoadGroup(r)
       PROVE  RowsInv'
  <2> DEFINE x == [Idle EXCEPT !.kind = "patch", !.pc = "begun", !.row = group]
  <2>1. x \in Request /\ Sound(x) /\ Known(x.kind)
    BY <1>15, InitialTypes DEF LoadGroup, Idle, Request, Sound, Known, TypeOK
  <2> QED  BY <1>15, <2>1, MoveOn DEF LoadGroup, Begin
<1>16. ASSUME NEW r \in Requests, NEW limit \in Limits \cup {req[r].row.max},
              SaveGroup(r, limit)
       PROVE  RowsInv'
  <2>1. /\ Idle \in Request /\ Sound(Idle) /\ req[r] \in Request /\ Sound(req[r])
        /\ req[r].kind = "patch" /\ req[r].row \in GroupRow
    BY <1>16, <1>i, <1>k DEF SaveGroup, Request
  <2>2. limit \in Nat
    BY <2>1, LimitsAssumption DEF GroupRow
  <2>3. group' \in GroupRow /\ group'.state = "alive"
    BY <1>16, <2>1, <2>2 DEF SaveGroup, GroupRow, Sound
  <2>4. /\ req' \in [Requests -> Request] /\ req'[r] = Idle
        /\ \A q \in Requests \ {r} : req'[q] = req[q]
    BY <1>16, <2>1, Replace DEF SaveGroup, Answer
  <2>5. \A q \in Requests : Sound(req'[q]) /\ req'[q].kind \in traffic'.kinds \cup {"none"}
    BY <1>i, <1>k, <2>1, <2>4
  <2>6. TypeOK' /\ NothingBefore' /\ NoSilentRemoval'
    BY <1>16, <2>3, <2>4 DEF SaveGroup, TypeOK, NothingBefore, NoSilentRemoval
  <2> QED  BY <2>5, <2>6 DEF Known
<1>17. ASSUME NEW r \in Requests, Abort(r)
       PROVE  RowsInv'
  BY <1>17, <1>i, MoveOn DEF Abort, Answer, Idle
<1> QED
  BY <1>1, <1>2, <1>3, <1>4, <1>5, <1>6, <1>8, <1>9, <1>10, <1>11, <1>12,
     <1>13, <1>14, <1>15, <1>16, <1>17 DEF Step

\* The types hold, and no counter exceeds the students or teachers there are.
THEOREM TypeCorrect == Spec => []TypeOK
<1>1. RowsInv => TypeOK
  BY DEF RowsInv
<1> QED  BY <1>1, RowsInvInit, RowsInvStep, PTL DEF Spec

\* Whatever the interleaving and whichever requests fail, a membership row
\* that is gone has left an entry in the log.
THEOREM NothingVanishes == Spec => []NoSilentRemoval
<1>1. RowsInv => NoSilentRemoval
  BY DEF RowsInv
<1> QED  BY <1>1, RowsInvInit, RowsInvStep, PTL DEF Spec

-----------------------------------------------------------------------------
(* The second invariant: where removals overlap with nothing, each of them *)
(* deletes the row that it loaded and logs.                                *)

\* What a removal knows of the members us and of their rows js.
Faithful(q, us, js) ==
  q.kind = "remove" =>
    /\ q.who \subseteq us
    /\ q.pc = "begun" => \A u \in q.who : js[u] = q.born
    /\ q.pc # "begun" => q.gone = q.who

RemovalsLone ==
  \A r, q \in Requests : req[r].kind = "remove" /\ req[q].kind # "none" => q = r

LogInv ==
  /\ RemovalsAlone /\ RowsInv /\ OneEntryPerRemoval /\ RemovalsLone
  /\ \A r \in Requests : Faithful(req[r], members, joined)

\* Requests of these two kinds may overlap.
Beside(kind, other) ==
  \/ kind = "none" \/ other = "none"
  \/ kind # "remove" /\ other # "remove"

\* A request with no kind is idle, and one that is idle has none.
LEMMA IdleHasNoKind ==
  ASSUME NEW q \in Request, Sound(q)
  PROVE  q.kind = "none" <=> q.pc = "idle"
BY DEF Request, Sound, Idle

\* A step of request r, which meets no removal it could disturb.
LEMMA LogStep ==
  ASSUME LogInv, RowsInv', OneEntryPerRemoval', NEW r \in Requests, NEW x \in Request,
         req' = [req EXCEPT ![r] = x], traffic' = traffic,
         Faithful(x, members', joined'),
         \A q \in Requests \ {r} : Beside(x.kind, req[q].kind),
         \/ UNCHANGED <<members, joined>>
         \/ \A q \in Requests \ {r} : req[q].kind # "remove"
  PROVE  LogInv'
<1>1. /\ req'[r] = x /\ \A q \in Requests \ {r} : req'[q] = req[q]
  BY Replace DEF LogInv, RowsInv
<1>2. RemovalsLone'
  BY <1>1 DEF LogInv, RemovalsLone, Beside
<1>3. ASSUME NEW q \in Requests
      PROVE  Faithful(req'[q], members', joined')
  <2>1. CASE q = r
    BY <1>1, <2>1
  <2>2. CASE q # r /\ req[q].kind # "remove"
    BY <1>1, <2>2 DEF Faithful
  <2>3. CASE q # r /\ members' = members /\ joined' = joined
    BY <1>1, <2>3 DEF LogInv
  <2> QED  BY <2>1, <2>2, <2>3
<1>4. RemovalsAlone'
  BY DEF LogInv, RemovalsAlone
<1> QED  BY <1>2, <1>3, <1>4 DEF LogInv

\* The log is exact after rows have joined.
LEMMA JoinKeepsLogExact ==
  ASSUME TypeOK, OneEntryPerRemoval, traffic' = traffic, NEW us \in SUBSET Users,
         us \cap members = {}, Join(us), UNCHANGED history
  PROVE  OneEntryPerRemoval'
<1> SUFFICES ASSUME RemovalsAlone, NEW u \in Users
             PROVE  history'[u] + (IF u \in members' THEN 1 ELSE 0) = joined'[u]
  BY DEF OneEntryPerRemoval, RemovalsAlone
<1>1. /\ history[u] + (IF u \in members THEN 1 ELSE 0) = joined[u]
      /\ history[u] \in Nat /\ joined[u] \in Nat
  BY DEF OneEntryPerRemoval, TypeOK
<1>2. CASE u \in us
  <2>1. u \notin members /\ u \in members' /\ joined'[u] = joined[u] + 1
    BY <1>2 DEF Join
  <2> QED  BY <1>1, <2>1
<1>3. CASE u \notin us
  <2>1. (u \in members' <=> u \in members) /\ joined'[u] = joined[u]
    BY <1>3 DEF Join
  <2> QED  BY <1>1, <2>1
<1> QED  BY <1>2, <1>3

LEMMA LogInvInit == Init /\ RemovalsAlone => LogInv
BY RowsInvInit DEF Init, LogInv, OneEntryPerRemoval, RemovalsLone, Faithful, Idle

LEMMA LogInvStep == LogInv /\ [Next]_vars => LogInv'
<1> SUFFICES ASSUME LogInv, [Next]_vars PROVE LogInv'
  OBVIOUS
<1>t. /\ traffic' = traffic /\ traffic.limits \subseteq Limits
      /\ Step \/ UNCHANGED vars
  BY TrafficAssumption DEF Next, vars, LogInv, RowsInv, TypeOK, Traffics
<1> USE <1>t
<1>a. RowsInv' /\ RowsInv /\ TypeOK /\ OneEntryPerRemoval /\ RemovalsAlone
  BY RowsInvStep DEF LogInv, RowsInv
<1>b. Idle \in Request /\ Idle.kind = "none" /\ Faithful(Idle, members', joined')
  BY InitialTypes DEF Idle, Faithful
<1>c. \A r \in Requests : /\ req[r] \in Request /\ Sound(req[r])
                          /\ Faithful(req[r], members, joined)
                          /\ req[r].kind \in traffic.kinds \cup {"none"}
                          /\ req[r].kind = "none" <=> req[r].pc = "idle"
  BY <1>a, IdleHasNoKind DEF LogInv, RowsInv, TypeOK, Known
<1>d. \A r \in Requests : req[r].kind # "none" =>
        \A q \in Requests \ {r} : Beside(req[r].kind, req[q].kind)
  BY DEF LogInv, RemovalsLone, Beside
<1>e. ASSUME NEW kind \in traffic.kinds, Clear(kind)
      PROVE  \A q \in Requests : Beside(kind, req[q].kind)
  BY <1>a, <1>c, <1>e DEF Clear, InFlight, RemovalsAlone, Beside
<1>1. CASE UNCHANGED vars
  BY <1>1, <1>a DEF vars, LogInv, OneEntryPerRemoval, RemovalsLone, RemovalsAlone
<1>2. CASE \E limit \in Limits, ts \in SUBSET Teachers : CreateGroup(limit, ts)
  <2>1. PICK limit \in Limits, ts \in SUBSET Teachers : CreateGroup(limit, ts)
    BY <1>2
  <2>2. /\ members = {} /\ ts \in SUBSET Users /\ req' = req
        /\ \A r \in Requests : req[r].kind = "none"
    BY <2>1, <1>a, <1>c DEF CreateGroup, RowsInv, NothingBefore, Users
  <2>3. OneEntryPerRemoval'
    BY <2>1, <2>2, <1>a, JoinKeepsLogExact DEF CreateGroup
  <2>4. RemovalsLone' /\ RemovalsAlone' /\ \A r \in Requests : Faithful(req'[r], members', joined')
    BY <1>a, <2>2 DEF RemovalsLone, RemovalsAlone, Faithful
  <2> QED  BY <1>a, <2>3, <2>4 DEF LogInv
<1>3. CASE DeleteGroup
  <2>1. UNCHANGED <<members, joined, history, req, traffic>>
    BY <1>3 DEF DeleteGroup
  <2> QED
    BY <1>a, <1>c, <2>1 DEF LogInv, OneEntryPerRemoval, RemovalsLone, RemovalsAlone
<1>4. ASSUME NEW r \in Requests, NEW x \in Request, req' = [req EXCEPT ![r] = x],
             UNCHANGED <<members, joined, history>>, Faithful(x, members, joined),
             \A q \in Requests \ {r} : Beside(x.kind, req[q].kind)
      PROVE  LogInv'
  <2>1. OneEntryPerRemoval'
    BY <1>4, <1>a DEF OneEntryPerRemoval, RemovalsAlone
  <2>2. Faithful(x, members', joined')
    BY <1>4
  <2> QED  BY <1>4, <1>a, <2>1, <2>2, LogStep
<1>5. ASSUME NEW r \in Requests, Answer(r), UNCHANGED <<members, joined, history>>
      PROVE  LogInv'
  <2>1. Faithful(Idle, members, joined) /\ \A q \in Requests : Beside(Idle.kind, req[q].kind)
    BY <1>b DEF Faithful, Beside
  <2> QED  BY <1>4, <1>5, <1>b, <2>1 DEF Answer
<1>6. ASSUME NEW r \in Requests, NEW u \in Users, ValidateAdd(r, u)
      PROVE  LogInv'
  <2> DEFINE x == [Idle EXCEPT !.kind = "add", !.pc = "begun", !.who = {u}]
  <2>1. x \in Request /\ Faithful(x, members, joined) /\ x.kind = "add"
    BY InitialTypes DEF Idle, Request, Faithful
  <2>2. /\ req' = [req EXCEPT ![r] = x] /\ UNCHANGED <<members, joined, history>>
        /\ "add" \in traffic.kinds /\ Clear("add")
    BY <1>6 DEF ValidateAdd, Begin, Idle
  <2> HIDE DEF x
  <2>3. \A q \in Requests : Beside("add", req[q].kind)
    BY <1>e, <2>2
  <2> QED  BY <1>4, <2>1, <2>2, <2>3
<1>7. ASSUME NEW r \in Requests, NEW u \in Users, LoadMember(r, u)
      PROVE  LogInv'
  <2> DEFINE x == [Idle EXCEPT !.kind = "remove", !.pc = "begun", !.who = {u},
                               !.born = joined[u]]
  <2>1. x \in Request /\ Faithful(x, members, joined) /\ x.kind = "remove"
    BY <1>7, <1>a, InitialTypes DEF LoadMember, Idle, Request, Faithful, TypeOK
  <2>2. /\ req' = [req EXCEPT ![r] = x] /\ UNCHANGED <<members, joined, history>>
        /\ "remove" \in traffic.kinds /\ Clear("remove")
    BY <1>7 DEF LoadMember, Begin, Idle
  <2> HIDE DEF x
  <2>3. \A q \in Requests : Beside("remove", req[q].kind)
    BY <1>e, <2>2
  <2> QED  BY <1>4, <2>1, <2>2, <2>3
<1>8. ASSUME NEW r \in Requests, NEW us \in SUBSET Users, ValidateBulk(r, us)
      PROVE  LogInv'
  <2> DEFINE x == [Idle EXCEPT !.kind = "bulk", !.pc = "begun", !.who = us]
  <2>1. x \in Request /\ Faithful(x, members, joined) /\ x.kind = "bulk"
    BY InitialTypes DEF Idle, Request, Faithful
  <2>2. /\ req' = [req EXCEPT ![r] = x] /\ UNCHANGED <<members, joined, history>>
        /\ "bulk" \in traffic.kinds /\ Clear("bulk")
    BY <1>8 DEF ValidateBulk, Begin, Idle
  <2> HIDE DEF x
  <2>3. \A q \in Requests : Beside("bulk", req[q].kind)
    BY <1>e, <2>2
  <2> QED  BY <1>4, <2>1, <2>2, <2>3
<1>9. ASSUME NEW r \in Requests, LoadGroup(r)
      PROVE  LogInv'
  <2> DEFINE x == [Idle EXCEPT !.kind = "patch", !.pc = "begun", !.row = group]
  <2>1. x \in Request /\ Faithful(x, members, joined) /\ x.kind = "patch"
    BY <1>a, InitialTypes DEF Idle, Request, Faithful, TypeOK
  <2>2. /\ req' = [req EXCEPT ![r] = x] /\ UNCHANGED <<members, joined, history>>
        /\ "patch" \in traffic.kinds /\ Clear("patch")
    BY <1>9 DEF LoadGroup, Begin, Idle
  <2> HIDE DEF x
  <2>3. \A q \in Requests : Beside("patch", req[q].kind)
    BY <1>e, <2>2
  <2> QED  BY <1>4, <2>1, <2>2, <2>3
<1>10. ASSUME NEW r \in Requests, InsertMember(r)
       PROVE  LogInv'
  <2>1. /\ req[r] \in Request /\ req[r].kind = "add"
        /\ \A q \in Requests \ {r} : Beside("add", req[q].kind)
    BY <1>10, <1>c, <1>d DEF InsertMember
  <2>2. CASE Answer(r) /\ UNCHANGED <<members, joined, history>>
    BY <1>5, <2>2
  <2>3. CASE /\ req[r].who \cap members = {} /\ Join(req[r].who)
             /\ req' = [req EXCEPT ![r].pc = "changed"]
             /\ UNCHANGED history
    <3> DEFINE x == [req[r] EXCEPT !.pc = "changed"]
    <3>1. x \in Request /\ x.kind = "add" /\ req' = [req EXCEPT ![r] = x]
      BY <2>1, <2>3 DEF Request
    <3> HIDE DEF x
    <3>2. OneEntryPerRemoval'
      BY <1>a, <2>1, <2>3, JoinKeepsLogExact DEF Request
    <3>3. /\ Faithful(x, members', joined')
          /\ \A q \in Requests \ {r} : Beside(x.kind, req[q].kind) /\ req[q].kind # "remove"
      BY <2>1, <3>1 DEF Faithful, Beside
    <3> QED  BY <1>a, <3>1, <3>2, <3>3, LogStep
  <2> QED  BY <1>10, <2>2, <2>3 DEF InsertMember
<1>11. ASSUME NEW r \in Requests, DeleteMember(r)
       PROVE  LogInv'
  <2> DEFINE g == {u \in req[r].who \cap members : joined[u] = req[r].born}
             x == [req[r] EXCEPT !.pc = "changed", !.gone = g]
  <2>1. /\ req[r] \in Request /\ req[r].kind = "remove" /\ req[r].pc = "begun"
        /\ \A q \in Requests \ {r} : Beside("remove", req[q].kind)
        /\ Faithful(req[r], members, joined)
    BY <1>11, <1>c, <1>d DEF DeleteMember
  <2>2. g = req[r].who /\ req[r].who \subseteq members
    BY <2>1 DEF Faithful
  <2>3. req' = [req EXCEPT ![r] = x] /\ UNCHANGED <<members, joined, history>>
    BY <1>11 DEF DeleteMember
  <2> HIDE DEF g
  <2>4. x \in Request /\ Faithful(x, members, joined) /\ x.kind = "remove"
    BY <2>1, <2>2 DEF Request, Faithful
  <2> HIDE DEF x
  <2> QED  BY <1>4, <2>1, <2>3, <2>4
<1>12. ASSUME NEW r \in Requests, CountStudents(r)
       PROVE  LogInv'
  <2> DEFINE n == Cardinality(Seen(r) \cap Students)
             x == [req[r] EXCEPT !.pc = "counting", !.row.students = n]
  <2>1. /\ req[r] \in Request /\ req[r].pc = "changed" /\ req[r].kind # "none"
        /\ \A q \in Requests \ {r} : Beside(req[r].kind, req[q].kind)
        /\ Faithful(req[r], members, joined)
    BY <1>12, <1>c, <1>d DEF CountStudents
  <2>2. n \in 0..Cardinality(Students)
    BY CountTypes
  <2>3. req' = [req EXCEPT ![r] = x] /\ UNCHANGED <<members, joined, history>>
    BY <1>12 DEF CountStudents
  <2> HIDE DEF n
  <2>4. x \in Request /\ Faithful(x, members, joined) /\ x.kind = req[r].kind
    BY <2>1, <2>2 DEF Request, GroupRow, Faithful
  <2> HIDE DEF x
  <2> QED  BY <1>4, <2>1, <2>3, <2>4
<1>13. ASSUME NEW r \in Requests, CountTeachers(r)
       PROVE  LogInv'
  <2> DEFINE n == Cardinality(Seen(r) \cap Teachers)
             x == [req[r] EXCEPT !.pc = "counted", !.row.teachers = n]
  <2>1. /\ req[r] \in Request /\ req[r].pc = "counting" /\ req[r].kind # "none"
        /\ \A q \in Requests \ {r} : Beside(req[r].kind, req[q].kind)
        /\ Faithful(req[r], members, joined)
    BY <1>13, <1>c, <1>d DEF CountTeachers
  <2>2. n \in 0..Cardinality(Teachers)
    BY CountTypes
  <2>3. req' = [req EXCEPT ![r] = x] /\ UNCHANGED <<members, joined, history>>
    BY <1>13 DEF CountTeachers
  <2> HIDE DEF n
  <2>4. x \in Request /\ Faithful(x, members, joined) /\ x.kind = req[r].kind
    BY <2>1, <2>2 DEF Request, GroupRow, Faithful
  <2> HIDE DEF x
  <2> QED  BY <1>4, <2>1, <2>3, <2>4
<1>14. ASSUME NEW r \in Requests, SaveCounts(r)
       PROVE  LogInv'
  <2>1. /\ req[r] \in Request /\ req[r].pc = "counted" /\ Sound(req[r])
        /\ req[r].kind \in {"add", "remove"}
        /\ \A q \in Requests \ {r} : Beside(req[r].kind, req[q].kind)
        /\ Faithful(req[r], members, joined)
    BY <1>14, <1>c, <1>d DEF SaveCounts, Sound
  <2>2. /\ members' = members \ req[r].gone
        /\ joined' = joined /\ req' = [req EXCEPT ![r] = Idle]
        /\ \A u \in Users : history'[u] = IF req[r].kind = "remove" /\ u \in req[r].who
                                            THEN history[u] + 1 ELSE history[u]
    BY <1>14 DEF SaveCounts, Seen, Logged, Answer
  <2>3. ASSUME NEW u \in Users
        PROVE  history'[u] + (IF u \in members' THEN 1 ELSE 0) = joined'[u]
    <3>1. /\ history[u] + (IF u \in members THEN 1 ELSE 0) = joined[u]
          /\ history[u] \in Nat /\ joined[u] \in Nat /\ joined'[u] = joined[u]
      BY <1>a, <2>2 DEF OneEntryPerRemoval, TypeOK
    <3>2. CASE u \in req[r].gone
      <4>1. req[r].kind = "remove" /\ u \in req[r].who /\ u \in members /\ u \notin members'
        BY <2>1, <2>2, <3>2 DEF Sound, Faithful
      <4> QED  BY <2>2, <3>1, <4>1
    <3>3. CASE u \notin req[r].gone
      <4>1. ~(req[r].kind = "remove" /\ u \in req[r].who) /\ (u \in members' <=> u \in members)
        BY <2>1, <2>2, <3>3 DEF Faithful
      <4>2. history'[u] = history[u]
        BY <2>2, <4>1
      <4> QED  BY <3>1, <4>1, <4>2
    <3> QED  BY <3>2, <3>3
  <2>4. OneEntryPerRemoval'
    BY <2>3 DEF OneEntryPerRemoval
  <2>5. \A q \in Requests \ {r} : Beside(Idle.kind, req[q].kind) /\ req[q].kind # "remove"
    BY <1>b, <2>1 DEF Beside
  <2> QED  BY <1>a, <1>b, <2>2, <2>4, <2>5, LogStep
<1>15. ASSUME NEW r \in Requests, LockGroup(r)
       PROVE  LogInv'
  <2>1. /\ req[r].kind = "bulk" /\ req[r] \in Request
        /\ UNCHANGED <<members, joined, history>>
        /\ \A q \in Requests \ {r} : Beside("bulk", req[q].kind)
    BY <1>15, <1>c, <1>d DEF LockGroup
  <2>2. CASE req' = [req EXCEPT ![r].pc = "locked", ![r].row = group]
    <3> DEFINE x == [req[r] EXCEPT !.pc = "locked", !.row = group]
    <3>1. x \in Request /\ x.kind = "bulk" /\ Faithful(x, members, joined)
      BY <1>a, <2>1 DEF Request, TypeOK, Faithful
    <3>2. req' = [req EXCEPT ![r] = x]
      BY <2>2
    <3> HIDE DEF x
    <3> QED  BY <1>4, <2>1, <3>1, <3>2
  <2>3. CASE Answer(r)
    BY <1>5, <2>1, <2>3
  <2> QED  BY <1>15, <2>2, <2>3 DEF LockGroup
<1>16. ASSUME NEW r \in Requests, AddAll(r)
       PROVE  LogInv'
  <2> DEFINE new == req[r].who \ members
  <2>1. /\ req[r] \in Request /\ req[r].kind = "bulk" /\ req' = [req EXCEPT ![r] = Idle]
        /\ UNCHANGED history
        /\ \A q \in Requests \ {r} : Beside("bulk", req[q].kind)
    BY <1>16, <1>c, <1>d DEF AddAll, Answer, Sound
  <2>2. CASE UNCHANGED <<members, joined>>
    BY <1>5, <2>1, <2>2 DEF Answer
  <2>3. CASE Join(new)
    <3>1. new \in SUBSET Users /\ new \cap members = {}
      BY <2>1 DEF Request
    <3>2. OneEntryPerRemoval'
      BY <1>a, <2>1, <2>3, <3>1, JoinKeepsLogExact
    <3>3. \A q \in Requests \ {r} : Beside(Idle.kind, req[q].kind) /\ req[q].kind # "remove"
      BY <1>b, <2>1 DEF Beside
    <3> QED  BY <1>a, <1>b, <2>1, <3>2, <3>3, LogStep
  <2> QED  BY <1>16, <2>2, <2>3 DEF AddAll
<1>17. ASSUME NEW r \in Requests, NEW limit, SaveGroup(r, limit)
       PROVE  LogInv'
  BY <1>17, <1>5 DEF SaveGroup
<1>18. ASSUME NEW r \in Requests, Abort(r)
       PROVE  LogInv'
  BY <1>18, <1>5 DEF Abort
<1> QED
  BY <1>1, <1>2, <1>3, <1>6, <1>7, <1>8, <1>9, <1>10, <1>11, <1>12, <1>13,
     <1>14, <1>15, <1>16, <1>17, <1>18 DEF Step

LEMMA LogInvAlways == Spec => [](RemovalsAlone => LogInv)
<1>1. Init => (RemovalsAlone => LogInv)
  BY LogInvInit
<1>2. (RemovalsAlone => LogInv) /\ [Next]_vars => (RemovalsAlone => LogInv)'
  <2>1. [Next]_vars /\ RemovalsAlone' => RemovalsAlone
    BY DEF Next, vars, RemovalsAlone
  <2> QED  BY <2>1, LogInvStep
<1> QED  BY <1>1, <1>2, PTL DEF Spec

\* Removals that overlap with nothing leave exactly one entry each, whatever
\* else overlaps, fails and is killed.
THEOREM LoneRemovalsLoggedOnce == Spec => []OneEntryPerRemoval
<1>1. (RemovalsAlone => LogInv) => OneEntryPerRemoval
  BY DEF LogInv, OneEntryPerRemoval
<1> QED  BY <1>1, LogInvAlways, PTL

\* Both halves of the log's promise: nothing vanishes under any interleaving, and
\* one removal leaves one entry where removals overlap with nothing.
THEOREM RemovalsAreLogged == Spec => []RemovalsLogged
<1>1. NoSilentRemoval /\ OneEntryPerRemoval => RemovalsLogged
  BY DEF RemovalsLogged
<1> QED  BY <1>1, NothingVanishes, LoneRemovalsLoggedOnce, PTL

-----------------------------------------------------------------------------
(* The third invariant: bulk adds overlap, the other changes come alone,   *)
(* and the counters stay exact.                                            *)

\* The kinds that overlap with nothing under Exclusive.
Solo == {"add", "remove", "patch"}

\* A new member is in, the counters do not say so yet.
Uncounted(q) == q.kind = "add" /\ q.pc \in {"changed", "counting", "counted"}

Exact(g, us) ==
  /\ g.students = Cardinality(us \cap Students)
  /\ g.teachers = Cardinality(us \cap Teachers)

\* What a request knows of the group g and its members us.
Steady(q, g, us) ==
  /\ q.kind = "add" /\ q.pc = "begun" =>
       \E u \in Users : q.who = {u} /\ (u \in Students => g.students < g.max)
  /\ q.pc \in {"counting", "counted"} =>
       q.row.students = Cardinality((us \ q.gone) \cap Students)
  /\ q.pc = "counted" =>
       q.row.teachers = Cardinality((us \ q.gone) \cap Teachers)
  /\ q.pc = "locked" => q.row = g
  /\ q.kind = "patch" => q.row = g

SoloLone ==
  \A r, q \in Requests : req[r].kind \in Solo /\ req[q].kind # "none" => q = r

\* The lock of the group has one holder.
OneHolder ==
  \A r, q \in Requests : req[r].pc = "locked" /\ req[q].pc = "locked" => q = r

CountInv ==
  /\ Exclusive /\ LogInv /\ SoloLone /\ OneHolder
  /\ \A r \in Requests : Steady(req[r], group, members)
  /\ (\A r \in Requests : ~Uncounted(req[r])) => Exact(group, members)

\* Requests of these two kinds may overlap.
Apart(kind, other) ==
  \/ kind = "none" \/ other = "none"
  \/ kind \notin Solo /\ other \notin Solo

\* A request that knows nothing of the group yet.
Passive(q) == q.kind = "none" \/ (q.kind = "bulk" /\ q.pc = "begun")

LEMMA PassiveIsSteady ==
  ASSUME NEW q \in Request, Sound(q), Passive(q), NEW g, NEW us
  PROVE  Steady(q, g, us)
BY IdleHasNoKind DEF Passive, Steady

\* A step of request r, with no other that knows the group unless that stays.
LEMMA CountStep ==
  ASSUME CountInv, LogInv', NEW r \in Requests, NEW x \in Request,
         req' = [req EXCEPT ![r] = x], traffic' = traffic,
         Steady(x, group', members'), ~Uncounted(x) => Exact(group', members'),
         \A q \in Requests \ {r} : Apart(x.kind, req[q].kind),
         x.pc = "locked" => \A q \in Requests \ {r} : req[q].pc # "locked",
         \/ UNCHANGED <<group, members>>
         \/ \A q \in Requests \ {r} : Passive(req[q])
  PROVE  CountInv'
<1>1. /\ req'[r] = x /\ \A q \in Requests \ {r} : req'[q] = req[q]
  BY Replace DEF CountInv, LogInv, RowsInv
<1>2. SoloLone'
  BY <1>1 DEF CountInv, SoloLone, Apart, Solo
<1>3. OneHolder'
  BY <1>1 DEF CountInv, OneHolder
<1>4. ASSUME NEW q \in Requests
      PROVE  Steady(req'[q], group', members')
  <2>1. CASE q = r
    BY <1>1, <2>1
  <2>2. CASE q # r /\ Passive(req[q])
    <3>1. req[q] \in Request /\ Sound(req[q])
      BY DEF CountInv, LogInv, RowsInv, TypeOK
    <3> QED  BY <1>1, <2>2, <3>1, PassiveIsSteady
  <2>3. CASE q # r /\ group' = group /\ members' = members
    BY <1>1, <2>3 DEF CountInv
  <2> QED  BY <2>1, <2>2, <2>3
<1>5. (\A q \in Requests : ~Uncounted(req'[q])) => Exact(group', members')
  BY <1>1
<1>6. Exclusive'
  BY DEF CountInv, Exclusive
<1> QED  BY <1>2, <1>3, <1>4, <1>5, <1>6 DEF CountInv

LEMMA CountInvInit == Init /\ Exclusive => CountInv
<1> SUFFICES ASSUME Init, Exclusive PROVE CountInv
  OBVIOUS
<1>1. LogInv
  BY LogInvInit DEF Exclusive, RemovalsAlone
<1>2. SoloLone /\ OneHolder /\ \A r \in Requests : Steady(req[r], group, members)
  BY DEF Init, SoloLone, Solo, OneHolder, Steady, Idle
<1>3. Exact(group, members)
  <2>1. members \cap Students = {} /\ members \cap Teachers = {}
    BY DEF Init
  <2> QED  BY <2>1, FS_EmptySet DEF Init, Exact, NoGroup
<1> QED  BY <1>1, <1>2, <1>3 DEF CountInv

LEMMA CountInvStep == CountInv /\ [Next]_vars => CountInv'
<1> SUFFICES ASSUME CountInv, [Next]_vars PROVE CountInv'
  OBVIOUS
<1>t. /\ traffic' = traffic /\ traffic.limits \subseteq Limits
      /\ Step \/ UNCHANGED vars
  BY TrafficAssumption DEF Next, vars, CountInv, LogInv, RowsInv, TypeOK, Traffics
<1> USE <1>t
<1>a. LogInv' /\ LogInv /\ RowsInv /\ TypeOK /\ Exclusive /\ group \in GroupRow
  BY LogInvStep DEF CountInv, LogInv, RowsInv, TypeOK
<1>b. /\ Idle \in Request /\ ~Uncounted(Idle) /\ Idle.kind = "none" /\ Idle.pc = "idle"
      /\ Steady(Idle, group', members')
  BY InitialTypes DEF Idle, Uncounted, Steady
<1>c. \A r \in Requests : /\ req[r] \in Request /\ Sound(req[r])
                          /\ Faithful(req[r], members, joined)
                          /\ Steady(req[r], group, members)
                          /\ req[r].kind \in traffic.kinds \cup {"none"}
                          /\ req[r].kind = "none" <=> req[r].pc = "idle"
  BY <1>a, IdleHasNoKind DEF CountInv, LogInv, RowsInv, TypeOK, Known
<1>d. \A r \in Requests : req[r].kind # "none" =>
        /\ \A q \in Requests \ {r} : Apart(req[r].kind, req[q].kind)
        /\ ~Uncounted(req[r]) => Exact(group, members)
        /\ req[r].kind \in Solo => \A q \in Requests \ {r} : req[q].kind = "none"
  BY DEF CountInv, SoloLone, Apart, Uncounted, Solo
<1>e. ASSUME NEW kind \in traffic.kinds, Clear(kind)
      PROVE  /\ \A q \in Requests : Apart(kind, req[q].kind) /\ req[q].kind \notin Solo
             /\ Exact(group, members)
  <2>1. \A q \in Requests : Apart(kind, req[q].kind) /\ req[q].kind \notin Solo
    BY <1>a, <1>c, <1>e DEF Clear, InFlight, Exclusive, Solo, Apart
  <2> QED  BY <2>1 DEF CountInv, Uncounted, Solo
<1>l. ASSUME NEW r \in Requests, req[r].pc = "locked"
      PROVE  \A q \in Requests \ {r} : Passive(req[q])
  <2> SUFFICES ASSUME NEW q \in Requests \ {r} PROVE Passive(req[q])
    OBVIOUS
  <2>1. /\ req[r].kind = "bulk" /\ req[q].pc # "locked"
        /\ req[q] \in Request /\ Sound(req[q]) /\ Apart(req[r].kind, req[q].kind)
        /\ req[q].kind = "none" <=> req[q].pc = "idle"
    BY <1>c, <1>d, <1>l DEF Sound, CountInv, OneHolder
  <2> QED  BY <2>1 DEF Apart, Solo, Passive, Request, Sound
<1>1. CASE UNCHANGED vars
  BY <1>1, <1>a DEF vars, CountInv, SoloLone, OneHolder, Exclusive
<1>2. CASE \E limit \in Limits, ts \in SUBSET Teachers : CreateGroup(limit, ts)
  <2>1. PICK limit \in Limits, ts \in SUBSET Teachers : CreateGroup(limit, ts)
    BY <1>2
  <2>2. /\ members = {} /\ limit \in Nat /\ req' = req
        /\ \A r \in Requests : req[r].pc = "idle" /\ req[r].kind = "none"
    BY <2>1, <1>a, <1>c, LimitsAssumption DEF CreateGroup, RowsInv, NothingBefore
  <2>3. members' = ts
    BY <2>1, <2>2 DEF CreateGroup, Join
  <2>4. [NoGroup EXCEPT !.state = "alive", !.max = limit] \in GroupRow
    BY <2>2, InitialTypes DEF NoGroup, GroupRow
  <2>5. Exact(group', members')
    BY <2>1, <2>3, <2>4, WithCountsType DEF CreateGroup, Exact
  <2>6. \A r \in Requests : Steady(req'[r], group', members')
    BY <1>c, <2>2, PassiveIsSteady DEF Passive
  <2>7. SoloLone' /\ OneHolder' /\ Exclusive'
    BY <1>a, <2>2 DEF SoloLone, OneHolder, Exclusive
  <2> QED  BY <1>a, <2>5, <2>6, <2>7 DEF CountInv
<1>3. CASE DeleteGroup
  <2>1. /\ UNCHANGED <<members, joined, history, req>> /\ Clear("delete") /\ ~GroupLocked
        /\ "delete" \in traffic.kinds
        /\ group'.students = group.students /\ group'.teachers = group.teachers
    BY <1>3, <1>a DEF DeleteGroup, GroupRow
  <2>2. Exact(group', members')
    BY <1>e, <2>1 DEF Exact
  <2>3. \A q \in Requests : req[q].kind \notin Solo /\ req[q].pc # "locked"
    BY <1>e, <2>1 DEF GroupLocked
  <2>4. \A q \in Requests : Passive(req[q])
    BY <1>c, <2>3 DEF Passive, Solo, Request, Sound
  <2>5. \A q \in Requests : Steady(req'[q], group', members')
    BY <1>c, <2>1, <2>4, PassiveIsSteady
  <2>6. SoloLone' /\ OneHolder' /\ Exclusive'
    BY <1>a, <2>1 DEF CountInv, SoloLone, OneHolder, Exclusive
  <2> QED  BY <1>a, <2>2, <2>5, <2>6 DEF CountInv
<1>4. ASSUME NEW r \in Requests, NEW x \in Request, req' = [req EXCEPT ![r] = x],
             UNCHANGED <<group, members>>, Steady(x, group, members),
             ~Uncounted(x) => Exact(group, members), x.pc # "locked",
             \A q \in Requests \ {r} : Apart(x.kind, req[q].kind)
      PROVE  CountInv'
  <2>1. Steady(x, group', members') /\ (~Uncounted(x) => Exact(group', members'))
    BY <1>4
  <2> QED  BY <1>4, <1>a, <2>1, CountStep
<1>5. ASSUME NEW r \in Requests, Answer(r), UNCHANGED <<group, members>>,
             Exact(group, members)
      PROVE  CountInv'
  <2>1. Steady(Idle, group, members) /\ \A q \in Requests : Apart(Idle.kind, req[q].kind)
    BY <1>b, <1>5 DEF Apart
  <2> QED  BY <1>4, <1>5, <1>b, <2>1 DEF Answer
<1>6. ASSUME NEW r \in Requests, NEW u \in Users, ValidateAdd(r, u)
      PROVE  CountInv'
  <2> DEFINE x == [Idle EXCEPT !.kind = "add", !.pc = "begun", !.who = {u}]
  <2>1. u \in Students => group.students < group.max
    BY <1>6, <1>a, RowNumbers DEF ValidateAdd, Full
  <2>2. x \in Request /\ Steady(x, group, members) /\ x.kind = "add" /\ x.pc = "begun"
    BY <2>1, InitialTypes DEF Idle, Request, Steady
  <2>3. /\ req' = [req EXCEPT ![r] = x] /\ UNCHANGED <<group, members>>
        /\ "add" \in traffic.kinds /\ Clear("add")
    BY <1>6 DEF ValidateAdd, Begin, Idle
  <2> HIDE DEF x
  <2>4. Exact(group, members) /\ \A q \in Requests : Apart("add", req[q].kind)
    BY <1>e, <2>3
  <2> QED  BY <1>4, <2>2, <2>3, <2>4
<1>7. ASSUME NEW r \in Requests, NEW u \in Users, LoadMember(r, u)
      PROVE  CountInv'
  <2> DEFINE x == [Idle EXCEPT !.kind = "remove", !.pc = "begun", !.who = {u},
                               !.born = joined[u]]
  <2>1. x \in Request /\ Steady(x, group, members) /\ x.kind = "remove" /\ x.pc = "begun"
    BY <1>a, InitialTypes DEF Idle, Request, Steady, TypeOK
  <2>2. /\ req' = [req EXCEPT ![r] = x] /\ UNCHANGED <<group, members>>
        /\ "remove" \in traffic.kinds /\ Clear("remove")
    BY <1>7 DEF LoadMember, Begin, Idle
  <2> HIDE DEF x
  <2>3. Exact(group, members) /\ \A q \in Requests : Apart("remove", req[q].kind)
    BY <1>e, <2>2
  <2> QED  BY <1>4, <2>1, <2>2, <2>3
<1>8. ASSUME NEW r \in Requests, NEW us \in SUBSET Users, ValidateBulk(r, us)
      PROVE  CountInv'
  <2> DEFINE x == [Idle EXCEPT !.kind = "bulk", !.pc = "begun", !.who = us]
  <2>1. x \in Request /\ Steady(x, group, members) /\ x.kind = "bulk" /\ x.pc = "begun"
    BY InitialTypes DEF Idle, Request, Steady
  <2>2. /\ req' = [req EXCEPT ![r] = x] /\ UNCHANGED <<group, members>>
        /\ "bulk" \in traffic.kinds /\ Clear("bulk")
    BY <1>8 DEF ValidateBulk, Begin, Idle
  <2> HIDE DEF x
  <2>3. Exact(group, members) /\ \A q \in Requests : Apart("bulk", req[q].kind)
    BY <1>e, <2>2
  <2> QED  BY <1>4, <2>1, <2>2, <2>3
<1>9. ASSUME NEW r \in Requests, LoadGroup(r)
      PROVE  CountInv'
  <2> DEFINE x == [Idle EXCEPT !.kind = "patch", !.pc = "begun", !.row = group]
  <2>1. x \in Request /\ Steady(x, group, members) /\ x.kind = "patch" /\ x.pc = "begun"
    BY <1>a, InitialTypes DEF Idle, Request, Steady
  <2>2. /\ req' = [req EXCEPT ![r] = x] /\ UNCHANGED <<group, members>>
        /\ "patch" \in traffic.kinds /\ Clear("patch")
    BY <1>9 DEF LoadGroup, Begin, Idle
  <2> HIDE DEF x
  <2>3. Exact(group, members) /\ \A q \in Requests : Apart("patch", req[q].kind)
    BY <1>e, <2>2
  <2> QED  BY <1>4, <2>1, <2>2, <2>3
<1>10. ASSUME NEW r \in Requests, InsertMember(r)
       PROVE  CountInv'
  <2>1. /\ req[r] \in Request /\ req[r].kind = "add" /\ req[r].pc = "begun"
        /\ \A q \in Requests \ {r} : Apart("add", req[q].kind) /\ req[q].kind = "none"
        /\ Exact(group, members)
    BY <1>10, <1>c, <1>d DEF InsertMember, Uncounted, Solo
  <2>2. CASE Answer(r) /\ UNCHANGED <<group, members>>
    BY <1>5, <2>1, <2>2
  <2>3. CASE req' = [req EXCEPT ![r].pc = "changed"]
    <3> DEFINE x == [req[r] EXCEPT !.pc = "changed"]
    <3>1. /\ x \in Request /\ x.pc = "changed" /\ x.kind = "add"
          /\ req' = [req EXCEPT ![r] = x]
      BY <2>1, <2>3 DEF Request
    <3> HIDE DEF x
    <3>2. Steady(x, group', members') /\ Uncounted(x)
      BY <3>1 DEF Steady, Uncounted
    <3>3. \A q \in Requests \ {r} : Apart(x.kind, req[q].kind) /\ Passive(req[q])
      BY <2>1, <3>1 DEF Passive
    <3> QED  BY <1>a, <3>1, <3>2, <3>3, CountStep
  <2> QED  BY <1>10, <2>2, <2>3 DEF InsertMember
<1>11. ASSUME NEW r \in Requests, DeleteMember(r)
       PROVE  CountInv'
  <2> DEFINE g == {u \in req[r].who \cap members : joined[u] = req[r].born}
             x == [req[r] EXCEPT !.pc = "changed", !.gone = g]
  <2>1. /\ req[r] \in Request /\ req[r].kind = "remove" /\ req[r].pc = "begun"
        /\ \A q \in Requests \ {r} : Apart("remove", req[q].kind)
        /\ Exact(group, members) /\ g \subseteq Users
    BY <1>11, <1>c, <1>d DEF DeleteMember, Uncounted, Request
  <2>2. req' = [req EXCEPT ![r] = x] /\ UNCHANGED <<group, members>>
    BY <1>11 DEF DeleteMember
  <2> HIDE DEF g
  <2>3. x \in Request /\ Steady(x, group, members) /\ x.kind = "remove" /\ x.pc = "changed"
    BY <2>1 DEF Request, Steady
  <2> HIDE DEF x
  <2> QED  BY <1>4, <2>1, <2>2, <2>3
<1>12. ASSUME NEW r \in Requests, CountStudents(r)
       PROVE  CountInv'
  <2> DEFINE n == Cardinality(Seen(r) \cap Students)
             x == [req[r] EXCEPT !.pc = "counting", !.row.students = n]
  <2>1. /\ req[r] \in Request /\ req[r].pc = "changed"
        /\ req[r].kind \in {"add", "remove"}
        /\ \A q \in Requests \ {r} : Apart(req[r].kind, req[q].kind)
        /\ ~Uncounted(req[r]) => Exact(group, members)
    BY <1>12, <1>c, <1>d DEF CountStudents, Sound
  <2>2. n \in 0..Cardinality(Students) /\ n = Cardinality((members \ req[r].gone) \cap Students)
    BY CountTypes DEF Seen
  <2>3. req' = [req EXCEPT ![r] = x] /\ UNCHANGED <<group, members>>
    BY <1>12 DEF CountStudents
  <2> HIDE DEF n
  <2>4. /\ x \in Request /\ x.pc = "counting" /\ x.kind = req[r].kind /\ x.gone = req[r].gone
        /\ x.row.students = n
    BY <2>1, <2>2 DEF Request, GroupRow
  <2> HIDE DEF x
  <2>5. Steady(x, group, members) /\ (~Uncounted(x) => Exact(group, members))
    BY <2>1, <2>2, <2>4 DEF Steady, Uncounted
  <2> QED  BY <1>4, <2>1, <2>3, <2>4, <2>5
<1>13. ASSUME NEW r \in Requests, CountTeachers(r)
       PROVE  CountInv'
  <2> DEFINE n == Cardinality(Seen(r) \cap Teachers)
             x == [req[r] EXCEPT !.pc = "counted", !.row.teachers = n]
  <2>1. /\ req[r] \in Request /\ req[r].pc = "counting"
        /\ req[r].kind \in {"add", "remove"}
        /\ \A q \in Requests \ {r} : Apart(req[r].kind, req[q].kind)
        /\ ~Uncounted(req[r]) => Exact(group, members)
        /\ req[r].row.students = Cardinality((members \ req[r].gone) \cap Students)
    BY <1>13, <1>c, <1>d DEF CountTeachers, Sound, Steady
  <2>2. n \in 0..Cardinality(Teachers) /\ n = Cardinality((members \ req[r].gone) \cap Teachers)
    BY CountTypes DEF Seen
  <2>3. req' = [req EXCEPT ![r] = x] /\ UNCHANGED <<group, members>>
    BY <1>13 DEF CountTeachers
  <2> HIDE DEF n
  <2>4. /\ x \in Request /\ x.pc = "counted" /\ x.kind = req[r].kind /\ x.gone = req[r].gone
        /\ x.row.students = req[r].row.students /\ x.row.teachers = n
    BY <2>1, <2>2 DEF Request, GroupRow
  <2> HIDE DEF x
  <2>5. Steady(x, group, members) /\ (~Uncounted(x) => Exact(group, members))
    BY <2>1, <2>2, <2>4 DEF Steady, Uncounted
  <2> QED  BY <1>4, <2>1, <2>3, <2>4, <2>5
<1>14. ASSUME NEW r \in Requests, SaveCounts(r)
       PROVE  CountInv'
  <2>1. /\ req[r].kind \in {"add", "remove"}
        /\ \A q \in Requests \ {r} : req[q].kind = "none"
        /\ req[r].row.students = Cardinality((members \ req[r].gone) \cap Students)
        /\ req[r].row.teachers = Cardinality((members \ req[r].gone) \cap Teachers)
    BY <1>14, <1>c, <1>d DEF SaveCounts, Sound, Steady, Solo
  <2>2. /\ members' = members \ req[r].gone
        /\ group'.students = req[r].row.students /\ group'.teachers = req[r].row.teachers
        /\ req' = [req EXCEPT ![r] = Idle]
    BY <1>14, <1>a DEF SaveCounts, Seen, GroupRow, Answer
  <2>3. Exact(group', members')
    BY <2>1, <2>2 DEF Exact
  <2>4. \A q \in Requests \ {r} : Apart(Idle.kind, req[q].kind) /\ Passive(req[q])
    BY <1>b, <2>1 DEF Apart, Passive
  <2> QED  BY <1>a, <1>b, <2>2, <2>3, <2>4, CountStep
<1>15. ASSUME NEW r \in Requests, LockGroup(r)
       PROVE  CountInv'
  <2>1. /\ req[r].kind = "bulk" /\ req[r].pc = "begun" /\ req[r] \in Request
        /\ UNCHANGED <<group, members>>
        /\ \A q \in Requests \ {r} : Apart("bulk", req[q].kind)
        /\ Exact(group, members)
    BY <1>15, <1>c, <1>d DEF LockGroup, Uncounted
  <2>2. CASE req' = [req EXCEPT ![r].pc = "locked", ![r].row = group] /\ ~GroupLocked
    <3> DEFINE x == [req[r] EXCEPT !.pc = "locked", !.row = group]
    <3>1. x \in Request /\ x.pc = "locked" /\ x.kind = "bulk" /\ x.row = group
      BY <1>a, <2>1 DEF Request
    <3>2. req' = [req EXCEPT ![r] = x] /\ \A q \in Requests : req[q].pc # "locked"
      BY <2>2 DEF GroupLocked
    <3> HIDE DEF x
    <3>3. Steady(x, group', members') /\ Exact(group', members')
      BY <2>1, <3>1 DEF Steady
    <3>4. \A q \in Requests \ {r} : Apart(x.kind, req[q].kind)
      BY <2>1, <3>1
    <3> QED  BY <1>a, <2>1, <3>1, <3>2, <3>3, <3>4, CountStep
  <2>3. CASE Answer(r)
    BY <1>5, <2>1, <2>3
  <2> QED  BY <1>15, <2>2, <2>3 DEF LockGroup
<1>16. ASSUME NEW r \in Requests, AddAll(r)
       PROVE  CountInv'
  <2> DEFINE new == req[r].who \ members
  <2>1. /\ req[r].pc = "locked" /\ req[r].kind = "bulk" /\ req' = [req EXCEPT ![r] = Idle]
        /\ \A q \in Requests \ {r} : Apart(Idle.kind, req[q].kind) /\ Passive(req[q])
        /\ Exact(group, members)
    BY <1>16, <1>b, <1>c, <1>d, <1>l DEF AddAll, Answer, Uncounted, Sound, Apart
  <2>2. CASE UNCHANGED <<group, members>>
    BY <1>5, <2>1, <2>2 DEF Answer
  <2>3. CASE Join(new) /\ group' = IF new = {} THEN group
                                   ELSE BulkCounted(group, members, members \cup new)
    <3>1. members' = members \cup new
      BY <2>3 DEF Join
    <3>2. Exact(group', members')
      <4>1. CASE new = {}
        BY <2>1, <2>3, <3>1, <4>1 DEF Exact
      <4>2. CASE new # {}
        BY <1>a, <2>3, <3>1, <4>2, WithCountsType DEF BulkCounted, Exact
      <4> QED  BY <4>1, <4>2
    <3> QED  BY <1>a, <1>b, <2>1, <3>2, CountStep
  <2> QED  BY <1>16, <2>2, <2>3 DEF AddAll
<1>17. ASSUME NEW r \in Requests, NEW limit, SaveGroup(r, limit)
       PROVE  CountInv'
  <2>1. /\ req' = [req EXCEPT ![r] = Idle] /\ members' = members
        /\ \A q \in Requests \ {r} : req[q].kind = "none"
        /\ Exact(group, members) /\ req[r].row = group
    BY <1>17, <1>c, <1>d DEF SaveGroup, Answer, Uncounted, Steady, Solo
  <2>2. Exact(group', members')
    BY <1>17, <1>a, <2>1 DEF SaveGroup, Exact, GroupRow
  <2>3. \A q \in Requests \ {r} : Apart(Idle.kind, req[q].kind) /\ Passive(req[q])
    BY <1>b, <2>1 DEF Apart, Passive
  <2> QED  BY <1>a, <1>b, <2>1, <2>2, <2>3, CountStep
<1>18. ASSUME NEW r \in Requests, Abort(r)
       PROVE  CountInv'
  <2>1. req[r].kind # "none" /\ req[r].kind # "add"
    BY <1>18, <1>a, <1>c DEF Abort, Exclusive
  <2>2. Exact(group, members)
    BY <1>d, <2>1 DEF Uncounted
  <2> QED  BY <1>18, <1>5, <2>2 DEF Abort
<1> QED
  BY <1>1, <1>2, <1>3, <1>6, <1>7, <1>8, <1>9, <1>10, <1>11, <1>12, <1>13,
     <1>14, <1>15, <1>16, <1>17, <1>18 DEF Step

LEMMA CountInvAlways == Spec => [](Exclusive => CountInv)
<1>1. Init => (Exclusive => CountInv)
  BY CountInvInit
<1>2. (Exclusive => CountInv) /\ [Next]_vars => (Exclusive => CountInv)'
  <2>1. [Next]_vars /\ Exclusive' => Exclusive
    BY DEF Next, vars, Exclusive
  <2> QED  BY <2>1, CountInvStep
<1> QED  BY <1>1, <1>2, PTL DEF Spec

\* Bulk adds that overlap and fail, among changes that come one at a time, leave
\* the counters exact: every path that changes the members brings them up to
\* date, and the lock of the group keeps the bulk adds in turn.
THEOREM CountersExact == Spec => []CountsExact
<1>1. (Exclusive => CountInv) => CountsExact
  <2> SUFFICES ASSUME CountInv, InFlight = {} PROVE group = WithCounts(group, members)
    BY DEF CountsExact
  <2>1. \A r \in Requests : ~Uncounted(req[r])
    BY DEF InFlight, Uncounted
  <2>2. Exact(group, members) /\ group \in GroupRow
    BY <2>1 DEF CountInv, LogInv, RowsInv, TypeOK
  <2> QED  BY <2>2 DEF Exact, WithCounts, GroupRow
<1> QED  BY <1>1, CountInvAlways, PTL

-----------------------------------------------------------------------------
(* Capacity: exact counters make the checks of the two adds sound.         *)

LEMMA EnrolStep ==
  CountInv /\ [Next]_vars => (Enrolled' > Enrolled => Enrolled' <= group'.max)
<1> SUFFICES ASSUME CountInv, [Next]_vars, Enrolled' > Enrolled
             PROVE  Enrolled' <= group'.max
  OBVIOUS
<1>t. /\ traffic.limits \subseteq Limits
      /\ Step \/ UNCHANGED vars
  BY TrafficAssumption DEF Next, CountInv, LogInv, RowsInv, TypeOK, Traffics
<1>a. /\ group \in GroupRow /\ group.students \in Nat /\ group.max \in Nat
      /\ Enrolled \in Nat /\ Enrolled' \in Nat
      /\ \A r \in Requests : req[r] \in Request /\ Steady(req[r], group, members)
  BY CountTypes, RowNumbers DEF CountInv, LogInv, RowsInv, TypeOK, Enrolled
<1>b. \A r \in Requests : req[r].kind # "none" /\ ~Uncounted(req[r]) => Exact(group, members)
  BY DEF CountInv, SoloLone, Solo, Uncounted
<1>1. ASSUME members' \subseteq members PROVE FALSE
  <2>1. Enrolled' <= Enrolled
    BY <1>1, CountMonotone DEF Enrolled
  <2> QED  BY <1>a, <2>1
<1>2. ASSUME NEW new, members' = members \cup new, members \cap new = {}
      PROVE  Enrolled' = Enrolled + Cardinality(new \cap Students)
  BY <1>2, CountJoin DEF Enrolled
<1>3. CASE \E limit \in Limits, ts \in SUBSET Teachers : CreateGroup(limit, ts)
  <2>1. members' \cap Students = {}
    BY <1>3, UsersAssumption DEF CreateGroup, Join, CountInv, LogInv, RowsInv, NothingBefore
  <2>2. Enrolled' = 0
    BY <2>1, FS_EmptySet DEF Enrolled
  <2> QED  BY <1>a, <2>2
<1>4. ASSUME NEW r \in Requests, InsertMember(r)
      PROVE  Enrolled' <= group'.max
  <2>1. /\ req[r].kind = "add" /\ req[r].pc = "begun" /\ group' = group
        /\ Exact(group, members) /\ Steady(req[r], group, members)
    BY <1>1, <1>4, <1>a, <1>b DEF InsertMember, Uncounted
  <2>2. members' = members \cup req[r].who /\ members \cap req[r].who = {}
    BY <1>1, <1>4 DEF InsertMember, Join
  <2>3. PICK u \in Users : req[r].who = {u} /\ (u \in Students => group.students < group.max)
    BY <2>1 DEF Steady
  <2>4. Enrolled' = Enrolled + Cardinality({u} \cap Students) /\ Enrolled = group.students
    BY <1>2, <2>1, <2>2, <2>3 DEF Exact, Enrolled
  <2>5. CASE u \in Students
    <3>1. {u} \cap Students = {u}
      BY <2>5
    <3>2. Cardinality({u} \cap Students) = 1
      BY <3>1, FS_Singleton
    <3>3. group.students < group.max /\ group' = group
      BY <2>1, <2>3, <2>5
    <3> QED  BY <1>a, <2>4, <3>2, <3>3
  <2>6. CASE u \notin Students
    <3>1. {u} \cap Students = {}
      BY <2>6
    <3>2. Cardinality({u} \cap Students) = 0
      BY <3>1, FS_EmptySet
    <3> QED  BY <1>a, <2>4, <3>2
  <2> QED  BY <2>5, <2>6
<1>5. ASSUME NEW r \in Requests, AddAll(r)
      PROVE  Enrolled' <= group'.max
  <2> DEFINE new == req[r].who \ members
             seats == Cardinality(new \cap Students)
  <2>1. Sound(req[r]) /\ req[r].pc = "locked"
    BY <1>5 DEF AddAll, CountInv, LogInv, RowsInv
  <2>2. req[r].row = group /\ Exact(group, members)
    BY <1>a, <1>b, <2>1 DEF Sound, Steady, Uncounted
  <2>3. /\ seats = 0 \/ group.students + seats <= group.max
        /\ Join(new)
        /\ group' = IF new = {} THEN group
                    ELSE BulkCounted(group, members, members \cup new)
    BY <1>1, <1>5, <2>2 DEF AddAll
  <2>4. members' = members \cup new /\ members \cap new = {}
    BY <2>3 DEF Join
  <2>5. Enrolled' = Enrolled + seats /\ seats \in Nat /\ Enrolled = group.students
    BY <1>2, <2>2, <2>4, CountTypes DEF Exact, Enrolled
  <2>6. group'.max = group.max
    BY <1>a, <2>3, WithCountsType DEF BulkCounted
  <2> HIDE DEF seats, new
  <2> QED  BY <1>a, <2>3, <2>5, <2>6
<1>6. \A r \in Requests : ~SaveCounts(r)
  BY <1>1 DEF SaveCounts, Seen
<1>7. \A r \in Requests :
        /\ ~DeleteMember(r) /\ ~CountStudents(r) /\ ~CountTeachers(r)
        /\ ~LockGroup(r) /\ ~LoadGroup(r) /\ ~Abort(r)
        /\ \A u \in Users : ~ValidateAdd(r, u) /\ ~LoadMember(r, u)
        /\ \A us \in SUBSET Users : ~ValidateBulk(r, us)
        /\ \A limit \in Limits \cup {req[r].row.max} : ~SaveGroup(r, limit)
  BY <1>1 DEF DeleteMember, CountStudents, CountTeachers, LockGroup,
              LoadGroup, Abort, ValidateAdd, LoadMember, ValidateBulk, SaveGroup
<1>8. ~DeleteGroup /\ ~UNCHANGED vars
  BY <1>1 DEF DeleteGroup, vars
<1> QED  BY <1>t, <1>3, <1>4, <1>5, <1>6, <1>7, <1>8 DEF Step

\* A step that enrols leaves the group within its limit, even after the limit
\* was lowered below the number enrolled.
THEOREM EnrolsWithinLimit == Spec => EnrolWithinLimit
<1>1. (Exclusive => CountInv) /\ [Next]_vars =>
        [Exclusive /\ Enrolled' > Enrolled => Enrolled' <= group'.max]_vars
  BY EnrolStep
<1> QED  BY <1>1, CountInvAlways, PTL DEF Spec, EnrolWithinLimit

\* Without a PATCH the limit of a group stays what it was created with.
LEMMA LimitStays ==
  ASSUME RowsInv, [Next]_vars, "patch" \notin traffic.kinds
  PROVE  group'.max = group.max \/ Enrolled' = 0
<1>t. Step \/ UNCHANGED vars
  BY DEF Next
<1>a. group \in GroupRow
  BY DEF RowsInv, TypeOK
<1>1. CASE \E limit \in traffic.limits, ts \in SUBSET Teachers : CreateGroup(limit, ts)
  <2>1. members' \cap Students = {}
    BY <1>1, UsersAssumption DEF CreateGroup, Join, RowsInv, NothingBefore
  <2> QED  BY <2>1, FS_EmptySet DEF Enrolled
<1>2. ASSUME NEW r \in Requests, AddAll(r)
      PROVE  group'.max = group.max
  <2> DEFINE us == members \cup (req[r].who \ members)
  <2>1. group' = group \/ group' = WithCounts(group, us)
    BY <1>2 DEF AddAll, BulkCounted
  <2>2. WithCounts(group, us).max = group.max
    BY <1>a, WithCountsType
  <2> QED  BY <2>1, <2>2
<1>3. ASSUME NEW r \in Requests, SaveCounts(r)
      PROVE  group'.max = group.max
  BY <1>3, <1>a DEF SaveCounts, GroupRow
<1>4. CASE DeleteGroup
  BY <1>4, <1>a DEF DeleteGroup, GroupRow
<1>5. ASSUME NEW r \in Requests, NEW limit, SaveGroup(r, limit)
      PROVE  FALSE
  BY <1>5 DEF SaveGroup, RowsInv, Known
<1>6. ASSUME NEW r \in Requests,
             \/ \E u \in Users : ValidateAdd(r, u) \/ LoadMember(r, u)
             \/ InsertMember(r) \/ DeleteMember(r)
             \/ CountStudents(r) \/ CountTeachers(r)
             \/ \E us \in SUBSET Users : ValidateBulk(r, us)
             \/ LockGroup(r) \/ LoadGroup(r) \/ Abort(r)
      PROVE  group' = group
  BY <1>6 DEF ValidateAdd, LoadMember, InsertMember, DeleteMember, CountStudents,
              CountTeachers, ValidateBulk, LockGroup, LoadGroup, Abort
<1>7. CASE UNCHANGED vars
  BY <1>7 DEF vars
<1> QED  BY <1>t, <1>1, <1>2, <1>3, <1>4, <1>5, <1>6, <1>7 DEF Step

\* However bulk adds overlap and fail between changes that come one at a time,
\* no group holds more students than max_students.
THEOREM CapacityKept == Spec => []NoOverfill
<1>1. Init => NoOverfill
  <2>1. Init => Enrolled = 0 /\ group.max = 0
    <3>1. Init => members \cap Students = {}
      BY DEF Init
    <3> QED  BY <3>1, FS_EmptySet DEF Enrolled, Init, NoGroup
  <2> QED  BY <2>1 DEF NoOverfill
<1>2. NoOverfill /\ (Exclusive => CountInv) /\ (Exclusive => CountInv)' /\ [Next]_vars
        => NoOverfill'
  <2> SUFFICES ASSUME NoOverfill, Exclusive => CountInv, (Exclusive => CountInv)',
                      [Next]_vars, Exclusive', "patch" \notin traffic'.kinds
               PROVE  Enrolled' <= group'.max
    BY DEF NoOverfill
  <2>1. traffic' = traffic /\ Exclusive
    BY DEF Next, vars, Exclusive
  <2>2. CountInv /\ CountInv' /\ RowsInv /\ Enrolled <= group.max
    BY <2>1 DEF CountInv, LogInv, NoOverfill
  <2>3. group.max \in Nat /\ group'.max \in Nat /\ Enrolled \in Nat /\ Enrolled' \in Nat
    BY <2>2, CountTypes DEF CountInv, LogInv, RowsInv, TypeOK, GroupRow, Enrolled
  <2>4. CASE Enrolled' > Enrolled
    BY <2>2, <2>4, EnrolStep
  <2>5. CASE Enrolled' <= Enrolled
    <3>1. group'.max = group.max \/ Enrolled' = 0
      BY <2>1, <2>2, LimitStays
    <3> QED  BY <2>2, <2>3, <2>5, <3>1
  <2> QED  BY <2>3, <2>4, <2>5
<1> QED  BY <1>1, <1>2, CountInvAlways, PTL DEF Spec
=============================================================================
