-------------------------- MODULE GroupMembership --------------------------
(***************************************************************************)
(* The groups app: one row of table `groups` with its cached counters, its *)
(* rows of `groupmembership`, and the log of removals.                     *)
(*                                                                         *)
(* Requests interleave statement by statement under PostgreSQL's READ      *)
(* COMMITTED.  Adding one member runs in autocommit: the capacity check,   *)
(* the INSERT, the two COUNTs of the post_save signal and its UPDATE are   *)
(* five separate steps.  A removal is a transaction, a bulk add one that   *)
(* holds the group's row FOR UPDATE.  Two locks order them: that one, and  *)
(* the lock of a membership row being deleted.  The foreign keys to the    *)
(* group are DEFERRABLE INITIALLY DEFERRED (Django's on PostgreSQL): an    *)
(* INSERT of a membership or of a log entry takes FOR KEY SHARE on the     *)
(* group only at its COMMIT.  It waits there for a bulk add, and holds     *)
(* none up before: a bulk add overtakes an open removal.                   *)
(***************************************************************************)
EXTENDS Naturals, FiniteSets

CONSTANTS
  Students,   \* user ids with role STUDENT or GUEST
  Teachers,   \* user ids with role TEACHER
  Requests,   \* web requests being served at the same time
  Traffic,    \* the kinds of traffic considered: see Traffics
  Limits,     \* values of max_students
  MaxJoins    \* bound on the membership rows a user gets

\* The serializers let a user join only in the role of the account, so a user
\* has at most one membership row.
Users == Students \cup Teachers

ASSUME UsersAssumption ==
  /\ IsFiniteSet(Students) /\ IsFiniteSet(Teachers)
  /\ Students \cap Teachers = {}

Kinds == {"add", "bulk", "remove", "patch", "delete"}

\* The requests clients send, the kinds of them that overlap with no other
\* request, the limits they ask for, and whether workers may be killed and
\* statements may fail.
Traffics == [kinds : SUBSET Kinds, alone : SUBSET Kinds,
             limits : SUBSET Limits, aborts : BOOLEAN]

ASSUME TrafficAssumption == Traffic \subseteq Traffics
ASSUME LimitsAssumption == Limits \subseteq Nat
ASSUME BoundAssumption == MaxJoins \in Nat

VARIABLES
  group,     \* the committed row of `groups`
  members,   \* the users with a committed row in `groupmembership`
  joined,    \* joined[u]: membership rows ever created for u (the row's identity)
  history,   \* history[u]: rows of u in `groupmembershiphistory`
  req,       \* req[r]: what request r is doing
  traffic    \* the traffic of this history, chosen once

vars == <<group, members, joined, history, req, traffic>>

-----------------------------------------------------------------------------
(* Data.                                                                   *)

GroupRow == [state : {"none", "alive", "deleted"}, max : Nat,
             students : 0..Cardinality(Students),
             teachers : 0..Cardinality(Teachers)]
NoGroup  == [state |-> "none", max |-> 0, students |-> 0, teachers |-> 0]

Request ==
  [kind : {"none", "add", "bulk", "remove", "patch"},
   pc   : {"idle", "begun", "locked", "changed", "counting", "counted"},
   who  : SUBSET Users,    \* the users the request adds or removes
   born : Nat,             \* the membership row a removal loaded
   gone : SUBSET Users,    \* the rows its transaction has deleted, uncommitted
   row  : GroupRow]        \* its Group instance
Idle == [kind |-> "none", pc |-> "idle", who |-> {}, born |-> 0, gone |-> {},
         row |-> NoGroup]

InFlight == {r \in Requests : req[r].pc # "idle"}

WithCounts(row, users) ==
  [row EXCEPT !.students = Cardinality(users \cap Students),
              !.teachers = Cardinality(users \cap Teachers)]

Full(row) == row.students >= row.max

\* The Group saved by a bulk add: counted anew after the INSERT, since
\* bulk_create sends no signal.
BulkUncounted(row, before, after) == row                          \* fault
BulkAddedUp(row, before, after) ==           \* fault: repeats the old members
  [row EXCEPT !.students = @ + Cardinality(after \cap Students)]
BulkCounted(row, before, after) == WithCounts(row, after)

\* The removals that leave an entry in the log: those of either role.
LoggedStudents(users) == users \cap Students   \* fault: as before teachers were logged
Logged(users) == users

-----------------------------------------------------------------------------
(* Locks.                                                                  *)

\* fault: the group is read without select_for_update
NotLocked == FALSE
GroupLocked == \E r \in Requests : req[r].pc = "locked"

BeingDeleted(u) == \E r \in Requests : u \in req[r].gone

-----------------------------------------------------------------------------

Init ==
  /\ group = NoGroup
  /\ members = {}
  /\ joined = [u \in Users |-> 0]
  /\ history = [u \in Users |-> 0]
  /\ req = [r \in Requests |-> Idle]
  /\ traffic \in Traffic

Join(us) ==
  /\ members' = members \cup us
  /\ joined' = [u \in Users |-> IF u \in us THEN joined[u] + 1 ELSE joined[u]]

CanJoin(us) == \A u \in us : joined[u] < MaxJoins

\* A request of this kind overlaps with those being served only if it may.
Clear(kind) ==
  /\ kind \in traffic.alone => InFlight = {}
  /\ \A r \in InFlight : req[r].kind \notin traffic.alone

Begin(r, begun) ==
  /\ req[r].pc = "idle"
  /\ Clear(begun.kind)
  /\ req' = [req EXCEPT ![r] = begun]

Answer(r) == req' = [req EXCEPT ![r] = Idle]

\* POST /groups/ with teacher_ids: one transaction, and nobody sees the group
\* before it commits.  A repeated id fails the unique constraint: no group.
CreateGroup(limit, ts) ==
  /\ group.state = "none"
  /\ CanJoin(ts)
  /\ group' = WithCounts([NoGroup EXCEPT !.state = "alive", !.max = limit], ts)
  /\ Join(ts)
  /\ UNCHANGED <<history, req>>

-----------------------------------------------------------------------------
(* POST /group-memberships/: one member, in autocommit.                    *)

ValidateAdd(r, u) ==
  /\ "add" \in traffic.kinds
  /\ group.state = "alive"
  /\ u \in Students => ~Full(group)
  /\ CanJoin({u})
  /\ Begin(r, [Idle EXCEPT !.kind = "add", !.pc = "begun", !.who = {u}])
  /\ UNCHANGED <<group, members, joined, history>>

\* By the unique index the INSERT waits for a transaction that is deleting the
\* same user's row; its COMMIT waits for a bulk add that holds the group.  (A
\* bulk add of the same user waits for this INSERT in turn: one of the two is
\* the victim of that deadlock, an Abort.)
InsertMember(r) ==
  /\ req[r].kind = "add" /\ req[r].pc = "begun"
  /\ \A u \in req[r].who : ~BeingDeleted(u)
  /\ \/ /\ req[r].who \cap members # {}      \* IntegrityError: 400
        /\ Answer(r)
        /\ UNCHANGED <<group, members, joined, history>>
     \/ /\ req[r].who \cap members = {}
        /\ ~GroupLocked
        /\ Join(req[r].who)
        /\ req' = [req EXCEPT ![r].pc = "changed"]
        /\ UNCHANGED <<group, history>>

-----------------------------------------------------------------------------
(* DELETE /group-memberships/{id}/: one transaction after the row is       *)
(* loaded.                                                                 *)

LoadMember(r, u) ==
  /\ "remove" \in traffic.kinds
  /\ u \in members
  /\ Begin(r, [Idle EXCEPT !.kind = "remove", !.pc = "begun", !.who = {u},
                           !.born = joined[u]])
  /\ UNCHANGED <<group, members, joined, history>>

\* BEGIN, the INSERT into the log, which waits for nothing, and the DELETE by
\* primary key: it waits for another transaction deleting the row, and touches
\* nothing when the row it loaded is gone.
DeleteMember(r) ==
  /\ req[r].kind = "remove" /\ req[r].pc = "begun"
  /\ \A u \in req[r].who : ~BeingDeleted(u)
  /\ req' = [req EXCEPT
       ![r].pc = "changed",
       ![r].gone = {u \in req[r].who \cap members : joined[u] = req[r].born}]
  /\ UNCHANGED <<group, members, joined, history>>

-----------------------------------------------------------------------------
(* The signal update_group_counts, sent by the INSERT and by the DELETE,   *)
(* even one of no row.  Each COUNT sees what is committed when it runs,    *)
(* and the changes of its own transaction.                                 *)

Seen(r) == members \ req[r].gone

CountStudents(r) ==
  /\ req[r].pc = "changed"
  /\ req' = [req EXCEPT
       ![r].pc = "counting",
       ![r].row.students = Cardinality(Seen(r) \cap Students)]
  /\ UNCHANGED <<group, members, joined, history>>

CountTeachers(r) ==
  /\ req[r].pc = "counting"
  /\ req' = [req EXCEPT
       ![r].pc = "counted",
       ![r].row.teachers = Cardinality(Seen(r) \cap Teachers)]
  /\ UNCHANGED <<group, members, joined, history>>

\* The UPDATE of the two counters, which waits for a bulk add that holds the
\* group, and, after a removal, the COMMIT of the entry, the DELETE and the
\* counters: from the UPDATE on the transaction waits for nothing.
SaveCounts(r) ==
  /\ req[r].pc = "counted"
  /\ ~GroupLocked
  /\ group' = [group EXCEPT !.students = req[r].row.students,
                            !.teachers = req[r].row.teachers]
  /\ members' = Seen(r)
  /\ history' = [u \in Users |->
       IF req[r].kind = "remove" /\ u \in Logged(req[r].who)
         THEN history[u] + 1 ELSE history[u]]
  /\ Answer(r)
  /\ UNCHANGED joined

-----------------------------------------------------------------------------
(* POST /group-memberships/bulk-add/.                                      *)

ValidateBulk(r, us) ==
  /\ "bulk" \in traffic.kinds
  /\ group.state = "alive"
  /\ us # {} /\ CanJoin(us)
  /\ Begin(r, [Idle EXCEPT !.kind = "bulk", !.pc = "begun", !.who = us])
  /\ UNCHANGED <<group, members, joined, history>>

\* SELECT FOR UPDATE waits for another bulk add, not for an open removal, which
\* has yet to lock the group.
LockGroup(r) ==
  /\ req[r].kind = "bulk" /\ req[r].pc = "begun"
  /\ \/ /\ group.state = "alive" /\ ~GroupLocked
        /\ req' = [req EXCEPT ![r].pc = "locked", ![r].row = group]
     \/ /\ group.state # "alive"            \* DoesNotExist
        /\ Answer(r)
  /\ UNCHANGED <<group, members, joined, history>>

\* The rest of the transaction.  While the group is locked no INSERT or DELETE
\* of a membership row commits, so its statements see one state.
AddAll(r) ==
  LET new  == req[r].who \ members
      seats == Cardinality(new \cap Students)
  IN
  /\ req[r].pc = "locked"
  /\ Answer(r)
  /\ \/ /\ seats > 0 /\ req[r].row.students + seats > req[r].row.max   \* 400
        /\ UNCHANGED <<group, members, joined>>
     \/ /\ seats = 0 \/ req[r].row.students + seats <= req[r].row.max
        /\ Join(new)
        /\ group' = IF new = {} THEN group
                    ELSE BulkCounted(group, members, members \cup new)
  /\ UNCHANGED history

-----------------------------------------------------------------------------
(* PUT, PATCH and DELETE /groups/{id}/.                                    *)

LoadGroup(r) ==
  /\ "patch" \in traffic.kinds
  /\ group.state = "alive"
  /\ Begin(r, [Idle EXCEPT !.kind = "patch", !.pc = "begun", !.row = group])
  /\ UNCHANGED <<group, members, joined, history>>

\* instance.save() writes every column from the copy: the counters and
\* deleted_at as they were when it was loaded.
SaveGroup(r, limit) ==
  /\ req[r].kind = "patch" /\ req[r].pc = "begun"
  /\ ~GroupLocked
  /\ group' = [req[r].row EXCEPT !.max = limit]
  /\ Answer(r)
  /\ UNCHANGED <<members, joined, history>>

\* soft_delete() writes only deleted_at.
DeleteGroup ==
  /\ "delete" \in traffic.kinds
  /\ group.state = "alive" /\ ~GroupLocked
  /\ Clear("delete")
  /\ group' = [group EXCEPT !.state = "deleted"]
  /\ UNCHANGED <<members, joined, history, req>>

-----------------------------------------------------------------------------

\* The worker is killed, or a statement fails: a transaction is undone, what
\* was committed stays.  (The signal swallows its own exceptions, which leaves
\* the counters unsaved, or a removal undone, in the same way.)
Abort(r) ==
  /\ traffic.aborts
  /\ req[r].pc # "idle"
  /\ Answer(r)
  /\ UNCHANGED <<group, members, joined, history>>

Step ==
  \/ \E limit \in traffic.limits, ts \in SUBSET Teachers : CreateGroup(limit, ts)
  \/ DeleteGroup
  \/ \E r \in Requests :
       \/ \E u \in Users : ValidateAdd(r, u) \/ LoadMember(r, u)
       \/ InsertMember(r)
       \/ DeleteMember(r) \/ CountStudents(r) \/ CountTeachers(r) \/ SaveCounts(r)
       \/ \E us \in SUBSET Users : ValidateBulk(r, us)
       \/ LockGroup(r) \/ AddAll(r)
       \/ LoadGroup(r)
       \/ \E limit \in traffic.limits \cup {req[r].row.max} : SaveGroup(r, limit)
       \/ Abort(r)

Next == Step /\ UNCHANGED traffic

Spec == Init /\ [][Next]_vars

-----------------------------------------------------------------------------
(* Properties.                                                             *)

Enrolled == Cardinality(members \cap Students)

\* The rows and the requests have their types, and the cached counters never
\* exceed the students and teachers there are: what the PositiveIntegerFields
\* of Group (models.py) hold is always the result of some COUNT.
TypeOK ==
  /\ group \in GroupRow
  /\ members \subseteq Users
  /\ joined \in [Users -> Nat]
  /\ history \in [Users -> Nat]
  /\ req \in [Requests -> Request]
  /\ traffic \in Traffic

\* Single adds, removals and PATCHes overlap with no request, and no add is cut
\* between its INSERT and its counting.  Bulk adds may overlap and fail, and the
\* group may be deleted in between.
Exclusive ==
  /\ traffic.kinds \cap {"add", "remove", "patch"} \subseteq traffic.alone
  /\ traffic.aborts => "add" \notin traffic.kinds

\* Bulk adds that overlap and fail, between other changes made one at a time,
\* leave counters that are the number of membership rows: what the signal
\* (signals.py), the bulk add and the creation of a group keep up to date
\* together, and the capacity check relies on.
CountsExact == Exclusive /\ InFlight = {} => group = WithCounts(group, members)

\* However bulk adds overlap, fail and are killed between single adds and
\* removals, the group never holds more than max_students
\* (select_for_update in BulkGroupMembershipSerializer.create).
NoOverfill ==
  Exclusive /\ "patch" \notin traffic.kinds => Enrolled <= group.max

RemovalsAlone == "remove" \in traffic.kinds => "remove" \in traffic.alone

\* Where removals overlap with nothing, each leaves exactly one entry in
\* GroupMembershipHistory, killed ones included: a user has one entry per
\* membership row that is gone (utils.py: record_membership_removal_and_delete).
OneEntryPerRemoval == RemovalsAlone =>
  \A u \in Users : history[u] + (IF u \in members THEN 1 ELSE 0) = joined[u]

\* Whatever the interleaving, no membership row disappears without an entry.
NoSilentRemoval ==
  \A u \in Users : history[u] + (IF u \in members THEN 1 ELSE 0) >= joined[u]

\* The log accounts for every row that is gone (utils.py
\* remove_user_from_group_with_history: the entry is written with the removal):
\* none vanishes without an entry, and no removal is logged twice where removals
\* overlap with nothing.
RemovalsLogged == NoSilentRemoval /\ OneEntryPerRemoval

\* A step that enrols students leaves the group within max_students, whatever an
\* earlier PATCH made of the limit (the checks of the single and the bulk add).
EnrolWithinLimit ==
  [][Exclusive /\ Enrolled' > Enrolled => Enrolled' <= group'.max]_vars
=============================================================================
