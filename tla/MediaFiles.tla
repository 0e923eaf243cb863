----------------------------- MODULE MediaFiles -----------------------------
(***************************************************************************)
(* Files in the object storage and the rows that name them: avatars of     *)
(* users, avatars of centers, and the materials and question media of the  *)
(* tenants.                                                                *)
(*                                                                         *)
(* Storing a file and writing its name into a row are two steps, and so is *)
(* deleting the file that was there before.  A new file gets a name that   *)
(* is free at the moment (file_overwrite = False): the name of a deleted   *)
(* file may come back.  User.save deletes the old avatar at once, before   *)
(* the UPDATE; Center.save does it once the UPDATE is committed; the       *)
(* tenant's files are never deleted, only their rows are, softly.          *)
(***************************************************************************)
EXTENDS Integers, Sequences, FiniteSets

CONSTANTS
  Users,      \* user rows
  Centers,    \* center rows
  Materials,  \* ids of materials and questions, later ones included
  Names,      \* file names
  FirstFile,  \* FirstFile[r]: the file row r names at the start
  Requests,   \* requests and tasks being served at the same time
  None,       \* NULL, and no file
  MaxFaults,  \* bound on the requests that fail or are killed half way
  Traffic     \* the kinds of load the module is checked under

Folders == {"avatars", "center_avatars", "tenants"}
Rows    == Users \cup Centers \cup Materials
Ops     == {"upload", "replace", "profile", "touch", "dismiss", "create", "clone", "purge"}

FolderOf(r) ==
  IF r \in Users THEN "avatars" ELSE IF r \in Centers THEN "center_avatars" ELSE "tenants"

ASSUME RowsAssumption ==
  /\ Users \cap Centers = {} /\ Users \cap Materials = {} /\ Centers \cap Materials = {}
  /\ FirstFile \in [Users \cup Centers -> Names \cup {None}]
  /\ \A r, s \in Users \cup Centers :   \* stored under names that were free
       FirstFile[r] = FirstFile[s] /\ FirstFile[r] # None /\ (r \in Users <=> s \in Users) => r = s
  /\ None \notin Names \cup Rows \cup Ops
ASSUME TrafficAssumption ==
  /\ MaxFaults \in Nat
  /\ Traffic \subseteq [ops : SUBSET Ops, alone : SUBSET Folders, local : SUBSET Users,
                        faults : 0..MaxFaults]   \* local: who belongs to the centers

VARIABLES
  named,    \* named[r]: the file column of row r
  alive,    \* the rows that are stored and not soft-deleted
  storage,  \* storage[f]: the files that exist in folder f
  job,      \* job[q]: what request q is doing, with what it loaded
  doomed,   \* has the hard deletion of a center begun?
  faults,   \* failures so far
  traffic   \* the load of this behaviour, chosen at the start

vars == <<named, alive, storage, job, doomed, faults, traffic>>

-----------------------------------------------------------------------------
(* Data.                                                                   *)

\* file: the instance's file field.  later: what is deleted after the commit.
Phases == {"idle", "view", "save", "choose", "put", "write", "after", "file", "row"}
Lists == {<<>>} \cup {<<n>> : n \in Names} \cup {<<m, n>> : m, n \in Names}
Job == [phase : Phases, op : Ops \cup {None}, row : Rows \cup {None},
        file : Names \cup {None}, later : Lists]
Idle == [phase |-> "idle", op |-> None, row |-> None, file |-> None, later |-> <<>>]

\* An upload by the avatar endpoints, and a PATCH or POST that carries a file.
Carries(q) == job[q].op \in {"upload", "replace", "create"}

\* save() without update_fields writes every column back.
WholeRow(q) == job[q].op \in {"replace", "profile", "create", "clone"}

Quiet(f) ==
  \A q \in Requests :
    job[q].phase # "idle" => job[q].op # "purge" /\ FolderOf(job[q].row) # f

Admitted(op, folders) == op \in traffic.ops /\ \A f \in folders \cap traffic.alone : Quiet(f)

SomeOrNull(name) == {name}   \* fault: the empty file field is not skipped

Some(name) == {name} \ {None}

Without(f, gone) == [storage EXCEPT ![f] = @ \ gone]

-----------------------------------------------------------------------------
(* A request loads a row ...                                               *)

Begin(q, op, r, phase, file) ==
  job' = [job EXCEPT ![q] =
            [phase |-> phase, op |-> op, row |-> r, file |-> file, later |-> <<>>]]

\* The avatar endpoints; a PATCH with or without a file; a save of other columns
\* (last login, status, password), which materials do not have; the deletion of a
\* user, which is soft.
Load(q, op, r) ==
  /\ job[q].phase = "idle"
  /\ Admitted(op, {FolderOf(r)})
  /\ r \in alive
  /\ op \in {"upload", "touch"} => r \notin Materials
  /\ op = "dismiss" => r \in Users
  /\ Begin(q, op, r, IF op \in {"upload", "dismiss"} /\ r \in Users THEN "view" ELSE "save",
           named[r])
  /\ UNCHANGED <<named, alive, storage, doomed, faults, traffic>>

\* A new material, question or group.
Create(q, r) ==
  /\ job[q].phase = "idle"
  /\ Admitted("create", {"tenants"})
  /\ r \in Materials \ alive /\ named[r] = None
  /\ \A p \in Requests : job[p].row # r
  /\ Begin(q, "create", r, "save", None)
  /\ UNCHANGED <<named, alive, storage, doomed, faults, traffic>>

\* clone_mock_test: the new question names the file of the old one.
Clone(q, r, s) ==
  /\ job[q].phase = "idle"
  /\ Admitted("clone", {"tenants"})
  /\ s \in alive /\ r \in Materials \ alive /\ named[r] = None
  /\ \A p \in Requests : job[p].row # r
  /\ Begin(q, "clone", r, "write", named[s])
  /\ UNCHANGED <<named, alive, storage, doomed, faults, traffic>>

\* UserAvatarUploadView and User.soft_delete delete the file they loaded the name of.
ViewDelete(q) ==
  /\ job[q].phase = "view"
  /\ storage' = Without("avatars", Some(job[q].file))
  /\ job' = [job EXCEPT ![q].phase = "save", ![q].file = None]
  /\ UNCHANGED <<named, alive, doomed, faults, traffic>>

-----------------------------------------------------------------------------
(* ... and saves it.                                                       *)

ReplacedByView(q) ==   \* fault: deleting the old file is left to the avatar endpoints
  IF job[q].op = "upload" THEN Some(named[job[q].row]) ELSE {}

\* The stored name, when it is not the one of the instance that is saved.
Replaced(q) ==
  IF Carries(q) THEN Some(named[job[q].row]) ELSE Some(named[job[q].row]) \ {job[q].file}

ToStore(q) == IF Carries(q) THEN "choose" ELSE "write"

\* User.save deletes it at once; Center.save keeps it for later, and so does
\* CenterAvatarUploadView for the name it loaded itself; a material keeps it.
SaveUser(q) ==
  /\ job[q].row \in Users
  /\ storage' = Without("avatars", Replaced(q))
  /\ job' = [job EXCEPT ![q].phase = ToStore(q)]

SaveCenterAtOnce(q) ==   \* fault: as User.save does it
  /\ job[q].row \in Centers
  /\ storage' = Without("center_avatars", Replaced(q))
  /\ job' = [job EXCEPT ![q].phase = ToStore(q)]

SaveCenter(q) ==
  /\ job[q].row \in Centers
  /\ LET loaded == IF job[q].op = "upload" THEN Some(job[q].file) ELSE {}
         list(S) == IF S = {} THEN <<>> ELSE <<CHOOSE x \in S : TRUE>>
     IN job' = [job EXCEPT ![q].phase = ToStore(q), ![q].later = list(Replaced(q)) \o list(loaded)]
  /\ UNCHANGED storage

SaveMaterial(q) ==
  /\ job[q].row \in Materials
  /\ job' = [job EXCEPT ![q].phase = ToStore(q)]
  /\ UNCHANGED storage

ReadOld(q) ==
  /\ job[q].phase = "save"
  /\ SaveUser(q) \/ SaveCenter(q) \/ SaveMaterial(q)
  /\ UNCHANGED <<named, alive, doomed, faults, traffic>>

\* get_available_name, and then the upload.
Choose(q) ==
  /\ job[q].phase = "choose"
  /\ \E n \in Names \ storage[FolderOf(job[q].row)] :
       job' = [job EXCEPT ![q].phase = "put", ![q].file = n]
  /\ UNCHANGED <<named, alive, storage, doomed, faults, traffic>>

Put(q) ==
  /\ job[q].phase = "put"
  /\ storage' = [storage EXCEPT ![FolderOf(job[q].row)] = @ \cup {job[q].file}]
  /\ job' = [job EXCEPT ![q].phase = "write"]
  /\ UNCHANGED <<named, alive, doomed, faults, traffic>>

\* The INSERT or UPDATE commits.  A whole row also brings back deleted_at.
Write(q) ==
  /\ job[q].phase = "write"
  /\ LET r == job[q].row
     IN /\ named' = IF job[q].op \in {"touch", "dismiss"} THEN named
                   ELSE [named EXCEPT ![r] = job[q].file]
        /\ alive' = IF WholeRow(q) THEN alive \cup {r}
                   ELSE IF job[q].op = "dismiss" THEN alive \ {r} ELSE alive
  /\ job' = [job EXCEPT ![q] = IF job[q].later = <<>> THEN Idle
                               ELSE [job[q] EXCEPT !.phase = "after"]]
  /\ UNCHANGED <<storage, doomed, faults, traffic>>

\* The on_commit hooks, one after the other.
DeleteLater(q) ==
  /\ job[q].phase = "after"
  /\ storage' = Without("center_avatars", {Head(job[q].later)})
  /\ job' = [job EXCEPT ![q] = IF Len(job[q].later) = 1 THEN Idle
                               ELSE [job[q] EXCEPT !.later = Tail(job[q].later)]]
  /\ UNCHANGED <<named, alive, doomed, faults, traffic>>

-----------------------------------------------------------------------------
(* Deletion, and failures.                                                 *)

\* DELETE of a material or question is soft, and leaves its file.
Remove(r) ==
  /\ r \in Materials \cap alive
  /\ alive' = alive \ {r}
  /\ UNCHANGED <<named, storage, job, doomed, faults, traffic>>

\* hard_delete_center: the users one by one, then the center, the file first.  A
\* user who was deleted softly is stored still, and names an avatar still.
Victims ==
  LET users == {r \in traffic.local : r \in alive \/ named[r] # None}
  IN IF users # {} THEN users ELSE Centers \cap alive

Purge(q) ==
  /\ job[q].phase = "idle"
  /\ Admitted("purge", {"avatars", "center_avatars"})
  /\ \E r \in Victims : Begin(q, "purge", r, "file", named[r])
  /\ doomed' = TRUE
  /\ UNCHANGED <<named, alive, storage, faults, traffic>>

PurgeFile(q) ==
  /\ job[q].phase = "file"
  /\ storage' = Without(FolderOf(job[q].row), Some(job[q].file))
  /\ job' = [job EXCEPT ![q].phase = "row"]
  /\ UNCHANGED <<named, alive, doomed, faults, traffic>>

\* The row, and on to the next.
PurgeRow(q) ==
  /\ job[q].phase = "row"
  /\ alive' = alive \ {job[q].row}
  /\ named' = [named EXCEPT ![job[q].row] = None]
  /\ UNCHANGED <<storage, doomed, faults, traffic>>
  /\ IF job[q].row \in Centers THEN job' = [job EXCEPT ![q] = Idle]
     ELSE \E r \in Victims' : Begin(q, "purge", r, "file", named[r])

\* A request or task fails or is killed: a transaction that is open rolls back,
\* what was done to the storage stays done.
Fail(q) ==
  /\ job[q].phase # "idle"
  /\ faults < traffic.faults
  /\ faults' = faults + 1
  /\ job' = [job EXCEPT ![q] = Idle]
  /\ UNCHANGED <<named, alive, storage, doomed, traffic>>

Init ==
  /\ named = [r \in Rows |-> IF r \in Materials THEN None ELSE FirstFile[r]]
  /\ alive = Users \cup Centers
  /\ storage = [f \in Folders |->
       {FirstFile[r] : r \in {s \in Users \cup Centers : FolderOf(s) = f}} \ {None}]
  /\ job = [q \in Requests |-> Idle]
  /\ doomed = FALSE /\ faults = 0
  /\ traffic \in Traffic

RequestStep(q) ==
  \/ \E r \in Rows, op \in {"upload", "replace", "profile", "touch", "dismiss"} : Load(q, op, r)
  \/ \E r, s \in Materials : Create(q, r) \/ Clone(q, r, s)
  \/ ViewDelete(q) \/ ReadOld(q) \/ Choose(q) \/ Put(q) \/ Write(q) \/ DeleteLater(q)
  \/ Purge(q) \/ PurgeFile(q) \/ PurgeRow(q) \/ Fail(q)

Next == (\E q \in Requests : RequestStep(q)) \/ (\E r \in Materials : Remove(r))

Spec == Init /\ [][Next]_vars

-----------------------------------------------------------------------------
(* Properties.                                                             *)

TypeOK ==
  /\ named \in [Rows -> Names \cup {None}]
  /\ alive \subseteq Rows
  /\ storage \in [Folders -> SUBSET Names]
  /\ job \in [Requests -> Job]
  /\ doomed \in BOOLEAN /\ faults \in 0..MaxFaults /\ traffic \in Traffic

In(f) == {r \in alive : FolderOf(r) = f /\ named[r] # None}

Whole(f) == \A r \in In(f) : named[r] \in storage[f]

\* The file a row names exists.  For the rows of a tenant always, however their
\* requests overlap, fail and undo a deletion; for a center at every moment and
\* whatever fails, as long as its requests come one by one and nobody deletes
\* it; for a user whenever no request is on its way and none has failed, unless
\* a center is deleted that has deleted users: the names of their avatars, free
\* for others since, are deleted with it.
\* (centers/models.py Center.save defers the deletion until after the commit.)
FilesExist ==
  /\ Whole("tenants")
  /\ "center_avatars" \in traffic.alone /\ ~doomed => Whole("center_avatars")
  /\ "avatars" \in traffic.alone /\ Quiet("avatars") /\ faults = 0
       /\ (doomed => "dismiss" \notin traffic.ops) => Whole("avatars")

\* No avatar is left behind: when the requests come one by one and none fails,
\* every avatar in the storage is named by a user or center that still exists,
\* even after a center is deleted with its users.  (User.save, Center.save and
\* hard_delete_center delete the files that are replaced or no longer owned.)
NoOrphans ==
  \A f \in traffic.alone \ {"tenants"} :
    Quiet(f) /\ faults = 0 => storage[f] \subseteq {named[r] : r \in In(f)}

\* Without the conditions on the load.  The code does not keep it: a save from a
\* copy loaded earlier deletes the file of a newer upload, and the second
\* deletion of a name may hit the file of another user who was given it.
FilesExistAlways == \A f \in Folders : (\A g \in Folders : Quiet(g)) => Whole(f)
=============================================================================
