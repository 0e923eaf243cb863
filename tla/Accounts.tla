------------------------------ MODULE Accounts ------------------------------
(***************************************************************************)
(* Accounts after they exist: logins, profiles, passwords and reset links, *)
(* and the owner's hold over the center admins.                            *)
(*                                                                         *)
(* Every request loads the account and saves it later.  Passwords and      *)
(* deletions are saved alone (update_fields); a profile and the owner's    *)
(* PATCH write back every column as it was when they loaded it, the        *)
(* password hash, is_active, is_approved and deleted_at included.          *)
(*                                                                         *)
(* One row per e-mail address: the column is unique, for deleted accounts  *)
(* too.  A password stands for the number of the set_password call that    *)
(* made its hash (every call salts anew).  How codes and approvals decide  *)
(* who gets which role is the module Invitations.                          *)
(***************************************************************************)
EXTENDS Integers

CONSTANTS
  Admins,    \* the addresses of center admins
  Members,   \* the addresses of teachers and students
  Links,     \* password reset mails
  Requests,  \* requests being served at the same time
  None,      \* no account, no link
  MaxSets,   \* bound on the set_password calls
  Traffic    \* the kinds of load the module is checked under

Users     == Admins \cup Members
WholeRow  == {"profile", "admin"}
Ops       == WholeRow \cup {"delete", "change", "confirm", "create"}
Decisions == {"active", "approved"}   \* is_active and is_approved

ASSUME AccountsAssumption ==
  /\ Admins \cap Members = {}
  /\ MaxSets \in Nat
ASSUME TrafficAssumption == Traffic \subseteq [ops : SUBSET Ops, alone : SUBSET Ops]

VARIABLES
  row,      \* row[u]: the account stored under address u, or None
  session,  \* session[u]: u holds an access token that has not run out
  open,     \* the center's status is ACTIVE
  link,     \* link[l]: what reset mail l was made for, or None
  sets,     \* set_password calls so far
  job,      \* job[q]: what request q is doing, with the copy it loaded
  traffic   \* the load of this behaviour, chosen at the start

vars == <<row, session, open, link, sets, job, traffic>>

-----------------------------------------------------------------------------
(* Data.                                                                   *)

Passwords == 0..MaxSets
Account == [password : Passwords, active : BOOLEAN, approved : BOOLEAN, alive : BOOLEAN]
Link    == [who : Users, password : Passwords, used : BOOLEAN]
Job     == [op : Ops, who : Users, copy : Account \cup {None},
            link : Links \cup {None}, sent : SUBSET Decisions]
Idle    == [op |-> "idle"]

ASSUME NoneAssumption == None \notin Account \cup Link

\* User.objects leaves the soft-deleted accounts out.
Alive(u) == row[u] # None /\ row[u].alive

\* TenantAwareJWTAuthentication: the account of the token, looked up anew.
Serves(u) == session[u] /\ Alive(u) /\ row[u].active

\* The token is a hash of the password it was mailed for, among others.
LinkFitsAnyPassword(l) ==   \* fault: the token is checked for its age only
  Alive(link[l].who) /\ row[link[l].who].active

LinkFits(l) ==
  /\ Alive(link[l].who) /\ row[link[l].who].active
  /\ row[link[l].who].password = link[l].password

\* What a member is created as: by a center admin, or by registering.
Created(u) ==
  IF u \in Admins THEN {[active |-> TRUE, approved |-> TRUE]}
  ELSE {[active |-> b, approved |-> TRUE] : b \in BOOLEAN}
       \cup {[active |-> TRUE, approved |-> FALSE]}

\* A load bound: operations that do not overlap with one another.
Admitted(op) ==
  /\ op \in traffic.ops
  /\ op \in traffic.alone =>
       \A q \in Requests : job[q] # Idle => job[q].op \notin traffic.alone

-----------------------------------------------------------------------------
(* A request loads an account ...                                          *)

Begin(q, op, u, l, sent) ==
  /\ job[q] = Idle /\ Admitted(op)
  /\ job' = [job EXCEPT ![q] =
       [op |-> op, who |-> u, copy |-> row[u], link |-> l, sent |-> sent]]
  /\ UNCHANGED <<row, session, open, link, sets, traffic>>

LoadProfile(q, u) == Serves(u) /\ Begin(q, "profile", u, None, {})

\* The owner's PATCH, with the fields it carries.
LoadAdmin(q, u, sent) == Alive(u) /\ Begin(q, "admin", u, None, sent)

LoadDelete(q, u) == Alive(u) /\ Begin(q, "delete", u, None, {})

\* The old password is compared with the one of the copy.
LoadChange(q, u) == Serves(u) /\ Begin(q, "change", u, None, {})

LoadConfirm(q, l) ==
  /\ link[l] # None /\ LinkFits(l)
  /\ Begin(q, "confirm", link[l].who, l, {})

\* validate_email asks for living accounts only.
ValidateCreate(q, u) == ~Alive(u) /\ Begin(q, "create", u, None, {})

-----------------------------------------------------------------------------
(* ... and saves it.                                                       *)

Done(q, op) == job[q].op = op /\ job' = [job EXCEPT ![q] = Idle]

SaveRow(q, account) ==
  /\ row' = [row EXCEPT ![job[q].who] = account]
  /\ UNCHANGED <<session, open, traffic>>

SaveProfile(q) ==
  /\ Done(q, "profile") /\ SaveRow(q, job[q].copy) /\ UNCHANGED <<link, sets>>

SaveAdmin(q, decided) ==
  /\ Done(q, "admin")
  /\ \A f \in Decisions \ job[q].sent : decided[f] = job[q].copy[f]
  /\ SaveRow(q, [job[q].copy EXCEPT !.active = decided.active, !.approved = decided.approved])
  /\ UNCHANGED <<link, sets>>

\* soft_delete: save(update_fields=["deleted_at"]).
SaveDelete(q) ==
  /\ Done(q, "delete")
  /\ SaveRow(q, [row[job[q].who] EXCEPT !.alive = FALSE]) /\ UNCHANGED <<link, sets>>

WithPasswordWholeRow(q) ==   \* fault: save() without update_fields
  [job[q].copy EXCEPT !.password = sets + 1]

\* set_password, save(update_fields=["password"]).
WithPassword(q) == [row[job[q].who] EXCEPT !.password = sets + 1]

SavePassword(q) ==
  /\ sets < MaxSets /\ sets' = sets + 1
  /\ SaveRow(q, WithPassword(q))

SaveChange(q) == Done(q, "change") /\ SavePassword(q) /\ UNCHANGED link

SaveConfirm(q) ==
  /\ Done(q, "confirm") /\ SavePassword(q)
  /\ link' = [link EXCEPT ![job[q].link].used = TRUE]

NewAccountUnset(flags) ==   \* fault: the password is left out of create_user
  [password |-> None, active |-> flags.active, approved |-> flags.approved, alive |-> TRUE]

NewAccount(flags) ==
  [password |-> sets + 1, active |-> flags.active, approved |-> flags.approved, alive |-> TRUE]

\* The INSERT, which fails for an address that any account has.
Insert(q, flags) ==
  /\ Done(q, "create") /\ flags \in Created(job[q].who)
  /\ row[job[q].who] = None
  /\ sets < MaxSets /\ sets' = sets + 1
  /\ SaveRow(q, NewAccount(flags)) /\ UNCHANGED link

\* A request that fails after it loaded: an invalid field, a taken address
\* (IntegrityError), a killed worker.
Fail(q) ==
  /\ job[q] # Idle /\ job' = [job EXCEPT ![q] = Idle]
  /\ UNCHANGED <<row, session, open, link, sets, traffic>>

-----------------------------------------------------------------------------
(* What takes one statement.                                               *)

\* TenantAwareBackend, given the right password.
Authenticates(u) == Alive(u) /\ row[u].active

Login(u) ==
  /\ Authenticates(u) /\ row[u].approved /\ open
  /\ session' = [session EXCEPT ![u] = TRUE]
  /\ UNCHANGED <<row, open, link, sets, job, traffic>>

\* The access token runs out; there is no endpoint to renew it.
SessionEnds(u) ==
  /\ session' = [session EXCEPT ![u] = FALSE]
  /\ UNCHANGED <<row, open, link, sets, job, traffic>>

\* PasswordResetRequestSerializer mails a link to an active account.
RequestReset(l, u) ==
  /\ link[l] = None /\ Alive(u) /\ row[u].active
  /\ link' = [link EXCEPT ![l] = [who |-> u, password |-> row[u].password, used |-> FALSE]]
  /\ UNCHANGED <<row, session, open, sets, job, traffic>>

\* approve_invitation, with the account locked, saves is_approved alone.
Approve(u) ==
  /\ Alive(u)
  /\ row' = [row EXCEPT ![u].approved = TRUE]
  /\ UNCHANGED <<session, open, link, sets, job, traffic>>

\* The owner suspends or activates the center.
ToggleCenter ==
  /\ open' = ~open
  /\ UNCHANGED <<row, session, link, sets, job, traffic>>

-----------------------------------------------------------------------------
Init ==
  /\ row = [u \in Users |-> IF u \in Admins
       THEN [password |-> 0, active |-> TRUE, approved |-> TRUE, alive |-> TRUE] ELSE None]
  /\ session = [u \in Users |-> FALSE] /\ open = TRUE
  /\ link = [l \in Links |-> None] /\ sets = 0
  /\ job = [q \in Requests |-> Idle]
  /\ traffic \in Traffic

LoadStep(q) ==
  \/ \E u \in Users : LoadProfile(q, u) \/ LoadChange(q, u) \/ ValidateCreate(q, u)
  \/ \E u \in Admins : LoadDelete(q, u) \/ \E sent \in SUBSET Decisions : LoadAdmin(q, u, sent)
  \/ \E l \in Links : LoadConfirm(q, l)

SaveStep(q) ==
  \/ SaveProfile(q) \/ SaveDelete(q) \/ SaveChange(q) \/ SaveConfirm(q) \/ Fail(q)
  \/ \E flags \in [Decisions -> BOOLEAN] : SaveAdmin(q, flags) \/ Insert(q, flags)

WorldStep ==
  \/ \E u \in Users : Login(u) \/ SessionEnds(u)
  \/ \E u \in Users, l \in Links : RequestReset(l, u)
  \/ \E u \in Members : Approve(u)
  \/ ToggleCenter

Next == (\E q \in Requests : LoadStep(q) \/ SaveStep(q)) \/ WorldStep

Spec == Init /\ [][Next]_vars

-----------------------------------------------------------------------------
(* Properties.                                                             *)

\* Accounts, links and the copies requests hold have the types of models.py.
TypeOK ==
  /\ row \in [Users -> Account \cup {None}]
  /\ session \in [Users -> BOOLEAN] /\ open \in BOOLEAN
  /\ link \in [Links -> Link \cup {None}]
  /\ sets \in 0..MaxSets
  /\ job \in [Requests -> Job \cup {Idle}]
  /\ traffic \in Traffic

Ends(q, ops) == job[q] # Idle /\ job[q].op \in ops /\ job'[q] = Idle

Setters == WholeRow \cup {"change", "confirm"}   \* what writes a password

Confirms(q) == Ends(q, {"confirm"}) /\ sets' # sets

FirstUse(l) == ~link[l].used /\ row[link[l].who].password = link[l].password

\* A reset link sets a password once, and only over the password it was mailed
\* for, as long as what writes passwords does not overlap.  (swagger.py: "Token
\* is one-time use (becomes invalid after password change)".)
LinksWorkOnce ==
  [][Setters \subseteq traffic.alone =>
       \A q \in Requests : Confirms(q) => FirstUse(job[q].link)]_vars

\* Without the condition on the load.  The code does not keep it: two requests
\* check the link before either has saved.
LinksWorkOnceAlways ==
  [][\A q \in Requests : Confirms(q) => FirstUse(job[q].link)]_vars

\* The owner sends the field, or an invitation is approved.
Decided(u, f) ==
  \/ \E q \in Requests : Ends(q, {"admin"}) /\ job[q].who = u /\ f \in job[q].sent
  \/ u \in Members /\ f = "approved" /\ row'[u].approved

\* An older password is back, or a deleted account is, or a column nobody
\* decided on has changed.
Undone(u) ==
  /\ row[u] # None
  /\ \/ row'[u].password < row[u].password
     \/ row'[u].alive /\ ~row[u].alive
     \/ \E f \in Decisions : row'[u][f] # row[u][f] /\ ~Decided(u, f)

\* No password, deletion, deactivation or approval is ever undone by a request
\* that changes a password or deletes an account, nor by one that loaded the
\* account after it: only by the whole-row save of a copy from before.
\* (MeView.update and OwnerCenterAdminViewSet call save() without update_fields.)
OnlyStaleSavesUndo ==
  [][\A u \in Users : Undone(u) =>
       \E q \in Requests : Ends(q, WholeRow) /\ job[q].who = u /\ job[q].copy # row[u]]_vars
=============================================================================
