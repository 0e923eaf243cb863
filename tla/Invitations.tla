---------------------------- MODULE Invitations ----------------------------
(***************************************************************************)
(* Invitation codes of one center and the accounts they lead to: the       *)
(* tables `centers_invitation` and `users`.                                *)
(*                                                                         *)
(* A center admin issues codes; a person registers with one and waits for  *)
(* approval; an admin approves the code, and may later upgrade a guest.    *)
(* Requests interleave statement by statement under READ COMMITTED.        *)
(* Registering, approving and upgrading are transactions; what they write  *)
(* appears when they commit, and four row locks order them:                *)
(*   - the invitation, FOR UPDATE (register, approve) or by an UPDATE      *)
(*     (upgrade);                                                          *)
(*   - the user, FOR UPDATE (approve, upgrade);                            *)
(*   - the center, FOR UPDATE: approve joins it into its locking SELECT;   *)
(*   - the center, FOR KEY SHARE: the COMMIT of an INSERT that refers to   *)
(*     it, which is when its deferred foreign key is checked.              *)
(* Nothing waits for a transaction that only commits, so the last kind is  *)
(* a guard of its final step here and not part of the state.               *)
(***************************************************************************)
EXTENDS FiniteSets

CONSTANTS
  Codes,     \* invitation codes (bounds the invitations there can be)
  People,    \* e-mail addresses people register with
  Requests,  \* web requests being served at the same time
  Aborts,    \* may workers be killed and statements fail?
  NoOne, NoCode

ASSUME NamesAssumption == NoOne \notin People /\ NoCode \notin Codes
ASSUME FlagAssumption == Aborts \in BOOLEAN

VARIABLES
  inv,       \* inv[c]: the committed invitation with code c
  user,      \* user[p]: the committed account of p
  expired,   \* the codes whose expires_at has passed
  req        \* req[r]: what request r is doing

vars == <<inv, user, expired, req>>

-----------------------------------------------------------------------------
(* Data.                                                                   *)

\* REJECTED is a choice of the column no code assigns.
Invitation ==
  [status : {"NONE", "PENDING", "APPROVED", "EXPIRED"},
   role   : {"TEACHER", "STUDENT"},
   guest  : BOOLEAN,
   target : People \cup {NoOne}]
NoInvitation ==
  [status |-> "NONE", role |-> "STUDENT", guest |-> FALSE, target |-> NoOne]

User ==
  [role : {"NONE", "TEACHER", "STUDENT", "GUEST"}, approved : BOOLEAN]
NoUser == [role |-> "NONE", approved |-> FALSE]

Request ==
  [pc   : {"idle",
           "registering", "claiming",
           "approving", "joining", "checked", "admitting",
           "upgrading", "guestHeld", "oldRead", "oldWritten",
           "editing"},
   code : Codes \cup {NoCode},
   who  : People \cup {NoOne},
   inv  : Invitation,          \* its Invitation instance
   user : User]                \* its User instance
Idle ==
  [pc |-> "idle", code |-> NoCode, who |-> NoOne, inv |-> NoInvitation,
   user |-> NoUser]

\* Invitations registration and approval accept, as far as time is concerned.
Live(c) == c \notin expired

-----------------------------------------------------------------------------
(* Locks, read off what their holders are doing.                           *)

HoldsCode(r, c) ==
  req[r].code = c /\
  req[r].pc \in {"claiming", "joining", "checked", "admitting", "oldWritten"}
HoldsUser(r, p) ==
  req[r].who = p /\
  req[r].pc \in {"admitting", "guestHeld", "oldRead", "oldWritten"}
HoldsCenter(r) == req[r].pc \in {"checked", "admitting"}

CodeFree(r, c) == \A s \in Requests \ {r} : ~HoldsCode(s, c)
UserFree(r, p) == \A s \in Requests \ {r} : ~HoldsUser(s, p)
CenterFree(r)  == \A s \in Requests \ {r} : ~HoldsCenter(s)

\* Request r cannot go on before request s ends its transaction.
Waits(r, s) ==
  /\ r # s
  /\ \/ req[r].pc \in {"registering", "approving"} /\ HoldsCode(s, req[r].code)
     \/ req[r].pc = "oldRead" /\ req[r].code # NoCode /\ HoldsCode(s, req[r].code)
     \/ req[r].pc \in {"claiming", "joining", "oldWritten"} /\ HoldsCenter(s)
     \/ req[r].pc = "checked" /\ HoldsUser(s, req[r].inv.target)
     \/ req[r].pc \in {"upgrading", "editing"} /\ HoldsUser(s, req[r].who)

-----------------------------------------------------------------------------
Init ==
  /\ inv = [c \in Codes |-> NoInvitation]
  /\ user = [p \in People |-> NoUser]
  /\ expired = {}
  /\ req = [r \in Requests |-> Idle]

Finish(r) == req' = [req EXCEPT ![r] = Idle]

Refuse(r) == Finish(r) /\ UNCHANGED <<inv, user, expired>>

\* A step that changes the request only.
Proceed(r, next) ==
  /\ req' = [req EXCEPT ![r] = next]
  /\ UNCHANGED <<inv, user, expired>>

-----------------------------------------------------------------------------
(* An admin issues codes (POST invitations/); a guest's code runs out.     *)

\* InvitationCreateSerializer: the role GUEST cannot be asked for, and only
\* students are invited as guests.
Issue(c, role, guest) ==
  /\ \A s \in Requests : ~HoldsCenter(s)
  /\ inv[c] = NoInvitation
  /\ guest => role = "STUDENT"
  /\ inv' = [inv EXCEPT ![c] = [status |-> "PENDING", role |-> role,
                                guest |-> guest, target |-> NoOne]]
  /\ UNCHANGED <<user, expired, req>>

\* 24 hours after it was issued.
RunsOut(c) ==
  /\ inv[c].guest
  /\ Live(c)
  /\ expired' = expired \cup {c}
  /\ UNCHANGED <<inv, user, req>>

-----------------------------------------------------------------------------
(* POST register/                                                          *)

\* RegisterSerializer.validate; a request it refuses changes nothing.
ValidateRegister(r, c, p) ==
  /\ req[r].pc = "idle"
  /\ inv[c].status = "PENDING" /\ inv[c].target = NoOne /\ Live(c)
  /\ user[p] = NoUser
  /\ Proceed(r, [Idle EXCEPT !.pc = "registering", !.code = c, !.who = p])

\* What RegisterSerializer.create checks again under the lock.
ClaimableUnchecked(i) == TRUE        \* fault: trusts the check before the lock
Claimable(i) == i.target = NoOne

LockCode(r) ==
  LET i == inv[req[r].code] IN
    /\ req[r].pc = "registering"
    /\ CodeFree(r, req[r].code)
    /\ IF Claimable(i)
         THEN Proceed(r, [req[r] EXCEPT !.pc = "claiming", !.inv = i])
         ELSE Refuse(r)

\* create_user, invitation.save(update_fields=["target_user_id"]), COMMIT.
\* An e-mail taken meanwhile is an IntegrityError.
CreateUser(r) ==
  LET c == req[r].code
      p == req[r].who IN
    /\ req[r].pc = "claiming"
    /\ CenterFree(r)
    /\ IF user[p] = NoUser
         THEN /\ user' = [user EXCEPT ![p] = [role |-> req[r].inv.role,
                                              approved |-> FALSE]]
              /\ inv' = [inv EXCEPT ![c].target = p]
              /\ Finish(r)
              /\ UNCHANGED expired
         ELSE Refuse(r)

-----------------------------------------------------------------------------
(* POST invitations/approve/                                               *)

\* InvitationApproveSerializer.validate.
ValidateApprove(r, c) ==
  /\ req[r].pc = "idle"
  /\ inv[c].status = "PENDING" /\ Live(c)
  /\ Proceed(r, [Idle EXCEPT !.pc = "approving", !.code = c])

\* approve_invitation's SELECT ... FOR UPDATE locks the invitation ...
JoinCode(r) ==
  /\ req[r].pc = "approving"
  /\ CodeFree(r, req[r].code)
  /\ Proceed(r, [req[r] EXCEPT !.pc = "joining"])

\* ... then the center it is joined with, and returns the row as it is now.
ApprovableOnceValidated(c) == TRUE    \* fault: no second look under the lock
Approvable(c) == inv[c].status = "PENDING" /\ Live(c)

JoinCenter(r) ==
  LET c == req[r].code IN
    /\ req[r].pc = "joining"
    /\ CenterFree(r)
    /\ IF Approvable(c) /\ inv[c].target # NoOne
         THEN Proceed(r, [req[r] EXCEPT !.pc = "checked", !.inv = inv[c]])
         ELSE Refuse(r)

LockTarget(r) ==
  LET p == req[r].inv.target IN
    /\ req[r].pc = "checked"
    /\ UserFree(r, p)
    /\ Proceed(r, [req[r] EXCEPT !.pc = "admitting", !.who = p, !.user = user[p]])

\* The role the account gets: a guest invitation carries the role STUDENT.
RoleGiven(i, u) ==
  IF i.role = "STUDENT" /\ u.role = "GUEST" THEN "STUDENT"
  ELSE IF i.guest THEN "GUEST" ELSE i.role

Admit(r) ==
  /\ req[r].pc = "admitting"
  /\ user' = [user EXCEPT ![req[r].who] =
                [role |-> RoleGiven(req[r].inv, req[r].user), approved |-> TRUE]]
  /\ inv' = [inv EXCEPT ![req[r].code].status = "APPROVED"]
  /\ Finish(r)
  /\ UNCHANGED <<expired>>

-----------------------------------------------------------------------------
(* POST guests/upgrade/                                                    *)

\* GuestUpgradeSerializer.validate_user_id.
ValidateUpgrade(r, p) ==
  /\ req[r].pc = "idle"
  /\ user[p].role = "GUEST"
  /\ Proceed(r, [Idle EXCEPT !.pc = "upgrading", !.who = p])

LockGuest(r) ==
  /\ req[r].pc = "upgrading"
  /\ UserFree(r, req[r].who)
  /\ Proceed(r, [req[r] EXCEPT !.pc = "guestHeld", !.user = user[req[r].who]])

\* The guest's invitation is read without a lock.
Targeting(p) == {c \in Codes : inv[c].target = p}

ReadOld(r) ==
  /\ req[r].pc = "guestHeld"
  /\ IF Targeting(req[r].who) = {}
       THEN Proceed(r, [req[r] EXCEPT !.pc = "oldRead"])
       ELSE \E c \in Targeting(req[r].who) :
              Proceed(r, [req[r] EXCEPT !.pc = "oldRead", !.code = c,
                                        !.inv = inv[c]])

\* existing_inv.save(): every column, from the instance read before.
GivenUpPending(i) ==                   \* fault: a guest's code stays usable
  [i EXCEPT !.target = NoOne, !.status = IF i.guest THEN "PENDING" ELSE i.status]
GivenUp(i) ==
  [i EXCEPT !.target = NoOne, !.status = IF i.guest THEN "EXPIRED" ELSE i.status]

WriteOld(r) ==
  /\ req[r].pc = "oldRead"
  /\ req[r].code # NoCode => CodeFree(r, req[r].code)
  /\ Proceed(r, [req[r] EXCEPT !.pc = "oldWritten"])

\* The new invitation, the whole row of the guest, COMMIT.
NewInvitation(p) ==
  [status |-> "APPROVED", role |-> "STUDENT", guest |-> FALSE, target |-> p]

Upgrade(r, d) ==
  LET c == req[r].code
      p == req[r].who IN
    /\ req[r].pc = "oldWritten"
    /\ CenterFree(r)
    /\ inv[d] = NoInvitation
    /\ inv' = [e \in Codes |-> IF e = d THEN NewInvitation(p)
                               ELSE IF e = c THEN GivenUp(req[r].inv)
                               ELSE inv[e]]
    /\ user' = [user EXCEPT ![p] = [role |-> "STUDENT", approved |-> TRUE]]
    /\ Finish(r)
    /\ UNCHANGED <<expired>>

-----------------------------------------------------------------------------
(* PATCH me/: the profile columns are abstracted, the row is written whole. *)

\* Only approved accounts can log in.
LoadProfile(r, p) ==
  /\ req[r].pc = "idle"
  /\ user[p].approved
  /\ Proceed(r, [Idle EXCEPT !.pc = "editing", !.who = p,
                                     !.user = user[p]])

SaveProfile(r) ==
  /\ req[r].pc = "editing"
  /\ UserFree(r, req[r].who)
  /\ user' = [user EXCEPT ![req[r].who] = req[r].user]
  /\ Finish(r)
  /\ UNCHANGED <<inv, expired>>

-----------------------------------------------------------------------------
\* A killed worker, a lost connection, a failed statement, or an admin of
\* another center refused after the locks were taken: ROLLBACK.
Abort(r) ==
  /\ Aborts
  /\ req[r].pc # "idle"
  /\ Finish(r)
  /\ UNCHANGED <<inv, user, expired>>

RequestStep(r) ==
  \/ \E c \in Codes, p \in People : ValidateRegister(r, c, p)
  \/ LockCode(r) \/ CreateUser(r)
  \/ \E c \in Codes : ValidateApprove(r, c)
  \/ JoinCode(r) \/ JoinCenter(r) \/ LockTarget(r) \/ Admit(r)
  \/ \E p \in People : ValidateUpgrade(r, p)
  \/ LockGuest(r) \/ ReadOld(r) \/ WriteOld(r)
  \/ \E d \in Codes : Upgrade(r, d)
  \/ \E p \in People : LoadProfile(r, p)
  \/ SaveProfile(r)
  \/ Abort(r)

Next ==
  \/ \E r \in Requests : RequestStep(r)
  \/ \E c \in Codes, role \in {"TEACHER", "STUDENT"}, guest \in BOOLEAN :
       Issue(c, role, guest)
  \/ \E c \in Codes : RunsOut(c)

Spec == Init /\ [][Next]_vars

-----------------------------------------------------------------------------
(* Properties.                                                             *)

\* Rows, copies and answers have their types.
TypeOK ==
  /\ inv \in [Codes -> Invitation]
  /\ user \in [People -> User]
  /\ expired \subseteq Codes
  /\ req \in [Requests -> Request]

\* Everyone who registered holds one code, from registration on, and is an
\* approved user exactly when that code is APPROVED; nobody else holds any.
\* Registration, approval and the swap of codes in an upgrade keep `users` and
\* `centers_invitation` in step, whatever runs at once and is aborted.
OneCodeEach ==
  \A p \in People :
    IF user[p] = NoUser
      THEN \A c \in Codes : inv[c].target # p
      ELSE \E c \in Codes : /\ \A d \in Codes : inv[d].target = p <=> d = c
                            /\ user[p].approved <=> inv[c].status = "APPROVED"

\* The locks never close a circle, although approve takes invitation, center,
\* user and upgrade takes user, invitation, center: no set of requests waits
\* only for each other (approve_invitation, GuestUpgradeSerializer.save).
NoDeadlock ==
  \A S \in (SUBSET Requests) \ {{}} : \E r \in S : \A s \in S : ~Waits(r, s)

\* An approved student goes back to being a guest only by a profile edit that
\* read the account while it was a guest's: the upgrade itself is final.
OnlyStaleProfilesDemote ==
  [][\A p \in People :
       user[p].role = "STUDENT" /\ user[p].approved /\ user'[p] # user[p]
       => \E r \in Requests : /\ req[r].pc = "editing" /\ req[r].who = p
                              /\ req[r].user.role = "GUEST"]_vars

\* "Same code cannot be reused once claimed" (authentication/swagger.py:81):
\* whoever comes to hold an issued code gets it while it is open.
OneClaimPerCode ==
  [][\A c \in Codes, p \in People :
       inv[c] # NoInvitation /\ inv[c].target # p /\ inv'[c].target = p
       => inv[c].target = NoOne /\ inv[c].status = "PENDING"]_vars

\* A code, seen through its row.
Phase(i) ==
  CASE i = NoInvitation                            -> "absent"
    [] i.status = "PENDING" /\ i.target = NoOne    -> "open"
    [] i.status = "PENDING" /\ i.target # NoOne    -> "claimed"
    [] i.status = "APPROVED" /\ i.target # NoOne   -> "used"
    [] i.status = "EXPIRED" /\ i.target # NoOne    -> "void"
    [] OTHER                                       -> "spent"

phases  == [c \in Codes |-> Phase(inv[c])]
holders == [c \in Codes |-> inv[c].target]

Voucher == INSTANCE InvitationVoucher WITH phase <- phases, holder <- holders

\* Every interleaving of the requests keeps the promise of a voucher.
VoucherKept == Voucher!Spec
=============================================================================
