------------------------- MODULE InvitationsProofs -------------------------
(***************************************************************************)
(* Theorems about Invitations, for every number of codes, people and       *)
(* concurrent requests.                                                    *)
(***************************************************************************)
EXTENDS Invitations, TLAPS

-----------------------------------------------------------------------------
(* The invariant.                                                          *)

Registering == {"registering", "claiming"}
Upgrading   == {"upgrading", "guestHeld", "oldRead", "oldWritten"}
CodeLocks   == {"claiming", "joining", "checked", "admitting", "oldWritten"}
UserLocks   == {"admitting", "guestHeld", "oldRead", "oldWritten"}
CenterLocks == {"checked", "admitting"}

\* What request q knows of the invitations i and the users u.
Aware(q, i, u) ==
  /\ q.pc \in Registering =>
       q.code \in Codes /\ q.who \in People /\ i[q.code].status # "NONE"
  /\ q.pc = "claiming" => i[q.code].target = NoOne /\ q.inv = i[q.code]
  /\ q.pc \in {"approving", "joining"} => q.code \in Codes
  /\ q.pc \in CenterLocks =>
       /\ q.code \in Codes /\ q.inv = i[q.code]
       /\ q.inv.status = "PENDING" /\ q.inv.target \in People
  /\ q.pc = "admitting" => q.who = q.inv.target /\ q.user = u[q.who]
  /\ q.pc \in Upgrading => q.who \in People /\ u[q.who].approved
  /\ q.pc \in {"oldRead", "oldWritten"} =>
       q.code \in Codes /\ i[q.code].target = q.who /\ q.inv = i[q.code]
  /\ q.pc = "editing" =>
       /\ q.who \in People /\ u[q.who].approved
       /\ q.user.approved /\ q.user.role # "NONE"

AllAware == \A r \in Requests : Aware(req[r], inv, user)

\* Locks are exclusive.
Exclusive ==
  \A r, s \in Requests : r # s =>
    /\ req[r].pc \in CodeLocks /\ req[s].pc \in CodeLocks => req[r].code # req[s].code
    /\ req[r].pc \in UserLocks /\ req[s].pc \in UserLocks => req[r].who # req[s].who
    /\ ~(req[r].pc \in CenterLocks /\ req[s].pc \in CenterLocks)

\* Rows are not half there, and only approved accounts are guests.
RowsWhole ==
  /\ \A c \in Codes : inv[c].status = "NONE" => inv[c] = NoInvitation
  /\ \A p \in People : /\ user[p].role = "NONE" => user[p] = NoUser
                       /\ user[p].role = "GUEST" => user[p].approved

\* No request is about to register with code c.
Unregistered(c) ==
  \A r \in Requests : req[r].pc \in Registering => req[r].code # c

GuestCopy(q) == q.pc \in Upgrading \/ (q.pc = "editing" /\ q.user.role = "GUEST")

\* p is a guest, or some request still takes p for one.
OnceGuest(p) ==
  user[p].role = "GUEST" \/ \E r \in Requests : req[r].who = p /\ GuestCopy(req[r])

\* An upgrade makes a code EXPIRED, or else nobody is registering with it:
\* that is why a late registration never takes an APPROVED code.
LateClaimsVain ==
  /\ \A p \in People, c \in Codes :
       OnceGuest(p) /\ inv[c].target = p => inv[c].guest \/ Unregistered(c)
  /\ \A c \in Codes :
       inv[c].status = "APPROVED" /\ inv[c].target = NoOne => Unregistered(c)

IInv ==
  TypeOK /\ AllAware /\ Exclusive /\ RowsWhole /\ OneCodeEach /\ LateClaimsVain

\* The record of a request that is over.
LEMMA IdleRequest ==
  /\ Idle \in Request /\ Idle.pc = "idle"
  /\ NoInvitation \in Invitation /\ NoUser \in User
BY DEF Idle, Request, Invitation, NoInvitation, User, NoUser

\* Locks by the phase of their holder.
LEMMA LockFacts ==
  ASSUME NEW r \in Requests
  PROVE  /\ \A c : CodeFree(r, c) <=> \A s \in Requests \ {r} :
                     ~(req[s].code = c /\ req[s].pc \in CodeLocks)
         /\ \A p : UserFree(r, p) <=> \A s \in Requests \ {r} :
                     ~(req[s].who = p /\ req[s].pc \in UserLocks)
         /\ CenterFree(r) <=> \A s \in Requests \ {r} : req[s].pc \notin CenterLocks
BY DEF CodeFree, UserFree, CenterFree, HoldsCode, HoldsUser, HoldsCenter,
       CodeLocks, UserLocks, CenterLocks

\* Replacing the record of one request.
LEMMA Replace ==
  ASSUME TypeOK, NEW r \in Requests, NEW x \in Request,
         req' = [req EXCEPT ![r] = x]
  PROVE  /\ req' \in [Requests -> Request] /\ req'[r] = x
         /\ \A s \in Requests \ {r} : req'[s] = req[s]
BY DEF TypeOK

\* The locks stay exclusive when request r moves on to x.
LEMMA MoveLocks ==
  ASSUME TypeOK, Exclusive, NEW r \in Requests, NEW x \in Request,
         req' = [req EXCEPT ![r] = x],
         x.pc \in CodeLocks => CodeFree(r, x.code),
         x.pc \in UserLocks => UserFree(r, x.who),
         x.pc \in CenterLocks => CenterFree(r)
  PROVE  Exclusive'
<1>1. /\ req'[r] = x /\ \A s \in Requests \ {r} : req'[s] = req[s]
  BY Replace
<1>2. \A s \in Requests \ {r} :
        /\ x.pc \in CodeLocks /\ req[s].pc \in CodeLocks => x.code # req[s].code
        /\ x.pc \in UserLocks /\ req[s].pc \in UserLocks => x.who # req[s].who
        /\ ~(x.pc \in CenterLocks /\ req[s].pc \in CenterLocks)
  BY LockFacts
<1> QED  BY <1>1, <1>2 DEF Exclusive

\* A step that only moves request r on.
LEMMA MoveOn ==
  ASSUME IInv, NEW r \in Requests, NEW x \in Request,
         req' = [req EXCEPT ![r] = x], UNCHANGED <<inv, user, expired>>,
         Aware(x, inv, user), Exclusive',
         x.pc \in Registering =>
           \/ inv[x.code].status = "PENDING" /\ inv[x.code].target = NoOne
           \/ req[r].pc \in Registering /\ req[r].code = x.code,
         GuestCopy(x) => OnceGuest(x.who)
  PROVE  IInv'
<1>1. /\ req' \in [Requests -> Request] /\ req'[r] = x
      /\ \A s \in Requests \ {r} : req'[s] = req[s]
  BY Replace DEF IInv
<1>2. TypeOK' /\ RowsWhole' /\ OneCodeEach'
  BY <1>1 DEF IInv, TypeOK, RowsWhole, OneCodeEach
<1>3. AllAware'
  BY <1>1 DEF IInv, AllAware
<1>4. \A c \in Codes : Unregistered(c) /\ ~(inv[c].status = "PENDING" /\ inv[c].target = NoOne)
        => Unregistered(c)'
  BY <1>1 DEF Unregistered
<1>5. \A p \in People : OnceGuest(p)' => OnceGuest(p)
  BY <1>1 DEF OnceGuest
<1>6. LateClaimsVain'
  <2>1. \A p \in People : p # NoOne
    BY NamesAssumption
  <2> QED  BY <1>4, <1>5, <2>1 DEF IInv, LateClaimsVain
<1> QED  BY <1>2, <1>3, <1>6 DEF IInv

LEMMA InvInit == Init => IInv
<1> SUFFICES ASSUME Init PROVE IInv
  OBVIOUS
<1>1. TypeOK
  BY IdleRequest DEF Init, TypeOK
<1>2. AllAware /\ Exclusive
  BY DEF Init, AllAware, Aware, Exclusive, Idle, Registering, Upgrading, CodeLocks,
         UserLocks, CenterLocks
<1>3. RowsWhole /\ OneCodeEach
  BY NamesAssumption DEF Init, RowsWhole, OneCodeEach, NoUser, NoInvitation
<1>4. LateClaimsVain
  BY NamesAssumption DEF Init, LateClaimsVain, NoInvitation
<1> QED  BY <1>1, <1>2, <1>3, <1>4 DEF IInv

-----------------------------------------------------------------------------
(* Steps that only move a request.                                         *)

\* Rolling back, or being refused.
LEMMA InvFinish ==
  ASSUME IInv, NEW r \in Requests, Finish(r), UNCHANGED <<inv, user, expired>>
  PROVE  IInv'
<1> USE DEF Idle, Registering, Upgrading, CodeLocks, UserLocks, CenterLocks
<1>1. Idle \in Request /\ req' = [req EXCEPT ![r] = Idle]
  BY IdleRequest DEF Finish
<1>2. Aware(Idle, inv, user) /\ ~GuestCopy(Idle)
  BY DEF Aware, GuestCopy
<1>3. Exclusive'
  BY <1>1, MoveLocks DEF IInv
<1> QED  BY <1>1, <1>2, <1>3, MoveOn

LEMMA InvRegisterMoves ==
  ASSUME IInv, NEW r \in Requests,
         \/ \E c \in Codes, p \in People : ValidateRegister(r, c, p)
         \/ LockCode(r)
  PROVE  IInv'
<1> USE DEF Registering, Upgrading, CodeLocks, UserLocks, CenterLocks
<1>0. req[r] \in Request /\ Aware(req[r], inv, user) /\ inv \in [Codes -> Invitation]
  BY DEF IInv, TypeOK, AllAware
<1>1. ASSUME NEW c \in Codes, NEW p \in People, ValidateRegister(r, c, p)
      PROVE  IInv'
  <2> DEFINE x == [Idle EXCEPT !.pc = "registering", !.code = c, !.who = p]
  <2>1. x \in Request /\ x.pc = "registering" /\ x.code = c /\ x.who = p
    BY IdleRequest DEF Idle, Request
  <2>2. /\ req' = [req EXCEPT ![r] = x] /\ UNCHANGED <<inv, user, expired>>
        /\ inv[c].status = "PENDING" /\ inv[c].target = NoOne
    BY <1>1 DEF ValidateRegister, Proceed
  <2> HIDE DEF x
  <2>3. Aware(x, inv, user) /\ ~GuestCopy(x)
    BY <2>1, <2>2 DEF Aware, GuestCopy
  <2>4. Exclusive'
    BY <2>1, <2>2, MoveLocks DEF IInv
  <2> QED  BY <2>1, <2>2, <2>3, <2>4, MoveOn
<1>2. ASSUME LockCode(r), Claimable(inv[req[r].code]) PROVE IInv'
  <2> DEFINE x == [req[r] EXCEPT !.pc = "claiming", !.inv = inv[req[r].code]]
  <2>1. /\ req[r].pc = "registering" /\ req[r].code \in Codes
        /\ CodeFree(r, req[r].code)
        /\ req' = [req EXCEPT ![r] = x] /\ UNCHANGED <<inv, user, expired>>
    BY <1>0, <1>2 DEF LockCode, Proceed, Aware
  <2>2. /\ x \in Request /\ x.pc = "claiming" /\ x.code = req[r].code
        /\ x.who = req[r].who /\ x.inv = inv[req[r].code]
    BY <1>0, <2>1 DEF Request
  <2> HIDE DEF x
  <2>3. Aware(x, inv, user) /\ ~GuestCopy(x)
    BY <1>0, <1>2, <2>1, <2>2 DEF Aware, GuestCopy, Claimable
  <2>4. Exclusive'
    BY <2>1, <2>2, MoveLocks DEF IInv
  <2> QED  BY <2>1, <2>2, <2>3, <2>4, MoveOn
<1>3. ASSUME LockCode(r), ~Claimable(inv[req[r].code]) PROVE IInv'
  BY <1>3, InvFinish DEF LockCode, Refuse
<1> QED  BY <1>1, <1>2, <1>3

LEMMA InvApproveMoves ==
  ASSUME IInv, NEW r \in Requests,
         \/ \E c \in Codes : ValidateApprove(r, c)
         \/ JoinCode(r) \/ JoinCenter(r) \/ LockTarget(r)
  PROVE  IInv'
<1> USE DEF Registering, Upgrading, CodeLocks, UserLocks, CenterLocks
<1>0. /\ req[r] \in Request /\ Aware(req[r], inv, user)
      /\ inv \in [Codes -> Invitation] /\ user \in [People -> User]
  BY DEF IInv, TypeOK, AllAware
<1>1. ASSUME NEW c \in Codes, ValidateApprove(r, c) PROVE IInv'
  <2> DEFINE x == [Idle EXCEPT !.pc = "approving", !.code = c]
  <2>1. x \in Request /\ x.pc = "approving" /\ x.code = c
    BY IdleRequest DEF Idle, Request
  <2>2. req' = [req EXCEPT ![r] = x] /\ UNCHANGED <<inv, user, expired>>
    BY <1>1 DEF ValidateApprove, Proceed
  <2> HIDE DEF x
  <2>3. Aware(x, inv, user) /\ ~GuestCopy(x)
    BY <2>1 DEF Aware, GuestCopy
  <2>4. Exclusive'
    BY <2>1, <2>2, MoveLocks DEF IInv
  <2> QED  BY <2>1, <2>2, <2>3, <2>4, MoveOn
<1>2. ASSUME JoinCode(r) PROVE IInv'
  <2> DEFINE x == [req[r] EXCEPT !.pc = "joining"]
  <2>1. /\ req[r].pc = "approving" /\ CodeFree(r, req[r].code)
        /\ req' = [req EXCEPT ![r] = x] /\ UNCHANGED <<inv, user, expired>>
    BY <1>2 DEF JoinCode, Proceed
  <2>2. x \in Request /\ x.pc = "joining" /\ x.code = req[r].code
    BY <1>0 DEF Request
  <2> HIDE DEF x
  <2>3. Aware(x, inv, user) /\ ~GuestCopy(x)
    BY <1>0, <2>1, <2>2 DEF Aware, GuestCopy
  <2>4. Exclusive'
    BY <2>1, <2>2, MoveLocks DEF IInv
  <2> QED  BY <2>1, <2>2, <2>3, <2>4, MoveOn
<1>3. ASSUME JoinCenter(r), Approvable(req[r].code), inv[req[r].code].target # NoOne
      PROVE  IInv'
  <2> DEFINE x == [req[r] EXCEPT !.pc = "checked", !.inv = inv[req[r].code]]
  <2>1. /\ req[r].pc = "joining" /\ CenterFree(r)
        /\ req' = [req EXCEPT ![r] = x] /\ UNCHANGED <<inv, user, expired>>
    BY <1>3 DEF JoinCenter, Proceed
  <2>2. /\ req[r].code \in Codes /\ inv[req[r].code].status = "PENDING"
        /\ inv[req[r].code].target \in People
    BY <1>0, <1>3, <2>1 DEF Aware, Approvable, Invitation
  <2>3. /\ x \in Request /\ x.pc = "checked" /\ x.code = req[r].code
        /\ x.inv = inv[req[r].code]
    BY <1>0, <2>2 DEF Request
  <2> HIDE DEF x
  <2>4. Aware(x, inv, user) /\ ~GuestCopy(x)
    BY <2>2, <2>3 DEF Aware, GuestCopy
  <2>5. CodeFree(r, x.code)
    BY <2>1, <2>3, LockFacts DEF IInv, Exclusive
  <2>6. Exclusive'
    BY <2>1, <2>3, <2>5, MoveLocks DEF IInv
  <2> QED  BY <2>1, <2>3, <2>4, <2>6, MoveOn
<1>4. ASSUME JoinCenter(r), ~(Approvable(req[r].code) /\ inv[req[r].code].target # NoOne)
      PROVE  IInv'
  BY <1>4, InvFinish DEF JoinCenter, Refuse
<1>5. ASSUME LockTarget(r) PROVE IInv'
  <2> DEFINE p == req[r].inv.target
             x == [req[r] EXCEPT !.pc = "admitting", !.who = p, !.user = user[p]]
  <2>1. /\ req[r].pc = "checked" /\ UserFree(r, p)
        /\ req' = [req EXCEPT ![r] = x] /\ UNCHANGED <<inv, user, expired>>
    BY <1>5 DEF LockTarget, Proceed
  <2>2. p \in People
    BY <1>0, <2>1 DEF Aware
  <2>3. /\ x \in Request /\ x.pc = "admitting" /\ x.code = req[r].code
        /\ x.who = p /\ x.user = user[p] /\ x.inv = req[r].inv
    BY <1>0, <2>2 DEF Request
  <2>4. Aware(x, inv, user) /\ ~GuestCopy(x)
    BY <1>0, <2>1, <2>2, <2>3 DEF Aware, GuestCopy
  <2>5. CodeFree(r, x.code) /\ CenterFree(r)
    BY <2>1, <2>3, LockFacts DEF IInv, Exclusive
  <2> HIDE DEF p, x
  <2>6. Exclusive'
    BY <2>1, <2>3, <2>5, MoveLocks DEF IInv
  <2> QED  BY <2>1, <2>3, <2>4, <2>6, MoveOn
<1> QED  BY <1>1, <1>2, <1>3, <1>4, <1>5
LEMMA InvUpgradeMoves ==
  ASSUME IInv, NEW r \in Requests,
         \/ \E p \in People : ValidateUpgrade(r, p)
         \/ LockGuest(r) \/ ReadOld(r) \/ WriteOld(r)
  PROVE  IInv'
<1> USE DEF Registering, Upgrading, CodeLocks, UserLocks, CenterLocks
<1>0. /\ req[r] \in Request /\ Aware(req[r], inv, user)
      /\ inv \in [Codes -> Invitation] /\ user \in [People -> User]
  BY DEF IInv, TypeOK, AllAware
<1>1. ASSUME NEW p \in People, ValidateUpgrade(r, p) PROVE IInv'
  <2> DEFINE x == [Idle EXCEPT !.pc = "upgrading", !.who = p]
  <2>1. x \in Request /\ x.pc = "upgrading" /\ x.who = p
    BY IdleRequest DEF Idle, Request
  <2>2. /\ req' = [req EXCEPT ![r] = x] /\ UNCHANGED <<inv, user, expired>>
        /\ user[p].role = "GUEST"
    BY <1>1 DEF ValidateUpgrade, Proceed
  <2> HIDE DEF x
  <2>3. Aware(x, inv, user) /\ OnceGuest(x.who)
    BY <2>1, <2>2 DEF IInv, RowsWhole, Aware, OnceGuest
  <2>4. Exclusive'
    BY <2>1, <2>2, MoveLocks DEF IInv
  <2> QED  BY <2>1, <2>2, <2>3, <2>4, MoveOn
<1>2. ASSUME LockGuest(r) PROVE IInv'
  <2> DEFINE x == [req[r] EXCEPT !.pc = "guestHeld", !.user = user[req[r].who]]
  <2>1. /\ req[r].pc = "upgrading" /\ UserFree(r, req[r].who)
        /\ req' = [req EXCEPT ![r] = x] /\ UNCHANGED <<inv, user, expired>>
    BY <1>2 DEF LockGuest, Proceed
  <2>2. req[r].who \in People
    BY <1>0, <2>1 DEF Aware
  <2>3. x \in Request /\ x.pc = "guestHeld" /\ x.who = req[r].who
    BY <1>0, <2>2 DEF Request
  <2> HIDE DEF x
  <2>4. Aware(x, inv, user) /\ OnceGuest(x.who)
    BY <1>0, <2>1, <2>2, <2>3 DEF Aware, OnceGuest, GuestCopy
  <2>5. Exclusive'
    BY <2>1, <2>3, MoveLocks DEF IInv
  <2> QED  BY <2>1, <2>3, <2>4, <2>5, MoveOn
<1>3. ASSUME ReadOld(r) PROVE IInv'
  <2> DEFINE p == req[r].who
  <2>1. req[r].pc = "guestHeld" /\ p \in People /\ user[p].approved
    BY <1>0, <1>3 DEF ReadOld, Aware
  <2>2. Targeting(p) # {}
    BY <2>1 DEF IInv, OneCodeEach, NoUser, Targeting
  <2>3. PICK c \in Codes :
          /\ inv[c].target = p
          /\ Proceed(r, [req[r] EXCEPT !.pc = "oldRead", !.code = c, !.inv = inv[c]])
    BY <1>3, <2>2 DEF ReadOld, Targeting
  <2> DEFINE x == [req[r] EXCEPT !.pc = "oldRead", !.code = c, !.inv = inv[c]]
  <2>4. /\ x \in Request /\ x.pc = "oldRead" /\ x.who = p /\ x.code = c
        /\ x.inv = inv[c]
    BY <1>0 DEF Request
  <2>5. req' = [req EXCEPT ![r] = x] /\ UNCHANGED <<inv, user, expired>>
    BY <2>3 DEF Proceed
  <2>6. Aware(x, inv, user) /\ OnceGuest(x.who)
    BY <2>1, <2>3, <2>4 DEF Aware, OnceGuest, GuestCopy
  <2>7. UserFree(r, x.who)
    BY <2>1, <2>4, LockFacts DEF IInv, Exclusive
  <2> HIDE DEF x, p
  <2>8. Exclusive'
    BY <2>4, <2>5, <2>7, MoveLocks DEF IInv
  <2> QED  BY <2>4, <2>5, <2>6, <2>8, MoveOn
<1>4. ASSUME WriteOld(r) PROVE IInv'
  <2> DEFINE x == [req[r] EXCEPT !.pc = "oldWritten"]
  <2>1. /\ req[r].pc = "oldRead"
        /\ req[r].code # NoCode => CodeFree(r, req[r].code)
        /\ req' = [req EXCEPT ![r] = x] /\ UNCHANGED <<inv, user, expired>>
    BY <1>4 DEF WriteOld, Proceed
  <2>2. req[r].who \in People /\ req[r].code \in Codes
    BY <1>0, <2>1 DEF Aware
  <2>3. /\ x \in Request /\ x.pc = "oldWritten" /\ x.who = req[r].who
        /\ x.code = req[r].code /\ x.inv = req[r].inv
    BY <1>0 DEF Request
  <2> HIDE DEF x
  <2>4. Aware(x, inv, user) /\ OnceGuest(x.who)
    BY <1>0, <2>1, <2>3 DEF Aware, OnceGuest, GuestCopy
  <2>5. UserFree(r, x.who) /\ CodeFree(r, x.code)
    BY <2>1, <2>2, <2>3, LockFacts, NamesAssumption DEF IInv, Exclusive
  <2>6. Exclusive'
    BY <2>1, <2>3, <2>5, MoveLocks DEF IInv
  <2> QED  BY <2>1, <2>3, <2>4, <2>6, MoveOn
<1> QED  BY <1>1, <1>2, <1>3, <1>4

LEMMA InvLoadProfile ==
  ASSUME IInv, NEW r \in Requests, NEW p \in People, LoadProfile(r, p)
  PROVE  IInv'
<1> USE DEF Registering, Upgrading, CodeLocks, UserLocks, CenterLocks
<1> DEFINE x == [Idle EXCEPT !.pc = "editing", !.who = p, !.user = user[p]]
<1>0. user \in [People -> User]
  BY DEF IInv, TypeOK
<1>1. x \in Request /\ x.pc = "editing" /\ x.who = p /\ x.user = user[p]
  BY <1>0, IdleRequest DEF Idle, Request
<1>2. /\ req' = [req EXCEPT ![r] = x] /\ UNCHANGED <<inv, user, expired>>
      /\ user[p].approved
  BY DEF LoadProfile, Proceed
<1> HIDE DEF x
<1>3. user[p].role # "NONE"
  BY <1>2 DEF IInv, RowsWhole, NoUser
<1>4. Aware(x, inv, user) /\ (GuestCopy(x) => OnceGuest(x.who))
  BY <1>1, <1>2, <1>3 DEF Aware, OnceGuest, GuestCopy
<1>5. Exclusive'
  BY <1>1, <1>2, MoveLocks DEF IInv
<1> QED  BY <1>1, <1>2, <1>4, <1>5, MoveOn

-----------------------------------------------------------------------------
(* Steps that write.                                                       *)

\* A request ends; what it wrote leaves the locks as they are.
LEMMA EndLocks ==
  ASSUME IInv, NEW r \in Requests, Finish(r)
  PROVE  /\ req' \in [Requests -> Request] /\ req'[r] = Idle /\ Exclusive'
         /\ \A s \in Requests \ {r} : req'[s] = req[s]
<1>1. Idle \in Request /\ req' = [req EXCEPT ![r] = Idle]
  BY IdleRequest DEF Finish
<1>2. Idle.pc \notin CodeLocks \cup UserLocks \cup CenterLocks
  BY IdleRequest DEF CodeLocks, UserLocks, CenterLocks
<1>3. Exclusive'
  BY <1>1, <1>2, MoveLocks DEF IInv
<1> QED  BY <1>1, <1>3, Replace DEF IInv

LEMMA InvRunsOut ==
  ASSUME IInv, NEW c \in Codes, RunsOut(c)
  PROVE  IInv'
<1>1. TypeOK'
  BY DEF IInv, TypeOK, RunsOut
<1>2. AllAware' /\ Exclusive'
  BY DEF IInv, AllAware, Exclusive, RunsOut
<1>3. RowsWhole' /\ OneCodeEach'
  BY DEF IInv, RowsWhole, OneCodeEach, RunsOut
<1>4. LateClaimsVain'
  BY DEF IInv, LateClaimsVain, OnceGuest, Unregistered, RunsOut
<1> QED  BY <1>1, <1>2, <1>3, <1>4 DEF IInv

LEMMA InvIssue ==
  ASSUME IInv, NEW c \in Codes, NEW role \in {"TEACHER", "STUDENT"},
         NEW guest \in BOOLEAN, Issue(c, role, guest)
  PROVE  IInv'
<1> DEFINE new == [status |-> "PENDING", role |-> role, guest |-> guest,
                   target |-> NoOne]
<1>1. /\ inv[c] = NoInvitation /\ inv' = [inv EXCEPT ![c] = new]
      /\ UNCHANGED <<user, expired, req>> /\ inv \in [Codes -> Invitation]
      /\ new \in Invitation
  BY DEF Issue, IInv, TypeOK, Invitation
<1>2. /\ inv'[c] = new /\ \A d \in Codes \ {c} : inv'[d] = inv[d]
      /\ \A d \in Codes : inv'[d].target = inv[d].target
      /\ inv[c].status = "NONE" /\ inv[c].target = NoOne
  BY <1>1 DEF NoInvitation
<1>3. TypeOK'
  BY <1>1 DEF IInv, TypeOK
<1>4. AllAware'
  <2> SUFFICES ASSUME NEW r \in Requests PROVE Aware(req[r], inv', user)
    BY <1>1 DEF AllAware
  <2>1. Aware(req[r], inv, user)
    BY DEF IInv, AllAware
  <2> QED  BY <1>1, <1>2, <2>1, NamesAssumption
           DEF Aware, Registering, Upgrading, CenterLocks
<1>5. Exclusive'
  BY <1>1 DEF IInv, Exclusive
<1>6. RowsWhole'
  BY <1>1, <1>2 DEF IInv, RowsWhole
<1>7. OneCodeEach'
  BY <1>1, <1>2, NamesAssumption DEF IInv, OneCodeEach
<1>8. LateClaimsVain'
  <2>1. \A p : OnceGuest(p)' <=> OnceGuest(p)
    BY <1>1 DEF OnceGuest
  <2>2. \A d : Unregistered(d)' <=> Unregistered(d)
    BY <1>1 DEF Unregistered
  <2> QED  BY <1>1, <1>2, <2>1, <2>2, NamesAssumption DEF IInv, LateClaimsVain
<1> QED  BY <1>1, <1>3, <1>4, <1>5, <1>6, <1>7, <1>8 DEF IInv
LEMMA InvSaveProfile ==
  ASSUME IInv, NEW r \in Requests, SaveProfile(r)
  PROVE  IInv'
<1> DEFINE p == req[r].who
           new == req[r].user
<1>0. /\ inv \in [Codes -> Invitation] /\ user \in [People -> User]
      /\ req[r] \in Request /\ Aware(req[r], inv, user)
  BY DEF IInv, TypeOK, AllAware
<1>1. /\ req[r].pc = "editing" /\ UserFree(r, p)
      /\ user' = [user EXCEPT ![p] = new] /\ UNCHANGED <<inv, expired>>
      /\ Finish(r)
  BY DEF SaveProfile
<1>2. /\ p \in People /\ new \in User
      /\ user[p].approved /\ new.approved /\ new.role # "NONE"
  BY <1>0, <1>1 DEF Aware, Request
<1>3. /\ user'[p] = new /\ \A o \in People \ {p} : user'[o] = user[o]
      /\ \A o \in People : user'[o].approved <=> user[o].approved
      /\ user[p] # NoUser /\ new # NoUser
  <2>1. user'[p] = new /\ \A o \in People \ {p} : user'[o] = user[o]
    BY <1>0, <1>1, <1>2
  <2>2. user[p] # NoUser /\ new # NoUser
    BY <1>2 DEF NoUser
  <2> HIDE DEF p, new
  <2> QED  BY <1>2, <2>1, <2>2
<1>4. /\ req' \in [Requests -> Request] /\ req'[r] = Idle /\ Exclusive'
      /\ \A s \in Requests \ {r} : req'[s] = req[s]
  BY <1>1, EndLocks
<1> HIDE DEF p, new
<1>5. TypeOK'
  BY <1>0, <1>1, <1>2, <1>4 DEF IInv, TypeOK
<1>6. AllAware'
  <2> SUFFICES ASSUME NEW s \in Requests PROVE Aware(req'[s], inv, user')
    BY <1>1 DEF AllAware
  <2>1. CASE s = r
    BY <2>1, <1>4 DEF Aware, Idle, Registering, Upgrading, CenterLocks
  <2>2. CASE s # r
    <3>1. Aware(req[s], inv, user) /\ req'[s] = req[s]
      BY <2>2, <1>4 DEF IInv, AllAware
    <3>2. req[s].pc = "admitting" => req[s].who # p
      BY <2>2, <1>1, LockFacts DEF UserLocks
    <3> QED  BY <1>3, <3>1, <3>2 DEF Aware, Registering, Upgrading, CenterLocks
  <2> QED  BY <2>1, <2>2
<1>7. RowsWhole'
  BY <1>1, <1>2, <1>3 DEF IInv, RowsWhole
<1>8. OneCodeEach'
  BY <1>1, <1>3 DEF IInv, OneCodeEach
<1>9. LateClaimsVain'
  <2>1. \A o \in People : OnceGuest(o)' => OnceGuest(o)
    <3>1. new.role = "GUEST" => OnceGuest(p)
      BY <1>1 DEF OnceGuest, GuestCopy, p, new
    <3> QED  BY <1>3, <1>4, <3>1 DEF OnceGuest, GuestCopy, Idle, Upgrading
  <2>2. \A d : Unregistered(d) => Unregistered(d)'
    BY <1>4 DEF Unregistered, Idle, Registering
  <2> QED  BY <1>1, <2>1, <2>2 DEF IInv, LateClaimsVain
<1> QED  BY <1>4, <1>5, <1>6, <1>7, <1>8, <1>9 DEF IInv

LEMMA InvCreateUser ==
  ASSUME IInv, NEW r \in Requests, CreateUser(r)
  PROVE  IInv'
<1> DEFINE c == req[r].code
           p == req[r].who
           new == [role |-> req[r].inv.role, approved |-> FALSE]
<1>0. /\ inv \in [Codes -> Invitation] /\ user \in [People -> User]
      /\ req[r] \in Request /\ Aware(req[r], inv, user)
  BY DEF IInv, TypeOK, AllAware
<1>1. req[r].pc = "claiming"
  BY DEF CreateUser
<1>2. CASE user[p] # NoUser
  BY <1>2, InvFinish DEF CreateUser, Refuse
<1>3. CASE user[p] = NoUser
  <2>1. /\ user' = [user EXCEPT ![p] = new] /\ inv' = [inv EXCEPT ![c].target = p]
        /\ UNCHANGED expired /\ Finish(r)
    BY <1>3 DEF CreateUser
  <2>2. /\ c \in Codes /\ p \in People /\ new \in User /\ p # NoOne
        /\ inv[c].target = NoOne /\ inv[c].status # "NONE" /\ new.role # "GUEST"
        /\ new.role # "NONE"
    BY <1>0, <1>1, NamesAssumption DEF Aware, Registering, Request, Invitation, User
  <2>3. /\ user'[p] = new /\ \A o \in People \ {p} : user'[o] = user[o]
        /\ user[p].approved = FALSE /\ new.approved = FALSE
    BY <1>0, <1>3, <2>1, <2>2 DEF NoUser
  <2>4. /\ inv'[c].target = p /\ inv'[c].status = inv[c].status
        /\ inv'[c].guest = inv[c].guest /\ inv' \in [Codes -> Invitation]
        /\ \A d \in Codes \ {c} : inv'[d] = inv[d]
        /\ \A d \in Codes : inv'[d].status = inv[d].status
    BY <1>0, <2>1, <2>2 DEF Invitation
  <2>5. /\ req' \in [Requests -> Request] /\ req'[r] = Idle /\ Exclusive'
        /\ \A s \in Requests \ {r} : req'[s] = req[s]
    BY <2>1, EndLocks
  <2>6. \A d \in Codes : inv[d].target # p
    BY <1>3, <2>2 DEF IInv, OneCodeEach
  <2>7. inv[c].status # "APPROVED"
    BY <1>1, <2>2 DEF IInv, LateClaimsVain, Unregistered, Registering
  <2> HIDE DEF c, p, new
  <2>8. TypeOK'
    BY <1>0, <2>1, <2>2, <2>4, <2>5 DEF IInv, TypeOK
  <2>9. AllAware'
    <3> SUFFICES ASSUME NEW s \in Requests PROVE Aware(req'[s], inv', user')
      BY DEF AllAware
    <3>1. CASE s = r
      BY <3>1, <2>5 DEF Aware, Idle, Registering, Upgrading, CenterLocks
    <3>2. CASE s # r
      <4>1. Aware(req[s], inv, user) /\ req'[s] = req[s]
        BY <3>2, <2>5 DEF IInv, AllAware
      <4>2. req[s].pc \in CodeLocks => req[s].code # c
        BY <3>2, <1>1 DEF IInv, Exclusive, CodeLocks, c
      <4>3. req[s].pc = "oldRead" => req[s].code # c
        BY <4>1, <2>2, NamesAssumption DEF Aware, Upgrading
      <4>4. req[s].pc = "admitting" => req[s].who # p
        BY <4>1, <2>6 DEF Aware, CenterLocks
      <4>5. req[s].pc \in Upgrading \cup {"editing"} => req[s].who # p
        BY <4>1, <2>3 DEF Aware
      <4> QED  BY <2>3, <2>4, <4>1, <4>2, <4>3, <4>4, <4>5
               DEF Aware, Registering, Upgrading, CenterLocks, CodeLocks
    <3> QED  BY <3>1, <3>2
  <2>10. RowsWhole'
    BY <2>2, <2>3, <2>4 DEF IInv, RowsWhole
  <2>11. OneCodeEach'
    <3> SUFFICES ASSUME NEW o \in People
                 PROVE  IF user'[o] = NoUser
                          THEN \A d \in Codes : inv'[d].target # o
                          ELSE \E d \in Codes :
                                 /\ \A e \in Codes : inv'[e].target = o <=> e = d
                                 /\ user'[o].approved <=> inv'[d].status = "APPROVED"
      BY DEF OneCodeEach
    <3>1. CASE o = p
      <4>1. user'[p] # NoUser
        BY <2>2, <2>3 DEF NoUser
      <4>2. \A e \in Codes : inv'[e].target = p <=> e = c
        BY <2>2, <2>4, <2>6
      <4> QED  BY <3>1, <4>1, <4>2, <2>2, <2>3, <2>4, <2>7
    <3>2. CASE o # p
      <4>1. \A d \in Codes : inv'[d].target = o <=> inv[d].target = o
        BY <3>2, <2>2, <2>4, NamesAssumption
      <4> QED  BY <3>2, <4>1, <2>3, <2>4 DEF IInv, OneCodeEach
    <3> QED  BY <3>1, <3>2
  <2>12. LateClaimsVain'
    <3>1. \A o \in People : OnceGuest(o)' => OnceGuest(o) /\ o # p
      <4>1. \A s \in Requests : GuestCopy(req[s]) => req[s].who # p
        <5> SUFFICES ASSUME NEW s \in Requests, GuestCopy(req[s]) PROVE req[s].who # p
          OBVIOUS
        <5>1. Aware(req[s], inv, user)
          BY DEF IInv, AllAware
        <5> QED  BY <5>1, <2>3 DEF Aware, GuestCopy
      <4> QED  BY <4>1, <2>2, <2>3, <2>5 DEF OnceGuest, GuestCopy, Idle, Upgrading
    <3>2. \A d : Unregistered(d) => Unregistered(d)'
      BY <2>5 DEF Unregistered, Idle, Registering
    <3> QED  BY <3>1, <3>2, <2>2, <2>4 DEF IInv, LateClaimsVain
  <2> QED  BY <2>5, <2>8, <2>9, <2>10, <2>11, <2>12 DEF IInv
<1> QED  BY <1>2, <1>3
LEMMA InvAdmit ==
  ASSUME IInv, NEW r \in Requests, Admit(r)
  PROVE  IInv'
<1> DEFINE c == req[r].code
           p == req[r].who
           new == [role |-> RoleGiven(req[r].inv, req[r].user), approved |-> TRUE]
<1>0. /\ inv \in [Codes -> Invitation] /\ user \in [People -> User]
      /\ req[r] \in Request /\ Aware(req[r], inv, user)
  BY DEF IInv, TypeOK, AllAware
<1>1. /\ req[r].pc = "admitting"
      /\ user' = [user EXCEPT ![p] = new] /\ inv' = [inv EXCEPT ![c].status = "APPROVED"]
      /\ UNCHANGED expired /\ Finish(r)
  BY DEF Admit
<1>2. /\ c \in Codes /\ p \in People /\ inv[c].target = p /\ inv[c].status = "PENDING"
      /\ req[r].inv = inv[c]
  BY <1>0, <1>1 DEF Aware, CenterLocks
<1>3. /\ new.role \in {"TEACHER", "STUDENT", "GUEST"} /\ new \in User /\ new # NoUser
      /\ new.role = "GUEST" => inv[c].guest
  <2>1. inv[c].role \in {"TEACHER", "STUDENT"}
    BY <1>0, <1>2 DEF Invitation
  <2>2. /\ RoleGiven(req[r].inv, req[r].user) \in {"TEACHER", "STUDENT", "GUEST"}
        /\ RoleGiven(req[r].inv, req[r].user) = "GUEST" => inv[c].guest
    BY <2>1, <1>2 DEF RoleGiven
  <2> QED  BY <2>2 DEF User, NoUser
<1>4. /\ user[p] # NoUser /\ ~user[p].approved
      /\ \A d \in Codes : inv[d].target = p <=> d = c
  BY <1>2 DEF IInv, OneCodeEach
<1>5. /\ user'[p] = new /\ new.approved /\ \A o \in People \ {p} : user'[o] = user[o]
  BY <1>0, <1>1, <1>2
<1>6. /\ inv'[c].status = "APPROVED" /\ inv' \in [Codes -> Invitation]
      /\ \A d \in Codes \ {c} : inv'[d] = inv[d]
      /\ \A d \in Codes : inv'[d].target = inv[d].target /\ inv'[d].guest = inv[d].guest
  BY <1>0, <1>1, <1>2 DEF Invitation
<1>7. /\ req' \in [Requests -> Request] /\ req'[r] = Idle /\ Exclusive'
      /\ \A s \in Requests \ {r} : req'[s] = req[s]
  BY <1>1, EndLocks
<1> HIDE DEF c, p, new
<1>8. TypeOK'
  BY <1>0, <1>1, <1>2, <1>3, <1>6, <1>7 DEF IInv, TypeOK
<1>9. AllAware'
  <2> SUFFICES ASSUME NEW s \in Requests PROVE Aware(req'[s], inv', user')
    BY DEF AllAware
  <2>1. CASE s = r
    BY <2>1, <1>7 DEF Aware, Idle, Registering, Upgrading, CenterLocks
  <2>2. CASE s # r
    <3>1. Aware(req[s], inv, user) /\ req'[s] = req[s]
      BY <2>2, <1>7 DEF IInv, AllAware
    <3>2. req[s].pc \in CodeLocks => req[s].code # c
      BY <2>2, <1>1 DEF IInv, Exclusive, CodeLocks, c
    <3>3. req[s].pc \in UserLocks => req[s].who # p
      BY <2>2, <1>1 DEF IInv, Exclusive, UserLocks, p
    <3>4. req[s].pc = "oldRead" => req[s].code # c
      BY <3>1, <3>3, <1>2 DEF Aware, UserLocks
    <3> QED  BY <1>5, <1>6, <3>1, <3>2, <3>3, <3>4
             DEF Aware, Registering, Upgrading, CenterLocks, CodeLocks, UserLocks
  <2> QED  BY <2>1, <2>2
<1>10. RowsWhole'
  BY <1>2, <1>3, <1>5, <1>6 DEF IInv, RowsWhole
<1>11. OneCodeEach'
  <2> SUFFICES ASSUME NEW o \in People
               PROVE  IF user'[o] = NoUser
                        THEN \A d \in Codes : inv'[d].target # o
                        ELSE \E d \in Codes :
                               /\ \A e \in Codes : inv'[e].target = o <=> e = d
                               /\ user'[o].approved <=> inv'[d].status = "APPROVED"
    BY DEF OneCodeEach
  <2>1. CASE o = p
    BY <2>1, <1>2, <1>3, <1>4, <1>5, <1>6
  <2>2. CASE o # p
    BY <2>2, <1>2, <1>5, <1>6 DEF IInv, OneCodeEach
  <2> QED  BY <2>1, <2>2
<1>12. LateClaimsVain'
  <2>1. \A o \in People : OnceGuest(o)' => OnceGuest(o) \/ (o = p /\ inv[c].guest)
    <3>1. \A s \in Requests : GuestCopy(req[s]) => req[s].who # p
      <4> SUFFICES ASSUME NEW s \in Requests, GuestCopy(req[s]) PROVE req[s].who # p
        OBVIOUS
      <4>1. Aware(req[s], inv, user)
        BY DEF IInv, AllAware
      <4> QED  BY <4>1, <1>4 DEF Aware, GuestCopy
    <3> QED  BY <3>1, <1>3, <1>5, <1>7 DEF OnceGuest, GuestCopy, Idle, Upgrading
  <2>2. \A d : Unregistered(d) => Unregistered(d)'
    BY <1>7 DEF Unregistered, Idle, Registering
  <2>3. \A d \in Codes : inv'[d].status = "APPROVED" /\ inv'[d].target = NoOne
          => inv[d].status = "APPROVED" /\ inv[d].target = NoOne
    BY <1>2, <1>6, NamesAssumption
  <2> QED  BY <2>1, <2>2, <2>3, <1>4, <1>6 DEF IInv, LateClaimsVain
<1> QED  BY <1>7, <1>8, <1>9, <1>10, <1>11, <1>12 DEF IInv

LEMMA InvUpgrade ==
  ASSUME IInv, NEW r \in Requests, NEW d \in Codes, Upgrade(r, d)
  PROVE  IInv'
<1> DEFINE c == req[r].code
           p == req[r].who
           new == [role |-> "STUDENT", approved |-> TRUE]
<1>0. /\ inv \in [Codes -> Invitation] /\ user \in [People -> User]
      /\ req[r] \in Request /\ Aware(req[r], inv, user)
  BY DEF IInv, TypeOK, AllAware
<1>1. /\ req[r].pc = "oldWritten" /\ inv[d] = NoInvitation
      /\ user' = [user EXCEPT ![p] = new]
      /\ inv' = [e \in Codes |-> IF e = d THEN NewInvitation(p)
                                 ELSE IF e = c THEN GivenUp(req[r].inv)
                                 ELSE inv[e]]
      /\ UNCHANGED expired /\ Finish(r)
  BY DEF Upgrade
<1>2. /\ c \in Codes /\ p \in People /\ p # NoOne /\ user[p].approved
      /\ inv[c].target = p /\ req[r].inv = inv[c]
  BY <1>0, <1>1, NamesAssumption DEF Aware, Upgrading
<1>3. /\ user[p] # NoUser /\ inv[c].status = "APPROVED"
      /\ \A e \in Codes : inv[e].target = p <=> e = c
      /\ inv[c].guest \/ Unregistered(c)
  <2>1. user[p] # NoUser
    BY <1>2 DEF NoUser
  <2>2. OnceGuest(p)
    BY <1>1 DEF OnceGuest, GuestCopy, Upgrading
  <2> QED  BY <2>1, <2>2, <1>2 DEF IInv, OneCodeEach, LateClaimsVain
<1>4. inv[d].target = NoOne /\ inv[d].status = "NONE" /\ d # c
  BY <1>1, <1>2 DEF NoInvitation
<1>5. /\ user'[p] = new /\ new.approved /\ new \in User /\ new # NoUser
      /\ \A o \in People \ {p} : user'[o] = user[o]
  BY <1>0, <1>1, <1>2 DEF User, NoUser
<1>6. /\ inv'[c].target = NoOne /\ inv'[c].guest = inv[c].guest
      /\ inv'[c].status = IF inv[c].guest THEN "EXPIRED" ELSE "APPROVED"
      /\ inv'[d].target = p /\ inv'[d].status = "APPROVED"
      /\ \A e \in Codes \ {c, d} : inv'[e] = inv[e]
      /\ inv' \in [Codes -> Invitation]
  <2>1. inv'[d] = NewInvitation(p) /\ inv'[c] = GivenUp(inv[c])
    BY <1>1, <1>2, <1>4
  <2>2. NewInvitation(p) \in Invitation /\ GivenUp(inv[c]) \in Invitation
    BY <1>0, <1>2 DEF NewInvitation, GivenUp, Invitation
  <2>3. /\ GivenUp(inv[c]).target = NoOne /\ GivenUp(inv[c]).guest = inv[c].guest
        /\ GivenUp(inv[c]).status = IF inv[c].guest THEN "EXPIRED" ELSE "APPROVED"
    BY <1>0, <1>2, <1>3 DEF GivenUp, Invitation
  <2>4. \A e \in Codes \ {c, d} : inv'[e] = inv[e]
    BY <1>1
  <2>5. inv' \in [Codes -> Invitation]
    BY <1>0, <1>1, <1>2, <2>2
  <2>6. NewInvitation(p).target = p /\ NewInvitation(p).status = "APPROVED"
    BY DEF NewInvitation
  <2> QED  BY <2>1, <2>3, <2>4, <2>5, <2>6
<1>7. /\ req' \in [Requests -> Request] /\ req'[r] = Idle /\ Exclusive'
      /\ \A s \in Requests \ {r} : req'[s] = req[s]
  BY <1>1, EndLocks
<1> HIDE DEF c, p, new
<1>8. TypeOK'
  BY <1>0, <1>1, <1>2, <1>5, <1>6, <1>7 DEF IInv, TypeOK
<1>9. AllAware'
  <2> SUFFICES ASSUME NEW s \in Requests PROVE Aware(req'[s], inv', user')
    BY DEF AllAware
  <2>1. CASE s = r
    BY <2>1, <1>7 DEF Aware, Idle, Registering, Upgrading, CenterLocks
  <2>2. CASE s # r
    <3>1. Aware(req[s], inv, user) /\ req'[s] = req[s]
      BY <2>2, <1>7 DEF IInv, AllAware
    <3>2. req[s].pc \in CodeLocks => req[s].code # c
      BY <2>2, <1>1 DEF IInv, Exclusive, CodeLocks, c
    <3>3. req[s].pc \in UserLocks => req[s].who # p
      BY <2>2, <1>1 DEF IInv, Exclusive, UserLocks, p
    <3>4. req[s].pc = "oldRead" => req[s].code # c
      BY <3>1, <3>3, <1>2 DEF Aware, UserLocks
    <3>5. req[s].pc \in Registering \cup CenterLocks \cup {"oldRead", "oldWritten"}
            => req[s].code # d
      BY <3>1, <1>4, NamesAssumption DEF Aware, Upgrading, Registering, CenterLocks
    <3>6. inv'[c].status # "NONE"
      BY <1>6
    <3> QED  BY <1>5, <1>6, <3>1, <3>2, <3>3, <3>4, <3>5, <3>6
             DEF Aware, Registering, Upgrading, CenterLocks, CodeLocks, UserLocks
  <2> QED  BY <2>1, <2>2
<1>10. RowsWhole'
  <2>1. new.role = "STUDENT"
    BY DEF new
  <2> QED  BY <2>1, <1>5, <1>6 DEF IInv, RowsWhole
<1>11. OneCodeEach'
  <2> SUFFICES ASSUME NEW o \in People
               PROVE  IF user'[o] = NoUser
                        THEN \A b \in Codes : inv'[b].target # o
                        ELSE \E b \in Codes :
                               /\ \A e \in Codes : inv'[e].target = o <=> e = b
                               /\ user'[o].approved <=> inv'[b].status = "APPROVED"
    BY DEF OneCodeEach
  <2>1. CASE o = p
    BY <2>1, <1>2, <1>3, <1>4, <1>5, <1>6
  <2>2. CASE o # p
    <3>1. \A e \in Codes : inv'[e].target = o <=> inv[e].target = o
      BY <2>2, <1>2, <1>4, <1>6, NamesAssumption
    <3>2. \A e \in Codes : inv[e].target = o => inv'[e] = inv[e]
      BY <2>2, <1>2, <1>4, <1>6, NamesAssumption
    <3> QED  BY <2>2, <3>1, <3>2, <1>5 DEF IInv, OneCodeEach
  <2> QED  BY <2>1, <2>2
<1>12. LateClaimsVain'
  <2>1. \A o \in People : OnceGuest(o)' => OnceGuest(o)
    <3>1. new.role = "STUDENT"
      BY DEF new
    <3> QED  BY <3>1, <1>5, <1>7 DEF OnceGuest, GuestCopy, Idle, Upgrading
  <2>2. \A e : Unregistered(e) => Unregistered(e)'
    BY <1>7 DEF Unregistered, Idle, Registering
  <2>3. Unregistered(d)
    <3> SUFFICES ASSUME NEW s \in Requests, req[s].pc \in Registering
                 PROVE  req[s].code # d
      BY DEF Unregistered
    <3>1. Aware(req[s], inv, user)
      BY DEF IInv, AllAware
    <3> QED  BY <3>1, <1>4 DEF Aware
  <2>4. ASSUME NEW o \in People, NEW e \in Codes, OnceGuest(o)', inv'[e].target = o
        PROVE  inv'[e].guest \/ Unregistered(e)'
    <3>1. CASE e = d
      BY <3>1, <2>2, <2>3
    <3>2. CASE e # d
      <4>1. inv'[e] = inv[e]
        BY <2>4, <3>2, <1>6, NamesAssumption
      <4> QED  BY <4>1, <2>1, <2>2, <2>4 DEF IInv, LateClaimsVain
    <3> QED  BY <3>1, <3>2
  <2>5. ASSUME NEW e \in Codes, inv'[e].status = "APPROVED", inv'[e].target = NoOne
        PROVE  Unregistered(e)'
    <3>1. CASE e = c
      BY <3>1, <2>2, <2>5, <1>3, <1>6
    <3>2. CASE e # c
      BY <3>2, <2>2, <2>5, <1>2, <1>6 DEF IInv, LateClaimsVain
    <3> QED  BY <3>1, <3>2
  <2> QED  BY <2>4, <2>5 DEF LateClaimsVain
<1> QED  BY <1>7, <1>8, <1>9, <1>10, <1>11, <1>12 DEF IInv
-----------------------------------------------------------------------------
(* The theorems.                                                           *)

LEMMA InvStep == IInv /\ [Next]_vars => IInv'
<1> SUFFICES ASSUME IInv, [Next]_vars PROVE IInv'
  OBVIOUS
<1>1. ASSUME NEW r \in Requests, RequestStep(r) PROVE IInv'
  <2>1. CASE (\E c \in Codes, p \in People : ValidateRegister(r, c, p)) \/ LockCode(r)
    BY <2>1, InvRegisterMoves
  <2>2. CASE CreateUser(r)
    BY <2>2, InvCreateUser
  <2>3. CASE \/ \E c \in Codes : ValidateApprove(r, c)
             \/ JoinCode(r) \/ JoinCenter(r) \/ LockTarget(r)
    BY <2>3, InvApproveMoves
  <2>4. CASE Admit(r)
    BY <2>4, InvAdmit
  <2>5. CASE \/ \E p \in People : ValidateUpgrade(r, p)
             \/ LockGuest(r) \/ ReadOld(r) \/ WriteOld(r)
    BY <2>5, InvUpgradeMoves
  <2>6. CASE \E d \in Codes : Upgrade(r, d)
    BY <2>6, InvUpgrade
  <2>7. CASE \E p \in People : LoadProfile(r, p)
    BY <2>7, InvLoadProfile
  <2>8. CASE SaveProfile(r)
    BY <2>8, InvSaveProfile
  <2>9. CASE Abort(r)
    BY <2>9, InvFinish DEF Abort
  <2> QED  BY <1>1, <2>1, <2>2, <2>3, <2>4, <2>5, <2>6, <2>7, <2>8, <2>9 DEF RequestStep
<1>2. ASSUME NEW c \in Codes, NEW role \in {"TEACHER", "STUDENT"},
             NEW guest \in BOOLEAN, Issue(c, role, guest)
      PROVE  IInv'
  BY <1>2, InvIssue
<1>3. ASSUME NEW c \in Codes, RunsOut(c) PROVE IInv'
  BY <1>3, InvRunsOut
<1>4. CASE UNCHANGED vars
  <2>1. TypeOK' /\ RowsWhole' /\ OneCodeEach'
    BY <1>4 DEF IInv, TypeOK, RowsWhole, OneCodeEach, vars
  <2>2. AllAware' /\ Exclusive'
    BY <1>4 DEF IInv, AllAware, Exclusive, vars
  <2>3. LateClaimsVain'
    BY <1>4 DEF IInv, LateClaimsVain, OnceGuest, Unregistered, vars
  <2> QED  BY <2>1, <2>2, <2>3 DEF IInv
<1> QED  BY <1>1, <1>2, <1>3, <1>4 DEF Next

LEMMA InvAlways == Spec => []IInv
BY InvInit, InvStep, PTL DEF Spec

\* Rows and the copies requests hold of them keep their types.
THEOREM TypeCorrect == Spec => []TypeOK
BY InvAlways, PTL DEF IInv

\* Accounts and codes stay in step: whoever is registered holds one code, and
\* is approved exactly when it is (RegisterSerializer.create,
\* approve_invitation, GuestUpgradeSerializer.save).
THEOREM CodesAndAccountsAgree == Spec => []OneCodeEach
BY InvAlways, PTL DEF IInv

\* Who waits for a lock waits for somebody further on.
Level0 == {"idle", "checked", "admitting", "guestHeld"}
Level1 == {"claiming", "joining", "oldWritten"}
Level2 == {"oldRead"}
Level3 == {"registering", "approving", "upgrading", "editing"}

LEMMA WaitsDown ==
  ASSUME IInv, NEW r \in Requests, NEW s \in Requests, Waits(r, s)
  PROVE  \/ req[r].pc \in Level1 /\ req[s].pc \in Level0
         \/ req[r].pc \in Level2 /\ req[s].pc \in Level0 \cup Level1
         \/ req[r].pc \in Level3 /\ req[s].pc \in Level0 \cup Level1 \cup Level2
<1> USE DEF Level0, Level1, Level2, Level3
<1>1. /\ Aware(req[r], inv, user) /\ Aware(req[s], inv, user) /\ r # s
  BY DEF IInv, AllAware, Waits
<1>2. ASSUME req[r].pc = "checked", HoldsUser(s, req[r].inv.target) PROVE FALSE
  <2> DEFINE p == req[r].inv.target
  <2>1. /\ req[r].code \in Codes /\ inv[req[r].code].target = p /\ p \in People
        /\ inv[req[r].code].status = "PENDING"
    BY <1>1, <1>2 DEF Aware, CenterLocks
  <2>2. ~user[p].approved
    BY <2>1 DEF IInv, OneCodeEach
  <2>3. req[s].pc # "admitting"
    BY <1>1, <1>2 DEF IInv, Exclusive, CenterLocks
  <2> QED  BY <1>1, <1>2, <2>2, <2>3 DEF HoldsUser, Aware, Upgrading
<1> QED  BY <1>1, <1>2 DEF Waits, HoldsCode, HoldsUser, HoldsCenter

\* No circle of waiting requests: the lock order of approving a code
\* (invitation, center, user) and that of upgrading a guest (user, invitation,
\* center) never meet in one person (approve_invitation,
\* GuestUpgradeSerializer.save).
THEOREM NobodyWaitsForEver == Spec => []NoDeadlock
<1>1. IInv => NoDeadlock
  <2> SUFFICES ASSUME IInv, NEW S \in SUBSET Requests, S # {}
               PROVE  \E r \in S : \A s \in S : ~Waits(r, s)
    BY DEF NoDeadlock
  <2> USE DEF Level0, Level1, Level2, Level3
  <2>0. \A r \in S : req[r].pc \in Level0 \cup Level1 \cup Level2 \cup Level3
    BY DEF IInv, TypeOK, Request
  <2>1. CASE \E r \in S : req[r].pc \in Level0
    BY <2>1, WaitsDown
  <2>2. CASE ~(\E r \in S : req[r].pc \in Level0) /\ \E r \in S : req[r].pc \in Level1
    BY <2>2, WaitsDown
  <2>3. CASE /\ ~(\E r \in S : req[r].pc \in Level0 \cup Level1)
             /\ \E r \in S : req[r].pc \in Level2
    BY <2>3, WaitsDown
  <2>4. CASE ~(\E r \in S : req[r].pc \in Level0 \cup Level1 \cup Level2)
    BY <2>4, WaitsDown
  <2> QED  BY <2>1, <2>2, <2>3, <2>4
<1> QED  BY <1>1, InvAlways, PTL

-----------------------------------------------------------------------------
(* Students stay students.                                                 *)

\* Teachers are neither upgraded nor mistaken for anybody else.
TeachersStay ==
  \A r \in Requests :
    /\ req[r].pc \in Upgrading => user[req[r].who].role # "TEACHER"
    /\ req[r].pc = "editing" =>
         (req[r].user.role = "TEACHER" <=> user[req[r].who].role = "TEACHER")

\* Accounts a request with p in hand can meet: only approved ones.
LEMMA ApprovedInHand ==
  ASSUME IInv, NEW s \in Requests, req[s].pc \in Upgrading \cup {"editing"}
  PROVE  req[s].who \in People /\ user[req[s].who].approved
<1>1. Aware(req[s], inv, user)
  BY DEF IInv, AllAware
<1> QED  BY <1>1 DEF Aware

LEMMA TeachersStayStep ==
  IInv /\ TeachersStay /\ [Next]_vars => TeachersStay'
<1> SUFFICES ASSUME IInv, TeachersStay, [Next]_vars PROVE TeachersStay'
  OBVIOUS
<1> USE DEF Upgrading
<1>0. user \in [People -> User] /\ req \in [Requests -> Request]
  BY DEF IInv, TypeOK
<1>1. ASSUME NEW r \in Requests, RequestStep(r) PROVE TeachersStay'
  <2>1. CASE \/ \E c \in Codes, p \in People : ValidateRegister(r, c, p)
             \/ LockCode(r)
             \/ \E c \in Codes : ValidateApprove(r, c)
             \/ JoinCode(r) \/ JoinCenter(r) \/ LockTarget(r) \/ Abort(r)
    <3> DEFINE Elsewhere == /\ UNCHANGED user /\ req' = [req EXCEPT ![r] = req'[r]]
                            /\ req'[r].pc \notin Upgrading \cup {"editing"}
    <3>1. ASSUME NEW c \in Codes, NEW p \in People, ValidateRegister(r, c, p)
          PROVE  Elsewhere
      BY <3>1, <1>0 DEF ValidateRegister, Proceed, Idle
    <3>2. ASSUME Finish(r), UNCHANGED user PROVE Elsewhere
      BY <3>2, <1>0 DEF Finish, Idle
    <3>3. ASSUME LockCode(r) PROVE Elsewhere
      BY <3>2, <3>3, <1>0 DEF LockCode, Refuse, Proceed, Request
    <3>4. ASSUME NEW c \in Codes, ValidateApprove(r, c) PROVE Elsewhere
      BY <3>4, <1>0 DEF ValidateApprove, Proceed, Idle
    <3>5. ASSUME JoinCode(r) \/ LockTarget(r) PROVE Elsewhere
      BY <3>5, <1>0 DEF JoinCode, LockTarget, Proceed, Request
    <3>6. ASSUME JoinCenter(r) PROVE Elsewhere
      BY <3>2, <3>6, <1>0 DEF JoinCenter, Refuse, Proceed, Request
    <3>7. Elsewhere
      BY <2>1, <3>1, <3>2, <3>3, <3>4, <3>5, <3>6 DEF Abort
    <3> QED  BY <3>7, <1>0 DEF TeachersStay
  <2>2. CASE \/ \E p \in People : ValidateUpgrade(r, p)
             \/ LockGuest(r) \/ ReadOld(r) \/ WriteOld(r)
    <3>1. /\ UNCHANGED user /\ req' = [req EXCEPT ![r] = req'[r]]
          /\ req'[r].pc \in Upgrading
          /\ \/ req[r].pc \in Upgrading /\ req'[r].who = req[r].who
             \/ user[req'[r].who].role = "GUEST"
      BY <2>2, <1>0 DEF ValidateUpgrade, LockGuest, ReadOld, WriteOld, Proceed, Idle,
         Request
    <3> QED  BY <3>1, <1>0 DEF TeachersStay
  <2>3. ASSUME NEW p \in People, LoadProfile(r, p) PROVE TeachersStay'
    <3>1. /\ UNCHANGED user /\ req' = [req EXCEPT ![r] = req'[r]]
          /\ req'[r].pc = "editing" /\ req'[r].who = p /\ req'[r].user = user[p]
      BY <2>3, <1>0 DEF LoadProfile, Proceed, Idle, Request
    <3> QED  BY <3>1, <1>0 DEF TeachersStay
  <2>4. ASSUME Finish(r), NEW p \in People,
               /\ user' = [user EXCEPT ![p] = user'[p]]
               /\ ~user[p].approved \/ (user'[p].role = "TEACHER" <=> user[p].role = "TEACHER")
        PROVE  TeachersStay'
    <3>1. req'[r].pc = "idle" /\ \A s \in Requests \ {r} : req'[s] = req[s]
      BY <2>4, <1>0, IdleRequest DEF Finish
    <3>2. \A o \in People : o # p => user'[o] = user[o]
      BY <2>4, <1>0
    <3> QED  BY <2>4, <3>1, <3>2, ApprovedInHand DEF TeachersStay
  <2>5. ASSUME UNCHANGED user, Finish(r) PROVE TeachersStay'
    BY <2>5, <1>0, IdleRequest DEF Finish, TeachersStay
  <2>6. CASE CreateUser(r)
    <3>1. Aware(req[r], inv, user) /\ req[r].pc = "claiming"
      BY <2>6 DEF CreateUser, IInv, AllAware
    <3>2. req[r].who \in People
      BY <3>1 DEF Aware, Registering
    <3>3. CASE user[req[r].who] = NoUser
      <4>1. /\ Finish(r) /\ ~user[req[r].who].approved
            /\ user' = [user EXCEPT ![req[r].who] = user'[req[r].who]]
        BY <2>6, <3>2, <3>3, <1>0 DEF CreateUser, NoUser
      <4> QED  BY <4>1, <3>2, <2>4
    <3>4. CASE user[req[r].who] # NoUser
      BY <2>6, <3>4, <2>5 DEF CreateUser, Refuse
    <3> QED  BY <3>3, <3>4
  <2>7. CASE Admit(r)
    <3>1. Aware(req[r], inv, user) /\ req[r].pc = "admitting"
      BY <2>7 DEF Admit, IInv, AllAware
    <3>2. /\ req[r].who \in People /\ req[r].code \in Codes
          /\ inv[req[r].code].target = req[r].who /\ inv[req[r].code].status = "PENDING"
      BY <3>1 DEF Aware, CenterLocks
    <3>3. ~user[req[r].who].approved
      BY <3>2 DEF IInv, OneCodeEach
    <3>4. Finish(r) /\ user' = [user EXCEPT ![req[r].who] = user'[req[r].who]]
      BY <2>7, <3>2, <1>0 DEF Admit
    <3> QED  BY <3>2, <3>3, <3>4, <2>4
  <2>8. ASSUME NEW d \in Codes, Upgrade(r, d) PROVE TeachersStay'
    <3>1. req[r].pc = "oldWritten" /\ req[r].who \in People
      BY <2>8, ApprovedInHand DEF Upgrade
    <3>2. /\ Finish(r) /\ user'[req[r].who].role = "STUDENT"
          /\ user' = [user EXCEPT ![req[r].who] = user'[req[r].who]]
      BY <2>8, <3>1, <1>0 DEF Upgrade
    <3>3. user[req[r].who].role # "TEACHER"
      BY <3>1 DEF TeachersStay
    <3> QED  BY <3>1, <3>2, <3>3, <2>4
  <2>9. CASE SaveProfile(r)
    <3>1. req[r].pc = "editing" /\ req[r].who \in People
      BY <2>9, ApprovedInHand DEF SaveProfile
    <3>2. /\ Finish(r) /\ user'[req[r].who] = req[r].user
          /\ user' = [user EXCEPT ![req[r].who] = user'[req[r].who]]
      BY <2>9, <3>1, <1>0 DEF SaveProfile
    <3>3. user'[req[r].who].role = "TEACHER" <=> user[req[r].who].role = "TEACHER"
      BY <3>1, <3>2 DEF TeachersStay
    <3> QED  BY <3>1, <3>2, <3>3, <2>4
  <2> QED  BY <1>1, <2>1, <2>2, <2>3, <2>6, <2>7, <2>8, <2>9 DEF RequestStep
<1>2. CASE UNCHANGED <<user, req>>
  BY <1>2 DEF TeachersStay
<1> QED  BY <1>1, <1>2 DEF Next, Issue, RunsOut, vars
\* The only thing that ever takes an approved student back is the save of a
\* profile read while the account was a guest's (MeView.update).
THEOREM StudentsStay == Spec => OnlyStaleProfilesDemote
<1>1. Init => TeachersStay
  BY DEF Init, TeachersStay, Idle, Upgrading
<1>2. ASSUME IInv, TeachersStay, [Next]_vars, NEW p \in People,
             user[p].role = "STUDENT", user[p].approved, user'[p] # user[p]
      PROVE  \E r \in Requests : /\ req[r].pc = "editing" /\ req[r].who = p
                                 /\ req[r].user.role = "GUEST"
  <2>0. /\ user \in [People -> User] /\ req \in [Requests -> Request]
        /\ \A r \in Requests : Aware(req[r], inv, user)
    BY <1>2 DEF IInv, TypeOK, AllAware
  <2>1. PICK r \in Requests :
          CreateUser(r) \/ Admit(r) \/ SaveProfile(r) \/ \E d \in Codes : Upgrade(r, d)
    BY <1>2 DEF Next, RequestStep, vars, ValidateRegister, LockCode, ValidateApprove,
       JoinCode, JoinCenter, LockTarget, ValidateUpgrade, LockGuest, ReadOld, WriteOld,
       LoadProfile, Abort, Issue, RunsOut, Proceed, Refuse
  <2>2. req[r].who = p
    BY <1>2, <2>0, <2>1 DEF CreateUser, Admit, SaveProfile, Upgrade, Refuse
  <2>3. ~CreateUser(r)
    BY <1>2, <2>2 DEF CreateUser, Refuse, NoUser
  <2>4. ~Admit(r)
    <3>1. req[r].pc = "admitting" =>
            /\ req[r].code \in Codes /\ inv[req[r].code].target = p
            /\ inv[req[r].code].status = "PENDING"
      BY <2>0, <2>2 DEF Aware, CenterLocks
    <3> QED  BY <1>2, <3>1 DEF Admit, IInv, OneCodeEach
  <2>5. ASSUME NEW d \in Codes, Upgrade(r, d) PROVE FALSE
    <3>1. user'[p] = [role |-> "STUDENT", approved |-> TRUE]
      BY <2>0, <2>2, <2>5 DEF Upgrade
    <3>2. user[p] = [role |-> "STUDENT", approved |-> TRUE]
      BY <1>2, <2>0 DEF User
    <3> QED  BY <1>2, <3>1, <3>2
  <2>6. SaveProfile(r)
    BY <2>1, <2>3, <2>4, <2>5
  <2>7. /\ req[r].pc = "editing" /\ req[r].user \in User /\ user'[p] = req[r].user
        /\ req[r].user.approved /\ req[r].user.role # "NONE"
    BY <1>2, <2>0, <2>2, <2>6 DEF SaveProfile, Aware, Request
  <2>8. req[r].user.role # "TEACHER"
    BY <1>2, <2>2, <2>7 DEF TeachersStay
  <2>9. req[r].user.role # "STUDENT"
    <3>1. ASSUME req[r].user.role = "STUDENT" PROVE FALSE
      <4>1. req[r].user = [role |-> "STUDENT", approved |-> TRUE]
        BY <2>7, <3>1 DEF User
      <4>2. user[p] = [role |-> "STUDENT", approved |-> TRUE]
        BY <1>2, <2>0 DEF User
      <4> QED  BY <1>2, <2>7, <4>1, <4>2
    <3> QED  BY <3>1
  <2> QED  BY <2>2, <2>7, <2>8, <2>9 DEF User
<1>3. IInv /\ TeachersStay /\ [Next]_vars =>
        [\A p \in People :
           user[p].role = "STUDENT" /\ user[p].approved /\ user'[p] # user[p]
           => \E r \in Requests : /\ req[r].pc = "editing" /\ req[r].who = p
                                  /\ req[r].user.role = "GUEST"]_vars
  BY <1>2
<1> QED  BY <1>1, <1>3, TeachersStayStep, InvAlways, PTL DEF Spec, OnlyStaleProfilesDemote

-----------------------------------------------------------------------------
(* The requests implement the voucher.                                     *)

LEMMA PhaseOf ==
  /\ Phase(NoInvitation) = "absent"
  /\ \A i \in Invitation :
       /\ i.status = "PENDING" /\ i.target = NoOne => Phase(i) = "open"
       /\ i.status = "PENDING" /\ i.target # NoOne => Phase(i) = "claimed"
       /\ i.status = "APPROVED" /\ i.target # NoOne => Phase(i) = "used"
       /\ i.status = "APPROVED" /\ i.target = NoOne => Phase(i) = "spent"
       /\ i.status = "EXPIRED" /\ i.target # NoOne => Phase(i) = "void"
       /\ i.status = "EXPIRED" /\ i.target = NoOne => Phase(i) = "spent"
BY DEF Phase, NoInvitation

\* What a step leaves alone it leaves alone in the voucher.
LEMMA SameVoucher ==
  UNCHANGED inv => UNCHANGED Voucher!voucher
BY DEF Voucher!voucher, phases, holders

\* A step that rewrites one code rewrites its phase and its holder.
LEMMA OneCodeChanges ==
  ASSUME inv \in [Codes -> Invitation], NEW c \in Codes, NEW i \in Invitation,
         inv' = [inv EXCEPT ![c] = i]
  PROVE  /\ phases' = [phases EXCEPT ![c] = Phase(i)]
         /\ holders' = [holders EXCEPT ![c] = i.target]
         /\ i.target = inv[c].target => holders' = holders
BY DEF phases, holders

LEMMA VoucherIssue ==
  ASSUME IInv, NEW c \in Codes, NEW role \in {"TEACHER", "STUDENT"},
         NEW guest \in BOOLEAN, Issue(c, role, guest)
  PROVE  Voucher!Issue(c)
<1> DEFINE i == [status |-> "PENDING", role |-> role, guest |-> guest,
                 target |-> NoOne]
<1>1. /\ inv \in [Codes -> Invitation] /\ i \in Invitation /\ inv[c] = NoInvitation
      /\ inv' = [inv EXCEPT ![c] = i] /\ inv[c].target = NoOne
  BY DEF Issue, IInv, TypeOK, Invitation, NoInvitation
<1>2. phases[c] = "absent" /\ Phase(i) = "open" /\ i.target = NoOne
  BY <1>1, PhaseOf DEF phases
<1> HIDE DEF i
<1> QED  BY <1>1, <1>2, OneCodeChanges DEF Voucher!Issue

LEMMA VoucherClaim ==
  ASSUME IInv, NEW r \in Requests, CreateUser(r), inv' # inv
  PROVE  \E c \in Codes, p \in People : Voucher!Claim(c, p) \/ Voucher!ClaimInVain(c, p)
<1> DEFINE c == req[r].code
           p == req[r].who
           i == [inv[c] EXCEPT !.target = p]
<1>1. /\ inv \in [Codes -> Invitation] /\ req[r].pc = "claiming"
      /\ Aware(req[r], inv, user) /\ user[p] = NoUser
      /\ inv' = [inv EXCEPT ![c].target = p]
  BY DEF CreateUser, Refuse, IInv, TypeOK, AllAware
<1>2. /\ c \in Codes /\ p \in People /\ p # NoOne
      /\ inv[c].target = NoOne /\ inv[c].status # "NONE"
  BY <1>1, NamesAssumption DEF Aware, Registering
<1>3. /\ i \in Invitation /\ i.target = p /\ i.status = inv[c].status
      /\ inv' = [inv EXCEPT ![c] = i]
  BY <1>1, <1>2 DEF Invitation
<1>4. inv[c].status # "APPROVED"
  BY <1>1, <1>2 DEF IInv, LateClaimsVain, Unregistered, Registering
<1>5. inv[c].status \in {"PENDING", "EXPIRED"}
  BY <1>1, <1>2, <1>4 DEF Invitation
<1>6. Voucher!HoldsNone(p)
  BY <1>1, <1>2 DEF IInv, OneCodeEach, Voucher!HoldsNone, holders
<1> HIDE DEF c, p, i
<1>7. phases' = [phases EXCEPT ![c] = Phase(i)] /\ holders' = [holders EXCEPT ![c] = p]
  BY <1>1, <1>2, <1>3, OneCodeChanges
<1>8. inv[c] \in Invitation /\ phases[c] = Phase(inv[c])
  BY <1>1, <1>2 DEF phases
<1>9. CASE inv[c].status = "PENDING"
  <2>1. phases[c] = "open" /\ Phase(i) = "claimed"
    BY <1>2, <1>3, <1>8, <1>9, PhaseOf
  <2>2. Voucher!Claim(c, p)
    BY <1>6, <1>7, <2>1 DEF Voucher!Claim, Voucher!Take
  <2> QED  BY <1>2, <2>2
<1>10. CASE inv[c].status = "EXPIRED"
  <2>1. phases[c] = "spent" /\ Phase(i) = "void"
    BY <1>2, <1>3, <1>8, <1>10, PhaseOf
  <2>2. Voucher!ClaimInVain(c, p)
    BY <1>6, <1>7, <2>1 DEF Voucher!ClaimInVain, Voucher!Take
  <2> QED  BY <1>2, <2>2
<1> QED  BY <1>5, <1>9, <1>10

LEMMA VoucherUse ==
  ASSUME IInv, NEW r \in Requests, Admit(r)
  PROVE  \E c \in Codes : Voucher!Use(c)
<1> DEFINE c == req[r].code
           i == [inv[c] EXCEPT !.status = "APPROVED"]
<1>1. /\ inv \in [Codes -> Invitation] /\ req[r].pc = "admitting"
      /\ Aware(req[r], inv, user) /\ inv' = [inv EXCEPT ![c].status = "APPROVED"]
  BY DEF Admit, IInv, TypeOK, AllAware
<1>2. /\ c \in Codes /\ inv[c].target \in People /\ inv[c].status = "PENDING"
      /\ inv[c] \in Invitation /\ phases[c] = Phase(inv[c])
  BY <1>1 DEF Aware, CenterLocks, phases
<1>3. /\ i \in Invitation /\ i.target = inv[c].target /\ i.status = "APPROVED"
      /\ inv' = [inv EXCEPT ![c] = i]
  BY <1>1, <1>2 DEF Invitation
<1> HIDE DEF c, i
<1>4. phases[c] = "claimed" /\ Phase(i) = "used"
  BY <1>2, <1>3, PhaseOf, NamesAssumption
<1>5. phases' = [phases EXCEPT ![c] = Phase(i)] /\ holders' = holders
  BY <1>1, <1>2, <1>3, OneCodeChanges
<1> QED  BY <1>2, <1>4, <1>5 DEF Voucher!Use

LEMMA VoucherSwap ==
  ASSUME IInv, NEW r \in Requests, NEW d \in Codes, Upgrade(r, d)
  PROVE  \E c \in Codes : Voucher!Swap(c, d)
<1> DEFINE c == req[r].code
           p == req[r].who
<1>1. /\ inv \in [Codes -> Invitation] /\ req[r].pc = "oldWritten"
      /\ Aware(req[r], inv, user) /\ inv[d] = NoInvitation
      /\ inv' = [e \in Codes |-> IF e = d THEN NewInvitation(p)
                                 ELSE IF e = c THEN GivenUp(req[r].inv)
                                 ELSE inv[e]]
  BY DEF Upgrade, IInv, TypeOK, AllAware
<1>2. /\ c \in Codes /\ p \in People /\ p # NoOne /\ user[p].approved
      /\ inv[c].target = p /\ req[r].inv = inv[c] /\ inv[c] \in Invitation
  BY <1>1, NamesAssumption DEF Aware, Upgrading
<1>3. inv[c].status = "APPROVED"
  BY <1>2 DEF IInv, OneCodeEach, NoUser
<1>4. c # d
  BY <1>1, <1>2 DEF NoInvitation
<1>5. /\ GivenUp(inv[c]) \in Invitation /\ GivenUp(inv[c]).target = NoOne
      /\ GivenUp(inv[c]).status \in {"APPROVED", "EXPIRED"}
      /\ NewInvitation(p) \in Invitation /\ NewInvitation(p).target = p
      /\ NewInvitation(p).status = "APPROVED"
  BY <1>2, <1>3 DEF GivenUp, NewInvitation, Invitation
<1> HIDE DEF c, p
<1>6. /\ phases[c] = "used" /\ phases[d] = "absent" /\ holders[c] = p
      /\ Phase(GivenUp(inv[c])) = "spent" /\ Phase(NewInvitation(p)) = "used"
  BY <1>1, <1>2, <1>3, <1>5, PhaseOf DEF phases, holders
<1>7. /\ phases' = [e \in Codes |-> IF e = d THEN "used" ELSE IF e = c THEN "spent"
                                    ELSE phases[e]]
      /\ holders' = [e \in Codes |-> IF e = d THEN p ELSE IF e = c THEN NoOne
                                     ELSE holders[e]]
  BY <1>1, <1>2, <1>5, <1>6 DEF phases, holders
<1>8. /\ phases' = [phases EXCEPT ![c] = "spent", ![d] = "used"]
      /\ holders' = [holders EXCEPT ![c] = NoOne, ![d] = holders[c]]
  <2>1. phases = [e \in Codes |-> phases[e]] /\ holders = [e \in Codes |-> holders[e]]
    BY DEF phases, holders
  <2> QED  BY <1>2, <1>4, <1>6, <1>7, <2>1
<1> QED  BY <1>2, <1>6, <1>8 DEF Voucher!Swap

\* The requests, with their locks and their copies, do to the codes only what a
\* voucher allows: one claim each, one use each, a swap for the upgraded guest,
\* and nothing but a void claim after it (RegisterSerializer.create,
\* approve_invitation, GuestUpgradeSerializer.save).
THEOREM RequestsKeepVouchers == Spec => VoucherKept
<1>1. Init => Voucher!Init
  BY PhaseOf DEF Init, Voucher!Init, phases, holders, NoInvitation
<1>2. IInv /\ [Next]_vars => [Voucher!Next]_(Voucher!voucher)
  <2> SUFFICES ASSUME IInv, [Next]_vars, inv' # inv PROVE Voucher!Next
    BY SameVoucher
  <2>1. ASSUME NEW r \in Requests, RequestStep(r) PROVE Voucher!Next
    <3>1. CreateUser(r) \/ Admit(r) \/ \E d \in Codes : Upgrade(r, d)
      BY <2>1 DEF RequestStep, ValidateRegister, LockCode, ValidateApprove,
         JoinCode, JoinCenter, LockTarget, ValidateUpgrade, LockGuest, ReadOld, WriteOld,
         LoadProfile, SaveProfile, Abort, Proceed, Refuse
    <3>2. ASSUME CreateUser(r) PROVE Voucher!Next
      BY <3>2, VoucherClaim DEF Voucher!Next
    <3>3. ASSUME Admit(r) PROVE Voucher!Next
      BY <3>3, VoucherUse DEF Voucher!Next
    <3>4. ASSUME NEW d \in Codes, Upgrade(r, d) PROVE Voucher!Next
      BY <3>4, VoucherSwap DEF Voucher!Next
    <3> QED  BY <3>1, <3>2, <3>3, <3>4
  <2>2. ASSUME NEW c \in Codes, NEW role \in {"TEACHER", "STUDENT"},
               NEW guest \in BOOLEAN, Issue(c, role, guest)
        PROVE  Voucher!Next
    BY <2>2, VoucherIssue DEF Voucher!Next
  <2>3. ASSUME NEW c \in Codes, RunsOut(c) PROVE Voucher!Next
    BY <2>3 DEF RunsOut
  <2> QED  BY <2>1, <2>2, <2>3 DEF Next, vars
<1>3. Spec => Voucher!Spec
  BY <1>1, <1>2, InvAlways, PTL DEF Spec, Voucher!Spec
<1> QED  BY <1>3 DEF VoucherKept
=============================================================================
