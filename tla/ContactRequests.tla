-------------------------- MODULE ContactRequests --------------------------
(***************************************************************************)
(* The centers app, with the contact requests of the landing page beside   *)
(* the centers: whoever wants to join leaves a phone number, without an    *)
(* account, and the owners answer.                                         *)
(*                                                                         *)
(* Whether a number has a request that waits for an answer is looked up    *)
(* before the row is inserted, and no constraint backs it; an answer saves *)
(* the whole row that was loaded, deleted_at too.                          *)
(***************************************************************************)
EXTENDS Centers

CONSTANTS
  Phones,      \* phone numbers; what else is sent plays no part
  ContactKeys  \* primary keys of contact requests, each given out once (a bound)

VARIABLES
  contact,  \* contact[k]: the row of table contact requests with key k, or None
  told,     \* the rows the owners have been told of
  form      \* form[q]: what a request does with a contact request

desk == <<contact, told, form>>

-----------------------------------------------------------------------------
STATUS_CHOICES == {"PENDING", "CONTACTED", "RESOLVED", "REJECTED"}
Contact == [phone : Phones, status : STATUS_CHOICES, alive : BOOLEAN]

ASSUME ContactsAssumption == IsFiniteSet(Phones) /\ None \notin Contact

Form == [op : {"insert"}, phone : Phones] \cup [op : {"tell", "delete"}, id : ContactKeys]
        \cup [op : {"patch"}, id : ContactKeys, row : Contact]
NoForm == [op |-> "none"]

Kept(k)   == contact[k] # None /\ contact[k].alive
DeskQuiet == \A q \in Requests : form[q] = NoForm

MayAsk(q, k) ==
  /\ form[q] = NoForm /\ k \in traffic.kinds
  /\ k \in traffic.alone => DeskQuiet

OnlyPending(p) ==   \* fault: who has been called may ask again
  {k \in ContactKeys : Kept(k) /\ contact[k].phone = p /\ contact[k].status = "PENDING"}

\* "Check duplicates": the requests of a number that wait for an answer.
Existing(p) ==
  {k \in ContactKeys : /\ Kept(k) /\ contact[k].phone = p
                       /\ contact[k].status \in {"PENDING", "CONTACTED"}}

\* ContactRequestCreateSerializer.validate.
Ask(q, p) ==
  /\ MayAsk(q, "contact")
  /\ Existing(p) = {}
  /\ form' = [form EXCEPT ![q] = [op |-> "insert", phone |-> p]]
  /\ UNCHANGED <<contact, told>>

\* The INSERT, which commits before the post_save signals.
InsertContact(q, k) ==
  /\ form[q].op = "insert" /\ contact[k] = None
  /\ contact' = [contact EXCEPT ![k] =
       [phone |-> form[q].phone, status |-> "PENDING", alive |-> TRUE]]
  /\ form' = [form EXCEPT ![q] = [op |-> "tell", id |-> k]]
  /\ UNCHANGED told

\* The owners are told by push messages only.
TellOwners(q) ==
  /\ form[q].op = "tell"
  /\ told' = told \cup {form[q].id}
  /\ form' = [form EXCEPT ![q] = NoForm]
  /\ UNCHANGED contact

\* PATCH by an owner, with any status: an answered request may be reopened.
LoadAnswer(q, k, st) ==
  /\ MayAsk(q, "answer") /\ Kept(k)
  /\ st \in {"PENDING", "CONTACTED"} /\ contact[k].status \in {"RESOLVED", "REJECTED"}
       => "reopen" \in traffic.kinds
  /\ form' = [form EXCEPT ![q] =
       [op |-> "patch", id |-> k, row |-> [contact[k] EXCEPT !.status = st]]]
  /\ UNCHANGED <<contact, told>>

SaveAnswer(q) ==
  /\ form[q].op = "patch"
  /\ contact' = [contact EXCEPT ![form[q].id] = form[q].row]
  /\ form' = [form EXCEPT ![q] = NoForm]
  /\ UNCHANGED told

LoadDismissal(q, k) ==
  /\ MayAsk(q, "dismiss") /\ Kept(k)
  /\ form' = [form EXCEPT ![q] = [op |-> "delete", id |-> k]]
  /\ UNCHANGED <<contact, told>>

\* soft_delete writes one column.
SaveDismissal(q) ==
  /\ form[q].op = "delete"
  /\ contact' = [contact EXCEPT ![form[q].id].alive = FALSE]
  /\ form' = [form EXCEPT ![q] = NoForm]
  /\ UNCHANGED told

\* A killed worker, or an exception of a signal handler, which leaves the row:
\* the visitor gets an error, and may not try again.
FormFails(q) ==
  /\ "contact" \in traffic.kinds /\ form[q] # NoForm
  /\ form' = [form EXCEPT ![q] = NoForm]
  /\ UNCHANGED <<contact, told>>

-----------------------------------------------------------------------------
DeskInit ==
  /\ contact = [k \in ContactKeys |-> None] /\ told = {}
  /\ form = [q \in Requests |-> NoForm]

FormStep(q) ==
  \/ \E p \in Phones : Ask(q, p)
  \/ \E k \in ContactKeys : InsertContact(q, k) \/ LoadDismissal(q, k)
  \/ \E k \in ContactKeys, st \in STATUS_CHOICES : LoadAnswer(q, k, st)
  \/ TellOwners(q) \/ SaveAnswer(q) \/ SaveDismissal(q) \/ FormFails(q)

\* The app: its centers and, beside them, its contact requests.
AppInit == Init /\ DeskInit
AppNext == \/ Next /\ UNCHANGED desk
           \/ (\E q \in Requests : FormStep(q)) /\ UNCHANGED vars

AppSpec == AppInit /\ [][AppNext]_<<vars, desk>> /\ Fairness

-----------------------------------------------------------------------------
(* Properties.                                                             *)

Waits(k) ==
  contact[k] # None /\ contact[k].alive /\ contact[k].status \notin {"RESOLVED", "REJECTED"}

\* "You have already contacted us": a number waits for one answer at a time,
\* though requests fail half way, the owners overtake each other and a dismissed
\* one comes back with an answer that was loaded before, as long as a visitor
\* comes when nothing is going on and nobody reopens what was answered.
OneOpenRequest ==
  "contact" \in traffic.alone /\ "reopen" \notin traffic.kinds =>
    \A j, k \in ContactKeys :
      Waits(j) /\ Waits(k) /\ contact[j].phone = contact[k].phone => j = k

\* The same for visitors who overlap, with each other or with the owners.
OneOpenRequestAlways ==
  "reopen" \notin traffic.kinds =>
    \A j, k \in ContactKeys :
      Waits(j) /\ Waits(k) /\ contact[j].phone = contact[k].phone => j = k
=============================================================================
