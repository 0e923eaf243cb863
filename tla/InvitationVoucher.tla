------------------------- MODULE InvitationVoucher -------------------------
(***************************************************************************)
(* What the centers app promises of an invitation code, with no requests,  *)
(* locks or rows.  A code is a voucher that lets one person in: it is      *)
(* issued, claimed by a person who holds no other code, and used once.  A  *)
(* guest's code is swapped for a new, used one and spent for ever; a claim *)
(* that comes too late to a spent code is void and never lets anybody in.  *)
(***************************************************************************)
CONSTANTS Codes, People, NoOne

VARIABLES
  phase,   \* phase[c]: "absent", "open", "claimed", "used", "spent" or "void"
  holder   \* holder[c]: whose code it is

voucher == <<phase, holder>>

Init ==
  /\ phase = [c \in Codes |-> "absent"]
  /\ holder = [c \in Codes |-> NoOne]

HoldsNone(p) == \A c \in Codes : holder[c] # p

Issue(c) ==
  /\ phase[c] = "absent"
  /\ phase' = [phase EXCEPT ![c] = "open"]
  /\ UNCHANGED holder

Take(c, p, before, after) ==
  /\ phase[c] = before /\ HoldsNone(p)
  /\ phase' = [phase EXCEPT ![c] = after]
  /\ holder' = [holder EXCEPT ![c] = p]

Claim(c, p) == Take(c, p, "open", "claimed")
ClaimInVain(c, p) == Take(c, p, "spent", "void")

Use(c) ==
  /\ phase[c] = "claimed"
  /\ phase' = [phase EXCEPT ![c] = "used"]
  /\ UNCHANGED holder

Swap(c, d) ==
  /\ phase[c] = "used" /\ phase[d] = "absent"
  /\ phase' = [phase EXCEPT ![c] = "spent", ![d] = "used"]
  /\ holder' = [holder EXCEPT ![c] = NoOne, ![d] = holder[c]]

Next ==
  \E c \in Codes :
    \/ Issue(c) \/ Use(c)
    \/ \E p \in People : Claim(c, p) \/ ClaimInVain(c, p)
    \/ \E d \in Codes : Swap(c, d)

Spec == Init /\ [][Next]_voucher
=============================================================================
