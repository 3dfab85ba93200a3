--------------------------- MODULE ExchangeAgreement ---------------------------
(***************************************************************************)
(* What two organizations are promised about one exchange, whatever the    *)
(* network and the crashes do: the receiver decides at most once, only     *)
(* about something that was offered, and the originator never comes to     *)
(* believe anything but the receiver's decision.  It may never learn it.   *)
(***************************************************************************)
CONSTANT Exchange

VARIABLE phase

Phase == {"idle", "offered", "approved", "denied", "approvalKnown", "denialKnown"}

TypeOK == phase \in [Exchange -> Phase]

Init == phase = [x \in Exchange |-> "idle"]

\* One transition may be offered to several participants at once.
Offer ==
  /\ phase' \in [Exchange -> Phase]
  /\ \A x \in Exchange :
       phase'[x] # phase[x] => phase[x] = "idle" /\ phase'[x] = "offered"

Move(x, from, to) ==
  /\ phase[x] = from
  /\ phase' = [phase EXCEPT ![x] = to]

Next ==
  \/ Offer
  \/ \E x \in Exchange :
       \/ Move(x, "offered", "approved")
       \/ Move(x, "offered", "denied")
       \/ Move(x, "approved", "approvalKnown")
       \/ Move(x, "denied", "denialKnown")

Spec == Init /\ [][Next]_phase
=============================================================================
