--------------------------- MODULE MCServiceRequest ---------------------------
(* One client's request through its whole life, and two clients competing  *)
(* for the places of the schedule.  Requests meet in the appointment book  *)
(* only, so a second one joins only while both are reviews whose work has  *)
(* not begun, and a request by itself needs one place and one time only.   *)
EXTENDS ServiceRequest, TLC

CONSTANTS
    FirstSlot,    \* the time and the channel of a request by itself
    FirstChannel

Alone ==
    \E r \in Requests :
        /\ \A q \in Requests \ {r} : requests[q].status = "none"
        /\ bookings[r].slot \in {FirstSlot, None}
        /\ bookings[r].channel \in {FirstChannel, None}

Competing ==
    \A r \in Requests :
        /\ requests[r].type \in {"contract_review", None}
        /\ requests[r].status \in {"none", "awaiting_payment", "new", "cancelled"}
        /\ requests[r].final = "none" /\ attempts[r] = {}
        /\ \A e \in doing[r] : e.what = "upload"

AloneOrCompeting == Alone \/ Competing

SameClients == Permutations(Requests)
===============================================================================
