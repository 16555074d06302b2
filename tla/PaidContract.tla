----------------------------- MODULE PaidContract -----------------------------
(***************************************************************************)
(* What a client and the office count on of a contract that is paid for,   *)
(* whichever way its price is answered for: a bill is settled while it is  *)
(* open, once, and is closed by it; the price may also be waived or        *)
(* collected; who answers for it never stops to; a contract is made final  *)
(* only when somebody does; and a deleted contract is neither settled nor  *)
(* made final.  A late write may take back what is final, bill it again,   *)
(* or waive what was deleted, but that undoes no settlement.               *)
(* ContractBilling is shown to implement it.                               *)
(***************************************************************************)
CONSTANT Contracts

VARIABLES
    phase,    \* what has become of each contract
    covered,  \* whether somebody answers for its price
    settled   \* the settlements of its bills

vars == <<phase, covered, settled>>

Phases == {"open", "billed", "final", "deleted"}

(* The office's own contracts, and those it waives, are covered from the   *)
(* start.                                                                  *)
Init ==
    /\ phase = [c \in Contracts |-> "open"]
    /\ covered \in [Contracts -> BOOLEAN]
    /\ settled = [c \in Contracts |-> {}]

-----------------------------------------------------------------------------

Turns(c, from, to) == phase[c] \in from /\ phase' = [phase EXCEPT ![c] = to]
Covers(c) == covered' = [covered EXCEPT ![c] = TRUE]

Bill(c) == Turns(c, Phases \ {"deleted"}, "billed") /\ UNCHANGED <<covered, settled>>

Settle(c) ==
    /\ Turns(c, {"billed"}, "open")
    /\ Covers(c)
    /\ \E n \in settled'[c] \ settled[c] : settled' = [settled EXCEPT ![c] = @ \cup {n}]

(* A waiver or a collection, which closes an open bill.  A waiver decided  *)
(* before a deletion may come after it, and brings nothing back.           *)
Provide(c) ==
    /\ Turns(c, Phases, IF phase[c] = "billed" THEN "open" ELSE phase[c])
    /\ Covers(c)
    /\ UNCHANGED settled

Finish(c) ==
    /\ covered[c]
    /\ Turns(c, Phases \ {"deleted"}, "final")
    /\ UNCHANGED <<covered, settled>>

Reopen(c) == Turns(c, Phases \ {"deleted"}, "open") /\ UNCHANGED <<covered, settled>>

Delete(c) == Turns(c, Phases, "deleted") /\ UNCHANGED <<covered, settled>>

Next ==
    \E c \in Contracts :
        Bill(c) \/ Settle(c) \/ Provide(c) \/ Finish(c) \/ Reopen(c) \/ Delete(c)

Spec == Init /\ [][Next]_vars
=============================================================================
