------------------------------ MODULE PaidService ------------------------------
(***************************************************************************)
(* What a client and the office count on of a paid service, whatever       *)
(* happens to its appointment, receipts and payment pages: work begins when*)
(* the deposit is in, and the deposit is one payment of its price; the     *)
(* balance is asked for while something is missing and is paid in as many  *)
(* payments as it takes; what was paid is never taken back and nothing is  *)
(* paid that was not asked for; a service ends as completed only when it is*)
(* paid in full.  A decision of the client that arrives late may reopen or *)
(* complete a service that has moved on, but no service that is unpaid.    *)
(* ServiceRequest is shown to implement it.                                *)
(***************************************************************************)
EXTENDS Naturals

CONSTANTS
    Services,
    Deposit,  \* the price of beginning
    Total     \* the price of the whole

VARIABLES
    phase,  \* what has become of each service
    paid    \* what its client has paid

vars == <<phase, paid>>

Init == phase = [s \in Services |-> "none"] /\ paid = [s \in Services |-> 0]

-----------------------------------------------------------------------------

Turns(s, from, to) == phase[s] \in from /\ phase' = [phase EXCEPT ![s] = to]
Paid(s, amount) == amount > paid[s] /\ paid' = [paid EXCEPT ![s] = amount]

Order(s) == Turns(s, {"none"}, IF Deposit > 0 THEN "deposit" ELSE "open") /\ UNCHANGED paid

PayDeposit(s) == paid[s] = 0 /\ Paid(s, Deposit) /\ Turns(s, {"deposit"}, "open")

AskBalance(s) == paid[s] < Total /\ Turns(s, {"open"}, "balance") /\ UNCHANGED paid

PayBalance(s) ==
    /\ Paid(s, paid'[s])
    /\ Turns(s, {"balance"}, IF paid'[s] >= Total THEN "open" ELSE "balance")

Complete(s) == paid[s] >= Total /\ Turns(s, {"open", "cancelled"}, "completed") /\ UNCHANGED paid

Cancel(s) == Turns(s, {"deposit", "open", "balance"}, "cancelled") /\ UNCHANGED paid

Reopen(s) ==
    /\ paid[s] >= Deposit
    /\ Turns(s, {"balance", "completed", "cancelled"}, "open")
    /\ UNCHANGED paid

Next ==
    \E s \in Services :
        \/ Order(s) \/ PayDeposit(s) \/ AskBalance(s) \/ PayBalance(s)
        \/ Complete(s) \/ Cancel(s) \/ Reopen(s)

Spec == Init /\ [][Next]_vars
=============================================================================
