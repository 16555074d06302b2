-------------------------- MODULE MCPaymentGateway --------------------------
(* Instance for TLC: two providers, one target that may ask for either of  *)
(* two amounts, and two checkout requests that may overlap.                *)
EXTENDS PaymentGateway, TLC

CONSTANTS paymob, kashier, contract, base, full, c1, c2

MCProviders == {paymob, kashier}
MCTargets   == {contract}
MCDues      == {base, full}
MCCalls     == {c1, c2}

Symmetry == Permutations({c1, c2}) \cup Permutations({paymob, kashier}) \cup Permutations({base, full})

=============================================================================
