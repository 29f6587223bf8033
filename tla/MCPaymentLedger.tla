-------------------------- MODULE MCPaymentLedger --------------------------
(* Instances of PaymentLedger for TLC.                                     *)
EXTENDS PaymentLedger, TLC

Symmetry == Permutations(PaymentIds) \cup Permutations(RefundIds) \cup Permutations(Attempts)
=============================================================================
