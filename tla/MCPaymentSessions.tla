------------------------- MODULE MCPaymentSessions -------------------------
(* Instances of PaymentSessions for TLC.                                   *)
EXTENDS PaymentSessions, TLC

Symmetry == Permutations(Sessions) \cup Permutations(OrderIds \ Existing) \cup Permutations(Handlers)
=============================================================================
