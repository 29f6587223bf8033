------------------------------ MODULE MCOutbox ------------------------------
(* Instances of Outbox for TLC.                                            *)
EXTENDS Outbox, TLC

\* Dispatchers, workers and events are each interchangeable (safety runs only).
Symmetry == Permutations(Dispatchers) \cup Permutations(Workers) \cup Permutations(Events)
=============================================================================
