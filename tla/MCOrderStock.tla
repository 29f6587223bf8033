---------------------------- MODULE MCOrderStock ----------------------------
(* Instances of OrderStock for TLC.                                        *)
EXTENDS OrderStock, TLC

\* Variants are interchangeable, and so are the ids of replacements.
Symmetry == Permutations(Variants) \cup Permutations(Orders \ Placeable)
=============================================================================
