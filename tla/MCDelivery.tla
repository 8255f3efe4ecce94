------------------------------ MODULE MCDelivery ------------------------------
(***************************************************************************)
(* Values for the constants of DeliveryCycles.                             *)
(***************************************************************************)
EXTENDS DeliveryCycles, TLC

\* Process slots are interchangeable.
Symmetry == Permutations(Process)

=============================================================================
