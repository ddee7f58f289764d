------------------------------ MODULE MCLease ------------------------------
(* Small instances of Lease: two gateways, a lease of six or nine units,   *)
(* and a store that answers at once or within one unit.                    *)
EXTENDS Lease, TLC

CONSTANTS g1, g2

Twins == Permutations(Gateway)
=============================================================================
