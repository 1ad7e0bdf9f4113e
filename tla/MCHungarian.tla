----------------------------- MODULE MCHungarian -----------------------------
(* Matrices up to 3 x 3; two finite costs are enough for a track to prefer    *)
(* one detection and for two tracks to compete for it.                        *)
EXTENDS Hungarian

MCSizes == {1, 2, 3}

MCCosts(k) == {2, 5}

=============================================================================
