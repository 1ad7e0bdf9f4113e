--------------------------- MODULE MCDristyPipeline ---------------------------
(* Two objects that can take each other's place; no liveness is checked, so   *)
(* that exchanging them is sound.                                             *)
EXTENDS DristyPipeline, TLC

CONSTANTS o1, o2

MCObjects == {o1, o2}

ObjectSymmetry == Permutations(MCObjects)

=============================================================================
