---------------------------- MODULE DurableSetting ----------------------------
(***************************************************************************)
(* What the settings store promises over power failures: the value a       *)
(* restart would find is the last one a save was acknowledged for, or one  *)
(* of an attempt made since; it is never older, and never a mixture.       *)
(***************************************************************************)
CONSTANT Values

VARIABLES
  durable,   \* what a restart would find
  acked,     \* the last acknowledged value, or what the last restart found
  attempts   \* values of saves begun since that were not acknowledged

vars == <<durable, acked, attempts>>

Init == durable \in Values /\ acked = durable /\ attempts = {}

Attempt(v) == attempts' = attempts \cup {v} /\ UNCHANGED <<durable, acked>>

\* Some attempts may come to nothing, some may have reached the medium.
Settle ==
  /\ attempts' \in SUBSET attempts
  /\ durable' \in {acked} \cup attempts'
  /\ UNCHANGED acked

Acknowledge ==
  /\ durable \in attempts
  /\ acked' = durable
  /\ attempts' = {}
  /\ UNCHANGED durable

Restart ==
  /\ durable' \in {acked} \cup attempts
  /\ acked' = durable'
  /\ attempts' = {}

Next == (\E v \in Values : Attempt(v)) \/ Settle \/ Acknowledge \/ Restart

Spec == Init /\ [][Next]_vars
===============================================================================
