--------------------------- MODULE MCCapabilityCore ---------------------------
(* An exclusive provider bound to hart 0, with every callback (the external
   link), and a shared one that cannot be recovered (the lights). *)
EXTENDS CapabilityCore

MCProviders == {"link", "lights"}

MCInfo ==
  [p \in MCProviders |->
     CASE p = "link" ->
            [version |-> 1, features |-> {"uart"}, affinity |-> 0,
             exclusive |-> TRUE, max_leases |-> 2,
             operations |-> {"cleanup_lease", "cleanup", "cleanup_dispatch",
                             "recover"}]
       [] p = "lights" ->
            [version |-> 1, features |-> {}, affinity |-> AnyCore,
             exclusive |-> FALSE, max_leases |-> 2,
             operations |-> {"cleanup"}]]

Ask(p, features) ==
  [provider |-> p, minimum |-> 1, maximum |-> 2, features |-> features]

MCRequests == {Ask("link", {"uart"}), Ask("lights", {})}

MCGrantSets == {{Ask("link", {"uart"}), Ask("lights", {})}, {Ask("lights", {})}}
===============================================================================
