----------------------------- MODULE LeaseRegistry -----------------------------
(***************************************************************************)
(* What the capability core promises its consumers, without slots,         *)
(* generations or counters: owners and leases have identities that are     *)
(* never issued twice, a lease dies with its owner, a provider is never    *)
(* leased past its limit, and nothing is leased from a provider that is    *)
(* quarantined until it has been recovered with no lease left on it.       *)
(***************************************************************************)
EXTENDS Integers, FiniteSets

CONSTANTS
  OwnerIds,    \* the identities an owner can be given
  LeaseIds,    \* the identities a lease can be given
  Providers,
  Limit        \* Limit[p]: how many leases p bears at once

VARIABLES
  open,          \* the owners that are open
  owners_issued, \* every owner ever issued
  held,          \* the leases that are live
  leases_issued, \* every lease identity ever issued
  quarantined    \* the providers nothing may be leased from

Lease == [id : LeaseIds, owner : OwnerIds, provider : Providers]

vars == <<open, owners_issued, held, leases_issued, quarantined>>

Init ==
  /\ open = {} /\ owners_issued = {}
  /\ held = {} /\ leases_issued = {}
  /\ quarantined = {}

Open(o) ==
  /\ o \notin owners_issued
  /\ open' = open \cup {o}
  /\ owners_issued' = owners_issued \cup {o}
  /\ UNCHANGED <<held, leases_issued, quarantined>>

\* Giving up a set of leases: any of their providers may turn out unsafe.
GiveUp(gone) ==
  /\ held' = held \ gone
  /\ \E unsafe \in SUBSET {l.provider : l \in gone} :
       quarantined' = quarantined \cup unsafe
  /\ UNCHANGED <<owners_issued, leases_issued>>

Close(o) ==
  /\ o \in open
  /\ open' = open \ {o}
  /\ GiveUp({l \in held : l.owner = o})

Lend(l) ==
  /\ l.id \notin leases_issued
  /\ l.owner \in open
  /\ l.provider \notin quarantined
  /\ Cardinality({m \in held : m.provider = l.provider}) < Limit[l.provider]
  /\ held' = held \cup {l}
  /\ leases_issued' = leases_issued \cup {l.id}
  /\ UNCHANGED <<open, owners_issued, quarantined>>

Return(l) ==
  /\ l \in held
  /\ GiveUp({l})
  /\ UNCHANGED open

Quarantine(l) ==
  /\ l \in held
  /\ quarantined' = quarantined \cup {l.provider}
  /\ UNCHANGED <<open, owners_issued, held, leases_issued>>

Recover(p) ==
  /\ \A l \in held : l.provider # p
  /\ quarantined' = quarantined \ {p}
  /\ UNCHANGED <<open, owners_issued, held, leases_issued>>

Next ==
  \/ \E o \in OwnerIds : Open(o) \/ Close(o)
  \/ \E l \in Lease : Lend(l) \/ Return(l) \/ Quarantine(l)
  \/ \E p \in Providers : Recover(p)

Spec == Init /\ [][Next]_vars
===============================================================================
