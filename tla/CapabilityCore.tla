---------------------------- MODULE CapabilityCore ----------------------------
(***************************************************************************)
(* capabilities/capability_core.c: the fixed table of owners and leases    *)
(* through which every consumer of the firmware reaches a hardware         *)
(* provider.  An owner opens with a set of grants, acquires leases on      *)
(* providers, and hands each lease back by itself or by being closed.      *)
(*                                                                         *)
(* A handle is a (slot, generation) pair copied to the caller.  A call     *)
(* that the code rejects changes nothing and is a stuttering step here, so *)
(* each action carries all the checks of its function in its guard.  The   *)
(* callbacks of a provider (cleanup, recover, acquire) are code outside    *)
(* the core: their result is a free choice.                                *)
(***************************************************************************)
EXTENDS Integers, FiniteSets

CONSTANTS
  MaxOwners,      \* HK_CAPABILITY_MAX_OWNERS
  MaxLeases,      \* HK_CAPABILITY_MAX_LEASES
  MaxGeneration,  \* UINT32_MAX, the generation after which a slot retires
  Providers,      \* the rows of the generated inventory
  Info,           \* Info[p]: what the inventory and the vtable say of p
  Requests,       \* the requests consumers make
  GrantSets,      \* the grant lists of the generated build
  Cores,          \* the two harts
  AnyCore,        \* HK_CAPABILITY_CORE_ANY
  NoProvider      \* what an inactive lease slot names

\* A request, and a grant: which provider, which half-open version range
\* and which features (hk_capability_request_t).
Request == [provider : Providers, minimum : Nat, maximum : Nat,
            features : SUBSET STRING]

(***************************************************************************)
(* hk_capability_core_init refuses an inventory that does not satisfy      *)
(* this, so the table only ever runs with one that does.                   *)
(***************************************************************************)
ASSUME CoreAssumption ==
  /\ MaxOwners \in Nat /\ MaxLeases \in Nat
  /\ MaxGeneration \in Nat \ {0}
  /\ IsFiniteSet(Providers) /\ NoProvider \notin Providers
  /\ \A p \in Providers :
       /\ Info[p].max_leases \in Nat \ {0}
       /\ Info[p].exclusive \in BOOLEAN
       /\ Info[p].version \in Nat
       /\ Info[p].features \in SUBSET STRING
       /\ Info[p].affinity \in Cores \cup {AnyCore}
       /\ Info[p].operations
            \subseteq {"cleanup_lease", "cleanup", "cleanup_dispatch", "recover"}
       /\ (Info[p].affinity # AnyCore /\ "cleanup" \in Info[p].operations)
            => "cleanup_dispatch" \in Info[p].operations
  /\ \A r \in Requests : r \in Request /\ r.minimum < r.maximum
  /\ \A g \in GrantSets : g \subseteq Request

OwnerSlots  == 0 .. MaxOwners - 1
LeaseSlots  == 0 .. MaxLeases - 1
Generations == 0 .. MaxGeneration

OwnerHandle == [slot : OwnerSlots, generation : Generations]
NoOwner     == [slot |-> 0, generation |-> 0]       \* HK_OWNER_NONE

LeaseHandle == [slot : LeaseSlots, generation : Generations,
                owner : OwnerHandle, capability_id : Providers]

VARIABLES
  owners,          \* core->owners
  leases,          \* core->leases
  provider_state   \* core->provider_state

vars == <<owners, leases, provider_state>>

OwnerSlot == [active : BOOLEAN, retired : BOOLEAN, generation : Generations,
              grants : SUBSET Request]
\* A lease slot that is not active keeps its generation and nothing else.
LeaseSlot == [active : BOOLEAN, retired : BOOLEAN, generation : Generations,
              owner : OwnerHandle \cup {NoOwner},
              provider : Providers \cup {NoProvider}]

TypeOK ==
  /\ owners \in [OwnerSlots -> OwnerSlot]
  /\ leases \in [LeaseSlots -> LeaseSlot]
  /\ provider_state \in
       [Providers -> [active_leases : Nat, quarantined : BOOLEAN]]

Init ==
  /\ owners = [s \in OwnerSlots |->
       [active |-> FALSE, retired |-> FALSE, generation |-> 0, grants |-> {}]]
  /\ leases = [s \in LeaseSlots |->
       [active |-> FALSE, retired |-> FALSE, generation |-> 0,
        owner |-> NoOwner, provider |-> NoProvider]]
  /\ provider_state =
       [p \in Providers |-> [active_leases |-> 0, quarantined |-> FALSE]]

-----------------------------------------------------------------------------
(* Validation                                                              *)

\* validate_owner: the handle names an open slot in its current generation.
ValidOwner(o) ==
  /\ o.generation # 0
  /\ owners[o.slot].active
  /\ owners[o.slot].generation = o.generation

AffinityMatches(p, core) == Info[p].affinity \in {AnyCore, core}

\* grant_allows: some grant on the same capability contains the request.
GrantAllows(grants, r) ==
  \E g \in grants : /\ g.provider = r.provider
                    /\ g.minimum <= r.minimum
                    /\ r.maximum <= g.maximum
                    /\ r.features \subseteq g.features

\* validate_lease, with the owner the caller presents.
ValidLease(owner, h, core, allowQuarantined) ==
  LET slot == leases[h.slot]
  IN  /\ ValidOwner(owner)
      /\ h.owner = owner
      /\ h.generation # 0
      /\ slot.active
      /\ slot.generation = h.generation
      /\ slot.owner = owner
      /\ slot.provider = h.capability_id
      /\ AffinityMatches(slot.provider, core)
      /\ allowQuarantined \/ ~provider_state[slot.provider].quarantined

-----------------------------------------------------------------------------
(* Slots                                                                   *)

\* The linear scan for the first slot that is neither active nor retired.
FirstFree(table, s) ==
  /\ ~table[s].active /\ ~table[s].retired
  /\ \A k \in DOMAIN table : k < s => table[k].active \/ table[k].retired

\* A slot is used from generation 1 on; 0 marks one that never was.
FirstGeneration(slot) == IF slot.generation = 0 THEN 1 ELSE slot.generation

\* Leaving a slot: the last generation retires it, any other moves on.
NextGeneration(slot) ==
  IF slot.generation = MaxGeneration THEN slot.generation ELSE slot.generation + 1

Retires(slot) == slot.retired \/ slot.generation = MaxGeneration

retire_or_advance_owner(slot) ==
  [active |-> FALSE, retired |-> Retires(slot),
   generation |-> NextGeneration(slot), grants |-> {}]

\* mutant: the generation moves on only when the slot is taken again
retire_or_advance_lease_Same(slot) ==
  [active |-> FALSE, retired |-> Retires(slot),
   generation |-> slot.generation, owner |-> NoOwner, provider |-> NoProvider]

retire_or_advance_lease(slot) ==
  [active |-> FALSE, retired |-> Retires(slot),
   generation |-> NextGeneration(slot), owner |-> NoOwner,
   provider |-> NoProvider]

LeasesOf(o) == {s \in LeaseSlots : leases[s].active /\ leases[s].owner = o}

\* The counter of a provider stops at 0.
LessLeases(n, k) == IF n > k THEN n - k ELSE 0

\* mutant: a failed cleanup returns before the counter is decremented
CleanUp_FailedStillCounted(gone, failed) ==
  /\ leases' = [s \in LeaseSlots |->
       IF s \in gone THEN retire_or_advance_lease(leases[s]) ELSE leases[s]]
  /\ provider_state' = [p \in Providers |->
       [active_leases |->
          LessLeases(provider_state[p].active_leases,
                     Cardinality({s \in gone \ failed : leases[s].provider = p})),
        quarantined |-> \/ provider_state[p].quarantined
                        \/ \E s \in failed : leases[s].provider = p]]

\* The effect of cleaning up the leases in gone, of which those in failed
\* could not be brought to a safe state.
CleanUp(gone, failed) ==
  /\ leases' = [s \in LeaseSlots |->
       IF s \in gone THEN retire_or_advance_lease(leases[s]) ELSE leases[s]]
  /\ provider_state' = [p \in Providers |->
       [active_leases |->
          LessLeases(provider_state[p].active_leases,
                     Cardinality({s \in gone : leases[s].provider = p})),
        quarantined |-> \/ provider_state[p].quarantined
                        \/ \E s \in failed : leases[s].provider = p]]

-----------------------------------------------------------------------------
(* Operations                                                              *)

\* hk_capability_core_owner_open
OwnerOpen(grants) ==
  \E s \in OwnerSlots :
    /\ FirstFree(owners, s)
    /\ owners' = [owners EXCEPT ![s] =
         [active |-> TRUE, retired |-> FALSE,
          generation |-> FirstGeneration(owners[s]), grants |-> grants]]
    /\ UNCHANGED <<leases, provider_state>>

\* mutant: the walk over the leases ends at the first cleanup that fails
OwnerClose_EndsAtFailure(o) ==
  /\ ValidOwner(o)
  /\ \/ CleanUp(LeasesOf(o), {})
     \/ \E s \in LeasesOf(o) :
          /\ "cleanup" \in Info[leases[s].provider].operations
          /\ CleanUp({t \in LeasesOf(o) : t <= s}, {s})
  /\ owners' = [owners EXCEPT ![o.slot] = retire_or_advance_owner(@)]

\* hk_capability_core_owner_close: every lease of the owner is cleaned up,
\* whatever happened to the ones before it, and the owner goes last.  Only
\* a provider with a cleanup callback can fail.
OwnerClose(o) ==
  /\ ValidOwner(o)
  /\ \E failed \in SUBSET {s \in LeasesOf(o) :
                             "cleanup" \in Info[leases[s].provider].operations} :
       CleanUp(LeasesOf(o), failed)
  /\ owners' = [owners EXCEPT ![o.slot] = retire_or_advance_owner(@)]

\* hk_capability_core_acquire: the checks in their order, then the first
\* free lease slot.
MayAcquire(o, r, core) ==
  LET p == r.provider
  IN  /\ ValidOwner(o)
      /\ AffinityMatches(p, core)
      /\ r.minimum <= Info[p].version /\ Info[p].version < r.maximum
      /\ r.features \subseteq Info[p].features
      /\ GrantAllows(owners[o.slot].grants, r)
      /\ ~provider_state[p].quarantined
      /\ ~(Info[p].exclusive /\ provider_state[p].active_leases > 0)
      /\ provider_state[p].active_leases < Info[p].max_leases

Acquire(o, r, core) ==
  /\ MayAcquire(o, r, core)
  /\ \E s \in LeaseSlots :
       /\ FirstFree(leases, s)
       /\ leases' = [leases EXCEPT ![s] =
            [active |-> TRUE, retired |-> FALSE,
             generation |-> FirstGeneration(leases[s]),
             owner |-> o, provider |-> r.provider]]
  /\ provider_state' =
       [provider_state EXCEPT ![r.provider].active_leases = @ + 1]
  /\ UNCHANGED owners

\* hk_capability_core_quarantine_lease
QuarantineLease(o, h, core) ==
  /\ ValidLease(o, h, core, TRUE)
  /\ provider_state' =
       [provider_state EXCEPT ![leases[h.slot].provider].quarantined = TRUE]
  /\ UNCHANGED <<owners, leases>>

\* hk_capability_core_release: a lease may be released from a quarantined
\* provider.  The provider's cleanup_lease is preferred to its cleanup.
Release(o, h, core) ==
  /\ ValidLease(o, h, core, TRUE)
  /\ \E failed \in SUBSET {h.slot} :
       /\ failed # {} => Info[leases[h.slot].provider].operations
                           \cap {"cleanup_lease", "cleanup"} # {}
       /\ CleanUp({h.slot}, failed)
  /\ UNCHANGED owners

\* hk_capability_core_recover, when the provider's callback succeeds.
Recover(p, core) ==
  /\ AffinityMatches(p, core)
  /\ provider_state[p].quarantined
  /\ provider_state[p].active_leases = 0
  /\ "recover" \in Info[p].operations
  /\ provider_state' = [provider_state EXCEPT ![p].quarantined = FALSE]
  /\ UNCHANGED <<owners, leases>>

Next ==
  \/ \E grants \in GrantSets : OwnerOpen(grants)
  \/ \E o \in OwnerHandle : OwnerClose(o)
  \/ \E o \in OwnerHandle, r \in Requests, core \in Cores : Acquire(o, r, core)
  \/ \E o \in OwnerHandle, h \in LeaseHandle, core \in Cores :
       QuarantineLease(o, h, core) \/ Release(o, h, core)
  \/ \E p \in Providers, core \in Cores : Recover(p, core)

Spec == Init /\ [][Next]_vars

-----------------------------------------------------------------------------
(* Safety                                                                  *)

LeasesOn(p) == {s \in LeaseSlots : leases[s].active /\ leases[s].provider = p}

(***************************************************************************)
(* The counter a provider's admission control reads is the number of       *)
(* leases that name it, after any mixture of releases, owner closes and    *)
(* failed cleanups.  A counter left high refuses the provider for ever; a  *)
(* counter left low, which the saturating decrement would hide, lets a     *)
(* second consumer drive the same hardware.                                *)
(***************************************************************************)
LeaseAccounting ==
  \A p \in Providers :
    provider_state[p].active_leases = Cardinality(LeasesOn(p))

\* How many leases a provider bears at once.
LeaseLimit(p) == IF Info[p].exclusive THEN 1 ELSE Info[p].max_leases

(***************************************************************************)
(* No provider is ever leased beyond its limit, and an exclusive provider  *)
(* has at most one lease (the checks of hk_capability_core_acquire read a  *)
(* counter, not the table).                                                *)
(***************************************************************************)
LeaseLimits ==
  \A p \in Providers : Cardinality(LeasesOn(p)) <= LeaseLimit(p)

(***************************************************************************)
(* A lease never outlives its owner: the owner stored in an active lease   *)
(* slot is open, in that very generation, and was granted the provider.    *)
(* Otherwise an owner that reuses the slot would inherit the lease, or the *)
(* hardware would stay bound to nobody (owner_close walks the table).      *)
(***************************************************************************)
LeaseHasLiveOwner ==
  \A s \in LeaseSlots : leases[s].active =>
    /\ ValidOwner(leases[s].owner)
    /\ \E g \in owners[leases[s].owner.slot].grants :
         g.provider = leases[s].provider

(***************************************************************************)
(* A handle that stopped being valid never becomes valid again, whatever   *)
(* reuse of the slot follows: the property the generations exist for.      *)
(* A slot therefore never goes back in generation, never leaves            *)
(* retirement, and is never occupied twice in one generation.              *)
(***************************************************************************)
NeverReused(old, new) ==
  /\ old.generation <= new.generation
  /\ old.retired => new = old
  /\ (old.active /\ ~new.active) =>
       new.retired \/ old.generation < new.generation
  /\ (old.active /\ new.active) => new.generation = old.generation

HandlesNeverReused ==
  [][/\ \A s \in OwnerSlots : NeverReused(owners[s], owners'[s])
     /\ \A s \in LeaseSlots : NeverReused(leases[s], leases'[s])]_vars

-----------------------------------------------------------------------------
(* The abstract registry                                                   *)

IssuedOwners ==
  {o \in OwnerHandle :
     /\ 0 < o.generation
     /\ \/ o.generation < owners[o.slot].generation
        \/ /\ o.generation = owners[o.slot].generation
           /\ owners[o.slot].active \/ owners[o.slot].retired}

LeaseId == [slot : LeaseSlots, generation : Generations]

IssuedLeases ==
  {i \in LeaseId :
     /\ 0 < i.generation
     /\ \/ i.generation < leases[i.slot].generation
        \/ /\ i.generation = leases[i.slot].generation
           /\ leases[i.slot].active \/ leases[i.slot].retired}

AsLease(s) == [id |-> [slot |-> s, generation |-> leases[s].generation],
               owner |-> leases[s].owner, provider |-> leases[s].provider]

Registry == INSTANCE LeaseRegistry WITH
  OwnerIds      <- OwnerHandle,
  LeaseIds      <- LeaseId,
  Limit         <- [p \in Providers |-> LeaseLimit(p)],
  open          <- {o \in OwnerHandle : ValidOwner(o)},
  owners_issued <- IssuedOwners,
  held          <- {AsLease(s) : s \in {t \in LeaseSlots : leases[t].active}},
  leases_issued <- IssuedLeases,
  quarantined   <- {p \in Providers : provider_state[p].quarantined}

(***************************************************************************)
(* The table of slots, generations and counters implements the registry    *)
(* of identities: docs/spec/CAPABILITY_API.md, "Lease and handle           *)
(* lifecycle".                                                             *)
(***************************************************************************)
ImplementsRegistry == Registry!Spec
===============================================================================
