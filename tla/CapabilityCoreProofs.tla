------------------------- MODULE CapabilityCoreProofs -------------------------
(***************************************************************************)
(* Proofs about CapabilityCore for every inventory, every table size and   *)
(* every generation bound.                                                 *)
(***************************************************************************)
EXTENDS CapabilityCore, FiniteSetTheorems, TLAPS

\* An occupied slot has left generation 0 and is not retired, and an
\* occupied lease slot names an owner and a provider.
SlotsOK ==
  /\ \A s \in OwnerSlots : owners[s].active =>
       ~owners[s].retired /\ owners[s].generation # 0
  /\ \A s \in LeaseSlots : leases[s].active =>
       /\ ~leases[s].retired /\ leases[s].generation # 0
       /\ leases[s].owner \in OwnerHandle
       /\ leases[s].provider \in Providers

IInv == /\ TypeOK
        /\ SlotsOK
        /\ LeaseAccounting
        /\ LeaseLimits
        /\ LeaseHasLiveOwner

(***************************************************************************)
(* The sets of leases the counters count are finite.                       *)
(***************************************************************************)
LEMMA LeasesFinite ==
  ASSUME NEW S \in SUBSET LeaseSlots
  PROVE  IsFiniteSet(S) /\ Cardinality(S) \in Nat
<1>1. IsFiniteSet(LeaseSlots)
  BY CoreAssumption, FS_Interval DEF LeaseSlots
<1>2. QED
  BY <1>1, FS_Subset, FS_CardinalityType

(***************************************************************************)
(* Retiring or advancing a slot keeps its type and empties it.             *)
(***************************************************************************)
LEMMA AdvanceType ==
  /\ \A s \in OwnerSlots : TypeOK =>
       /\ retire_or_advance_owner(owners[s]) \in OwnerSlot
       /\ ~retire_or_advance_owner(owners[s]).active
  /\ \A s \in LeaseSlots : TypeOK =>
       /\ retire_or_advance_lease(leases[s]) \in LeaseSlot
       /\ ~retire_or_advance_lease(leases[s]).active
<1>1. ASSUME NEW s \in OwnerSlots, TypeOK
      PROVE  /\ retire_or_advance_owner(owners[s]) \in OwnerSlot
             /\ ~retire_or_advance_owner(owners[s]).active
  <2>1. owners[s] \in OwnerSlot
    BY <1>1 DEF TypeOK
  <2>2. QED
    BY <2>1, CoreAssumption
       DEF retire_or_advance_owner, Retires, NextGeneration, OwnerSlot, Generations
<1>2. ASSUME NEW s \in LeaseSlots, TypeOK
      PROVE  /\ retire_or_advance_lease(leases[s]) \in LeaseSlot
             /\ ~retire_or_advance_lease(leases[s]).active
  <2>1. leases[s] \in LeaseSlot
    BY <1>2 DEF TypeOK
  <2>2. QED
    BY <2>1, CoreAssumption
       DEF retire_or_advance_lease, Retires, NextGeneration, LeaseSlot, Generations
<1>3. QED
  BY <1>1, <1>2

(***************************************************************************)
(* Cleaning up any set of active leases keeps the table well formed and    *)
(* the counters exact: the decrements never meet the floor at 0.           *)
(***************************************************************************)
LEMMA CleanUpKeeps ==
  ASSUME IInv, NEW gone \in SUBSET LeaseSlots, NEW failed,
         \A s \in gone : leases[s].active,
         CleanUp(gone, failed)
  PROVE  /\ leases' \in [LeaseSlots -> LeaseSlot]
         /\ provider_state' \in
              [Providers -> [active_leases : Nat, quarantined : BOOLEAN]]
         /\ \A s \in LeaseSlots :
              /\ s \in gone => ~leases'[s].active
              /\ s \notin gone => leases'[s] = leases[s]
         /\ LeaseAccounting'
         /\ LeaseLimits'
<1> USE DEF IInv
<1>1. \A s \in LeaseSlots :
        /\ s \in gone => ~leases'[s].active /\ leases'[s] \in LeaseSlot
        /\ s \notin gone => leases'[s] = leases[s]
  BY AdvanceType DEF CleanUp
<1>2. leases' \in [LeaseSlots -> LeaseSlot]
  BY <1>1 DEF CleanUp, TypeOK
<1>3. ASSUME NEW p \in Providers
      PROVE  /\ provider_state'[p].active_leases = Cardinality(LeasesOn(p)')
             /\ Cardinality(LeasesOn(p)') <= Cardinality(LeasesOn(p))
             /\ provider_state'[p] \in [active_leases : Nat, quarantined : BOOLEAN]
  <2> DEFINE mine == {s \in gone : leases[s].provider = p}
  <2>1. LeasesOn(p)' = LeasesOn(p) \ mine
    BY <1>1 DEF LeasesOn
  <2>2. mine \subseteq LeasesOn(p) /\ LeasesOn(p) \in SUBSET LeaseSlots
    BY DEF LeasesOn
  <2>3. /\ IsFiniteSet(LeasesOn(p)) /\ Cardinality(LeasesOn(p)) \in Nat
        /\ Cardinality(mine) \in Nat
    BY <2>2, LeasesFinite
  <2>4. LeasesOn(p) \cap mine = mine
    BY <2>2
  <2>5. Cardinality(LeasesOn(p)') = Cardinality(LeasesOn(p)) - Cardinality(mine)
    <3> HIDE DEF mine
    <3>1. Cardinality(LeasesOn(p) \ mine)
            = Cardinality(LeasesOn(p)) - Cardinality(LeasesOn(p) \cap mine)
      BY <2>3, FS_Difference
    <3>2. QED
      BY <2>1, <2>4, <3>1
  <2>6. Cardinality(mine) <= Cardinality(LeasesOn(p))
    BY <2>2, <2>3, FS_Subset
  <2>7. provider_state[p].active_leases = Cardinality(LeasesOn(p))
    BY DEF LeaseAccounting
  <2>8. LessLeases(Cardinality(LeasesOn(p)), Cardinality(mine))
          = Cardinality(LeasesOn(p)) - Cardinality(mine)
    BY <2>3, <2>6 DEF LessLeases
  <2>9. provider_state'[p].active_leases
          = Cardinality(LeasesOn(p)) - Cardinality(mine)
    BY <2>7, <2>8 DEF CleanUp
  <2>10. provider_state'[p].quarantined \in BOOLEAN
    BY DEF CleanUp, TypeOK
  <2>11. provider_state'[p] = [active_leases |-> provider_state'[p].active_leases,
                               quarantined |-> provider_state'[p].quarantined]
    BY DEF CleanUp
  <2>12. Cardinality(LeasesOn(p)) - Cardinality(mine) \in Nat
    BY <2>3, <2>6
  <2>13. QED
    BY <2>3, <2>5, <2>9, <2>10, <2>11, <2>12
<1>4. provider_state' \in
        [Providers -> [active_leases : Nat, quarantined : BOOLEAN]]
  BY <1>3 DEF CleanUp
<1>5. LeaseAccounting'
  BY <1>3 DEF LeaseAccounting
<1>6. LeaseLimits'
  <2> SUFFICES ASSUME NEW p \in Providers
               PROVE  Cardinality(LeasesOn(p)') <= LeaseLimit(p)
    BY DEF LeaseLimits, LeaseLimit
  <2>1. /\ Cardinality(LeasesOn(p)) <= LeaseLimit(p)
        /\ LeaseLimit(p) \in Nat
    BY CoreAssumption DEF LeaseLimits, LeaseLimit
  <2>2. Cardinality(LeasesOn(p)) \in Nat /\ Cardinality(LeasesOn(p)') \in Nat
    BY <1>3, <1>4, LeasesFinite DEF LeasesOn
  <2>3. QED
    BY <1>3, <2>1, <2>2
<1>7. QED
  BY <1>1, <1>2, <1>4, <1>5, <1>6

(***************************************************************************)
(* An empty table satisfies the invariant.                                 *)
(***************************************************************************)
LEMMA InitIInv == Init => IInv
<1> SUFFICES ASSUME Init PROVE IInv
  OBVIOUS
<1> USE CoreAssumption DEF Init
<1>1. TypeOK
  BY DEF TypeOK, OwnerSlot, LeaseSlot, Generations
<1>2. SlotsOK /\ LeaseHasLiveOwner
  BY DEF SlotsOK, LeaseHasLiveOwner
<1>3. \A p \in Providers : LeasesOn(p) = {}
  BY DEF LeasesOn
<1>4. LeaseAccounting /\ LeaseLimits
  <2>1. \A p \in Providers : LeaseLimit(p) \in Nat
    BY DEF LeaseLimit
  <2>2. \A p \in Providers : Cardinality(LeasesOn(p)) = 0
    BY <1>3, FS_EmptySet
  <2>3. QED
    BY <2>1, <2>2 DEF LeaseAccounting, LeaseLimits
<1>5. QED
  BY <1>1, <1>2, <1>4 DEF IInv

(***************************************************************************)
(* Opening an owner takes a free slot: no lease refers to it.              *)
(***************************************************************************)
LEMMA OwnerOpenKeeps ==
  ASSUME IInv, NEW grants \in GrantSets, OwnerOpen(grants)
  PROVE  IInv'
<1> USE DEF IInv
<1>1. PICK s \in OwnerSlots :
        /\ ~owners[s].active /\ ~owners[s].retired
        /\ owners' = [owners EXCEPT ![s] =
             [active |-> TRUE, retired |-> FALSE,
              generation |-> FirstGeneration(owners[s]), grants |-> grants]]
        /\ UNCHANGED <<leases, provider_state>>
  BY DEF OwnerOpen, FirstFree
<1>2. grants \in SUBSET Request
  BY CoreAssumption
<1>3. owners[s].generation \in Generations /\ owners \in [OwnerSlots -> OwnerSlot]
  BY DEF TypeOK, OwnerSlot
<1>4. FirstGeneration(owners[s]) \in Generations /\ FirstGeneration(owners[s]) # 0
  BY <1>3, CoreAssumption DEF FirstGeneration, Generations
<1>5. TypeOK'
  BY <1>1, <1>2, <1>3, <1>4 DEF TypeOK, OwnerSlot
<1>6. SlotsOK'
  BY <1>1, <1>3, <1>4 DEF SlotsOK
<1>7. LeaseAccounting' /\ LeaseLimits'
  BY <1>1 DEF LeaseAccounting, LeaseLimits, LeasesOn, LeaseLimit
<1>8. \A t \in OwnerSlots : owners[t].active => owners'[t] = owners[t]
  BY <1>1, <1>3
<1>9. \A t \in LeaseSlots : leases[t].active => leases[t].owner.slot \in OwnerSlots
  BY DEF SlotsOK, OwnerHandle
<1>10. LeaseHasLiveOwner'
  BY <1>1, <1>8, <1>9 DEF LeaseHasLiveOwner, ValidOwner
<1>11. QED
  BY <1>5, <1>6, <1>7, <1>10

(***************************************************************************)
(* Closing an owner gives up every lease that names it, so no lease is     *)
(* left behind in the slot for its next generation.                        *)
(***************************************************************************)
LEMMA OwnerCloseKeeps ==
  ASSUME IInv, NEW o \in OwnerHandle, OwnerClose(o)
  PROVE  IInv'
<1> USE DEF IInv
<1> DEFINE gone == LeasesOf(o)
<1>1. PICK failed : CleanUp(gone, failed)
  BY DEF OwnerClose
<1>2. /\ o.slot \in OwnerSlots /\ ValidOwner(o)
      /\ owners' = [owners EXCEPT ![o.slot] = retire_or_advance_owner(owners[o.slot])]
  BY DEF OwnerClose, OwnerHandle
<1>3. gone \in SUBSET LeaseSlots /\ \A s \in gone : leases[s].active
  BY DEF LeasesOf
<1>4. /\ leases' \in [LeaseSlots -> LeaseSlot]
      /\ provider_state' \in
           [Providers -> [active_leases : Nat, quarantined : BOOLEAN]]
      /\ \A s \in LeaseSlots :
           /\ s \in gone => ~leases'[s].active
           /\ s \notin gone => leases'[s] = leases[s]
      /\ LeaseAccounting'
      /\ LeaseLimits'
  <2> HIDE DEF gone, IInv
  <2>1. QED
    BY <1>1, <1>3, CleanUpKeeps
<1>5. /\ owners' \in [OwnerSlots -> OwnerSlot]
      /\ ~owners'[o.slot].active
      /\ \A t \in OwnerSlots : t # o.slot => owners'[t] = owners[t]
  BY <1>2, AdvanceType DEF TypeOK
<1>6. TypeOK'
  BY <1>4, <1>5 DEF TypeOK
<1>7. SlotsOK'
  BY <1>4, <1>5 DEF SlotsOK
<1>8. ASSUME NEW s \in LeaseSlots, leases'[s].active
      PROVE  /\ ValidOwner(leases[s].owner)'
             /\ \E g \in owners'[leases'[s].owner.slot].grants :
                  g.provider = leases'[s].provider
  <2>1. leases'[s] = leases[s] /\ leases[s].active /\ leases[s].owner # o
    BY <1>4, <1>8 DEF LeasesOf
  <2>2. leases[s].owner \in OwnerHandle /\ ValidOwner(leases[s].owner)
    BY <2>1 DEF SlotsOK, LeaseHasLiveOwner
  <2>3. leases[s].owner.slot # o.slot
    BY <1>2, <2>1, <2>2 DEF ValidOwner, OwnerHandle
  <2>4. owners'[leases[s].owner.slot] = owners[leases[s].owner.slot]
    BY <1>5, <2>2, <2>3 DEF OwnerHandle
  <2>5. QED
    BY <2>1, <2>2, <2>4 DEF ValidOwner, LeaseHasLiveOwner
<1>9. LeaseHasLiveOwner'
  BY <1>8 DEF LeaseHasLiveOwner
<1>10. QED
  BY <1>4, <1>6, <1>7, <1>9

(***************************************************************************)
(* A new lease goes to a free slot of a provider below its limit.          *)
(***************************************************************************)
LEMMA AcquireKeeps ==
  ASSUME IInv, NEW o \in OwnerHandle, NEW r \in Requests, NEW core \in Cores,
         Acquire(o, r, core)
  PROVE  IInv'
<1> USE DEF IInv
<1> DEFINE q == r.provider
<1>1. PICK s \in LeaseSlots :
        /\ ~leases[s].active /\ ~leases[s].retired
        /\ leases' = [leases EXCEPT ![s] =
             [active |-> TRUE, retired |-> FALSE,
              generation |-> FirstGeneration(leases[s]),
              owner |-> o, provider |-> q]]
  BY DEF Acquire, FirstFree
<1>2. /\ provider_state' =
           [provider_state EXCEPT ![q].active_leases =
              provider_state[q].active_leases + 1]
      /\ UNCHANGED owners
      /\ ValidOwner(o)
      /\ \E g \in owners[o.slot].grants : g.provider = q
      /\ ~(Info[q].exclusive /\ provider_state[q].active_leases > 0)
      /\ provider_state[q].active_leases < Info[q].max_leases
  BY DEF Acquire, MayAcquire, GrantAllows
<1>3. q \in Providers
  BY CoreAssumption DEF Request
<1>4. leases[s].generation \in Generations /\ leases \in [LeaseSlots -> LeaseSlot]
  BY DEF TypeOK, LeaseSlot
<1>5. FirstGeneration(leases[s]) \in Generations /\ FirstGeneration(leases[s]) # 0
  BY <1>4, CoreAssumption DEF FirstGeneration, Generations
<1>6. /\ leases' \in [LeaseSlots -> LeaseSlot]
      /\ \A t \in LeaseSlots : t # s => leases'[t] = leases[t]
      /\ leases'[s] = [active |-> TRUE, retired |-> FALSE,
                       generation |-> FirstGeneration(leases[s]),
                       owner |-> o, provider |-> q]
  BY <1>1, <1>3, <1>4, <1>5 DEF LeaseSlot
<1>7. /\ provider_state' \in
           [Providers -> [active_leases : Nat, quarantined : BOOLEAN]]
      /\ provider_state'[q].active_leases = provider_state[q].active_leases + 1
      /\ \A p \in Providers : p # q => provider_state'[p] = provider_state[p]
  BY <1>2, <1>3 DEF TypeOK
<1>8. TypeOK'
  BY <1>2, <1>6, <1>7 DEF TypeOK
<1>9. SlotsOK'
  BY <1>2, <1>3, <1>5, <1>6 DEF SlotsOK
<1>10. /\ LeasesOn(q)' = LeasesOn(q) \cup {s} /\ s \notin LeasesOn(q)
       /\ \A p \in Providers : p # q => LeasesOn(p)' = LeasesOn(p)
  BY <1>1, <1>6 DEF LeasesOn
<1>11. IsFiniteSet(LeasesOn(q)) /\ Cardinality(LeasesOn(q)) \in Nat
  BY LeasesFinite DEF LeasesOn
<1>12. Cardinality(LeasesOn(q)') = Cardinality(LeasesOn(q)) + 1
  BY <1>10, <1>11, FS_AddElement
<1>13. LeaseAccounting'
  BY <1>3, <1>7, <1>10, <1>12 DEF LeaseAccounting
<1>14. Cardinality(LeasesOn(q)) + 1 <= LeaseLimit(q)
  BY <1>2, <1>3, <1>11, CoreAssumption DEF LeaseAccounting, LeaseLimit
<1>15. LeaseLimits'
  BY <1>3, <1>10, <1>12, <1>14 DEF LeaseLimits, LeaseLimit
<1>16. LeaseHasLiveOwner'
  BY <1>2, <1>6 DEF LeaseHasLiveOwner, ValidOwner
<1>17. QED
  BY <1>8, <1>9, <1>13, <1>15, <1>16

(***************************************************************************)
(* Releasing a lease empties its slot and touches no owner.                *)
(***************************************************************************)
LEMMA ReleaseKeeps ==
  ASSUME IInv, NEW o \in OwnerHandle, NEW h \in LeaseHandle, NEW core \in Cores,
         Release(o, h, core)
  PROVE  IInv'
<1> USE DEF IInv
<1> DEFINE gone == {h.slot}
<1>1. PICK failed : CleanUp(gone, failed)
  BY DEF Release
<1>2. /\ gone \in SUBSET LeaseSlots /\ \A s \in gone : leases[s].active
      /\ UNCHANGED owners
  BY DEF Release, ValidLease, LeaseHandle
<1>3. /\ leases' \in [LeaseSlots -> LeaseSlot]
      /\ provider_state' \in
           [Providers -> [active_leases : Nat, quarantined : BOOLEAN]]
      /\ \A s \in LeaseSlots :
           /\ s \in gone => ~leases'[s].active
           /\ s \notin gone => leases'[s] = leases[s]
      /\ LeaseAccounting'
      /\ LeaseLimits'
  <2> HIDE DEF gone, IInv
  <2>1. QED
    BY <1>1, <1>2, CleanUpKeeps
<1>4. TypeOK'
  BY <1>2, <1>3 DEF TypeOK
<1>5. SlotsOK'
  BY <1>2, <1>3 DEF SlotsOK
<1>6. LeaseHasLiveOwner'
  BY <1>2, <1>3 DEF LeaseHasLiveOwner, ValidOwner
<1>7. QED
  BY <1>3, <1>4, <1>5, <1>6

(***************************************************************************)
(* Quarantine and recovery change one flag of one provider.                *)
(***************************************************************************)
LEMMA FlagKeeps ==
  ASSUME IInv, NEW p \in Providers, NEW flag \in BOOLEAN,
         provider_state' = [provider_state EXCEPT ![p].quarantined = flag],
         UNCHANGED <<owners, leases>>
  PROVE  IInv'
<1> USE DEF IInv
<1>1. /\ provider_state' \in
           [Providers -> [active_leases : Nat, quarantined : BOOLEAN]]
      /\ \A x \in Providers :
           provider_state'[x].active_leases = provider_state[x].active_leases
  BY DEF TypeOK
<1>2. TypeOK' /\ SlotsOK'
  BY <1>1 DEF TypeOK, SlotsOK
<1>3. LeaseAccounting' /\ LeaseLimits'
  BY <1>1 DEF LeaseAccounting, LeaseLimits, LeasesOn, LeaseLimit
<1>4. LeaseHasLiveOwner'
  BY DEF LeaseHasLiveOwner, ValidOwner
<1>5. QED
  BY <1>2, <1>3, <1>4

\* Every step, whichever core takes it, keeps the inductive invariant.
LEMMA NextIInv == IInv /\ [Next]_vars => IInv'
<1> SUFFICES ASSUME IInv, [Next]_vars PROVE IInv'
  OBVIOUS
<1>1. CASE \E grants \in GrantSets : OwnerOpen(grants)
  BY <1>1, OwnerOpenKeeps
<1>2. CASE \E o \in OwnerHandle : OwnerClose(o)
  BY <1>2, OwnerCloseKeeps
<1>3. CASE \E o \in OwnerHandle, r \in Requests, core \in Cores : Acquire(o, r, core)
  BY <1>3, AcquireKeeps
<1>4. ASSUME NEW o \in OwnerHandle, NEW h \in LeaseHandle, NEW core \in Cores,
             Release(o, h, core)
      PROVE  IInv'
  BY <1>4, ReleaseKeeps
<1>5. ASSUME NEW o \in OwnerHandle, NEW h \in LeaseHandle, NEW core \in Cores,
             QuarantineLease(o, h, core)
      PROVE  IInv'
  <2>1. leases[h.slot].provider \in Providers
    BY <1>5 DEF QuarantineLease, ValidLease, LeaseHandle, IInv, SlotsOK
  <2>2. QED
    BY <1>5, <2>1, FlagKeeps DEF QuarantineLease
<1>6. ASSUME NEW p \in Providers, NEW core \in Cores, Recover(p, core)
      PROVE  IInv'
  BY <1>6, FlagKeeps DEF Recover
<1>7. CASE UNCHANGED vars
  BY <1>7 DEF vars, IInv, TypeOK, SlotsOK, LeaseAccounting, LeaseLimits,
              LeasesOn, LeaseLimit, LeaseHasLiveOwner, ValidOwner
<1>8. QED
  BY <1>1, <1>2, <1>3, <1>4, <1>5, <1>6, <1>7 DEF Next

\* The inductive invariant holds in every reachable state.
LEMMA IInvHolds == Spec => []IInv
<1>1. QED
  BY InitIInv, NextIInv, PTL DEF Spec

-----------------------------------------------------------------------------
(***************************************************************************)
(* The table and the counters stay well formed (capability_core.c).        *)
(***************************************************************************)
THEOREM TypeCorrect == Spec => []TypeOK
<1>1. IInv => TypeOK
  BY DEF IInv
<1>2. QED
  BY <1>1, IInvHolds, PTL

(***************************************************************************)
(* active_leases of a provider is always the number of active lease slots  *)
(* that name it, whichever cleanups failed on the way.                     *)
(***************************************************************************)
THEOREM AccountingHolds == Spec => []LeaseAccounting
<1>1. IInv => LeaseAccounting
  BY DEF IInv
<1>2. QED
  BY <1>1, IInvHolds, PTL

(***************************************************************************)
(* hk_capability_core_acquire never exceeds a provider's limit, and never  *)
(* shares an exclusive provider.                                           *)
(***************************************************************************)
THEOREM LimitsHold == Spec => []LeaseLimits
<1>1. IInv => LeaseLimits
  BY DEF IInv
<1>2. QED
  BY <1>1, IInvHolds, PTL

(***************************************************************************)
(* hk_capability_core_owner_close leaves no lease of the owner behind.     *)
(***************************************************************************)
THEOREM LiveOwnerHolds == Spec => []LeaseHasLiveOwner
<1>1. IInv => LeaseHasLiveOwner
  BY DEF IInv
<1>2. QED
  BY <1>1, IInvHolds, PTL
-----------------------------------------------------------------------------
(* The generations, and the registry of identities                         *)

\* The refinement mapping, by name.
OpenOwners == {o \in OwnerHandle : ValidOwner(o)}
ActiveLeases == {s \in LeaseSlots : leases[s].active}
HeldLeases == {AsLease(s) : s \in ActiveLeases}
Quarantined == {p \in Providers : provider_state[p].quarantined}

\* The identity of generation g has been issued by a slot of either table.
Issued(slot, g) ==
  /\ 0 < g
  /\ g < slot.generation \/ (g = slot.generation /\ (slot.active \/ slot.retired))

(***************************************************************************)
(* Leaving a slot changes nothing about what it has issued.                *)
(***************************************************************************)
LEMMA LeavingIssuesNothing ==
  ASSUME NEW old, old.active, ~old.retired, old.generation \in Generations \ {0},
         NEW new, ~new.active, new.retired <=> Retires(old),
         new.retired \in BOOLEAN, old.retired \in BOOLEAN,
         new.generation = NextGeneration(old), NEW g \in Generations
  PROVE  /\ Issued(new, g) <=> Issued(old, g)
         /\ NeverReused(old, new)
<1>1. old.generation \in Nat /\ old.generation <= MaxGeneration /\ g \in Nat
  BY CoreAssumption DEF Generations
<1>2. CASE old.generation = MaxGeneration
  BY <1>1, <1>2 DEF Issued, Retires, NextGeneration, NeverReused
<1>3. CASE old.generation # MaxGeneration
  <2>1. new.generation = old.generation + 1 /\ ~new.retired
    BY <1>3 DEF Retires, NextGeneration
  <2>2. QED
    BY <1>1, <2>1 DEF Issued, NeverReused
<1>4. QED
  BY <1>2, <1>3

(***************************************************************************)
(* Taking a free slot issues one identity, which it never issued before.   *)
(***************************************************************************)
LEMMA TakingIssuesOne ==
  ASSUME NEW old, ~old.active, ~old.retired, old.generation \in Generations,
         NEW new, new.active, new.generation = FirstGeneration(old),
         NEW g \in Generations
  PROVE  /\ ~Issued(old, new.generation)
         /\ Issued(new, g) <=> Issued(old, g) \/ g = new.generation
         /\ NeverReused(old, new)
<1>1. old.generation \in Nat /\ g \in Nat
  BY CoreAssumption DEF Generations
<1>2. QED
  BY <1>1 DEF Issued, FirstGeneration, NeverReused

(***************************************************************************)
(* The issued identities, slot by slot.                                    *)
(***************************************************************************)
LEMMA IssuedBySlot ==
  /\ IssuedOwners = {o \in OwnerHandle : Issued(owners[o.slot], o.generation)}
  /\ IssuedLeases = {i \in LeaseId : Issued(leases[i.slot], i.generation)}
<1>1. QED
  BY DEF IssuedOwners, IssuedLeases, Issued

(***************************************************************************)
(* hk_capability_core_owner_open issues one owner, never issued before.    *)
(***************************************************************************)
LEMMA OwnerOpenRefines ==
  ASSUME IInv, IInv', NEW grants \in GrantSets, OwnerOpen(grants)
  PROVE  \E o \in OwnerHandle : Registry!Open(o)
<1>1. PICK s \in OwnerSlots :
        /\ ~owners[s].active /\ ~owners[s].retired
        /\ owners' = [owners EXCEPT ![s] =
             [active |-> TRUE, retired |-> FALSE,
              generation |-> FirstGeneration(owners[s]), grants |-> grants]]
        /\ UNCHANGED <<leases, provider_state>>
  BY DEF OwnerOpen, FirstFree
<1> DEFINE o == [slot |-> s, generation |-> FirstGeneration(owners[s])]
<1>2. /\ owners[s].generation \in Generations
      /\ \A t \in OwnerSlots : t # s => owners'[t] = owners[t]
      /\ owners'[s].active /\ ~owners'[s].retired
      /\ owners'[s].generation = FirstGeneration(owners[s])
  BY <1>1 DEF IInv, TypeOK, OwnerSlot
<1>3. o \in OwnerHandle /\ o.generation # 0
  BY <1>2, CoreAssumption DEF FirstGeneration, Generations, OwnerHandle
<1>4. \A x \in OwnerHandle : x.slot = s => (x = o <=> x.generation = o.generation)
  BY DEF OwnerHandle
<1>5. /\ ~Issued(owners[s], o.generation)
      /\ \A g \in Generations :
           Issued(owners'[s], g) <=> Issued(owners[s], g) \/ g = o.generation
  BY <1>1, <1>2, TakingIssuesOne
<1>6. \A x \in OwnerHandle : x.slot \in OwnerSlots /\ x.generation \in Generations
  BY DEF OwnerHandle
<1>7. IssuedOwners' = IssuedOwners \cup {o} /\ o \notin IssuedOwners
  <2> HIDE DEF o
  <2>1. ASSUME NEW x \in OwnerHandle
        PROVE  Issued(owners'[x.slot], x.generation)
                 <=> Issued(owners[x.slot], x.generation) \/ x = o
    <3>1. CASE x.slot = s
      BY <1>4, <1>5, <1>6, <3>1
    <3>2. CASE x.slot # s
      BY <1>2, <1>6, <3>2 DEF o
    <3>3. QED
      BY <3>1, <3>2
  <2>2. IssuedOwners' = {x \in OwnerHandle : Issued(owners'[x.slot], x.generation)}
    BY DEF IssuedOwners, Issued
  <2>3. o.slot = s
    BY DEF o
  <2>4. QED
    BY <1>3, <1>5, <2>1, <2>2, <2>3, IssuedBySlot
<1>8. OpenOwners' = OpenOwners \cup {o}
  <2>1. ASSUME NEW x \in OwnerHandle
        PROVE  ValidOwner(x)' <=> ValidOwner(x) \/ x = o
    <3>1. CASE x.slot = s
      BY <1>1, <1>2, <1>3, <1>4, <3>1 DEF ValidOwner
    <3>2. CASE x.slot # s
      BY <1>2, <1>6, <3>2 DEF ValidOwner
    <3>3. QED
      BY <3>1, <3>2
  <2>2. QED
    BY <1>3, <2>1 DEF OpenOwners
<1>9. UNCHANGED <<HeldLeases, IssuedLeases, Quarantined>>
  BY <1>1 DEF HeldLeases, ActiveLeases, AsLease, IssuedLeases, Quarantined
<1>10. Registry!Open(o)
  BY <1>7, <1>8, <1>9
     DEF Registry!Open, OpenOwners, HeldLeases, ActiveLeases, Quarantined
<1>11. QED
  BY <1>3, <1>10

(***************************************************************************)
(* Different slots hold different leases.                                  *)
(***************************************************************************)
LEMMA LeasesDiffer ==
  \A s, t \in LeaseSlots : AsLease(s) = AsLease(t) => s = t
<1>1. \A s \in LeaseSlots : AsLease(s).id.slot = s
  BY DEF AsLease
<1>2. QED
  BY <1>1

(***************************************************************************)
(* Cleaning up a set of leases gives up exactly those, issues nothing, and *)
(* leaves unsafe at most the providers they were on.                       *)
(***************************************************************************)
LEMMA CleanUpGivesUp ==
  ASSUME IInv, NEW gone \in SUBSET ActiveLeases, NEW failed \in SUBSET gone,
         CleanUp(gone, failed)
  PROVE  LET given == {AsLease(s) : s \in gone}
         IN  /\ HeldLeases' = HeldLeases \ given
             /\ IssuedLeases' = IssuedLeases
             /\ \E unsafe \in SUBSET {l.provider : l \in given} :
                  Quarantined' = Quarantined \cup unsafe
             /\ \A s \in LeaseSlots : NeverReused(leases[s], leases'[s])
<1> DEFINE given == {AsLease(s) : s \in gone}
<1>1. /\ \A s \in gone : leases'[s] = retire_or_advance_lease(leases[s])
      /\ \A s \in LeaseSlots \ gone : leases'[s] = leases[s]
      /\ gone \subseteq LeaseSlots
  BY DEF CleanUp, ActiveLeases
<1>2. \A s \in gone :
        /\ leases[s].active /\ ~leases[s].retired
        /\ leases[s].generation \in Generations \ {0}
  BY DEF ActiveLeases, IInv, SlotsOK, TypeOK, LeaseSlot
<1>3. ASSUME NEW s \in gone
      PROVE  /\ \A g \in Generations : Issued(leases'[s], g) <=> Issued(leases[s], g)
             /\ NeverReused(leases[s], leases'[s])
             /\ ~leases'[s].active
  <2>1. s \in LeaseSlots /\ leases[s] \in LeaseSlot
    BY DEF ActiveLeases, IInv, TypeOK
  <2>2. leases'[s] = retire_or_advance_lease(leases[s])
    BY <1>1
  <2>3. leases'[s].generation = NextGeneration(leases[s])
    BY <2>2 DEF retire_or_advance_lease
  <2>4. leases'[s].active = FALSE
    BY <2>2 DEF retire_or_advance_lease
  <2>5. leases'[s].retired = (leases[s].retired \/ leases[s].generation = MaxGeneration)
    BY <2>2 DEF retire_or_advance_lease, Retires
  <2>6. leases[s].retired \in BOOLEAN /\ leases'[s].retired \in BOOLEAN
    BY <2>1, <2>5 DEF LeaseSlot
  <2>7. /\ ~leases'[s].active
        /\ leases'[s].retired <=> Retires(leases[s])
    BY <2>4, <2>5 DEF Retires
  <2>8. ASSUME NEW g \in Generations
        PROVE  /\ Issued(leases'[s], g) <=> Issued(leases[s], g)
               /\ NeverReused(leases[s], leases'[s])
    BY <1>2, <2>3, <2>6, <2>7, LeavingIssuesNothing
  <2>9. 0 \in Generations
    BY CoreAssumption DEF Generations
  <2>10. QED
    BY <2>7, <2>8, <2>9
<1>4. \A s \in LeaseSlots : leases[s].generation \in Generations
  BY DEF IInv, TypeOK, LeaseSlot
<1>5. \A s \in LeaseSlots : NeverReused(leases[s], leases'[s])
  <2>1. \A s \in LeaseSlots \ gone : NeverReused(leases[s], leases'[s])
    BY <1>1, <1>4, CoreAssumption DEF NeverReused, Generations
  <2>2. QED
    BY <1>3, <2>1
<1>6. IssuedLeases' = IssuedLeases
  <2>1. IssuedLeases' = {i \in LeaseId : Issued(leases'[i.slot], i.generation)}
    BY DEF IssuedLeases, Issued
  <2>2. \A i \in LeaseId : i.slot \in LeaseSlots /\ i.generation \in Generations
    BY DEF LeaseId
  <2>3. ASSUME NEW i \in LeaseId
        PROVE  Issued(leases'[i.slot], i.generation)
                 <=> Issued(leases[i.slot], i.generation)
    BY <1>1, <1>3, <2>2
  <2>4. QED
    BY <2>1, <2>3, IssuedBySlot
<1>7. HeldLeases' = HeldLeases \ given
  <2>1. ActiveLeases' = ActiveLeases \ gone
    BY <1>1, <1>3 DEF ActiveLeases
  <2>2. \A s \in ActiveLeases \ gone : AsLease(s)' = AsLease(s)
    BY <1>1 DEF AsLease, ActiveLeases
  <2>3. HeldLeases' = {AsLease(s) : s \in ActiveLeases \ gone}
    BY <2>1, <2>2 DEF HeldLeases
  <2>4. ActiveLeases \subseteq LeaseSlots
    BY DEF ActiveLeases
  <2>5. QED
    BY <2>3, <2>4, LeasesDiffer DEF HeldLeases
<1>8. \E unsafe \in SUBSET {l.provider : l \in given} :
        Quarantined' = Quarantined \cup unsafe
  <2> DEFINE unsafe == {leases[s].provider : s \in failed}
  <2>1. Quarantined' = Quarantined \cup unsafe
    <3>1. \A s \in failed : leases[s].provider \in Providers
      BY DEF ActiveLeases, IInv, SlotsOK
    <3>2. \A p \in Providers : provider_state'[p].quarantined
            <=> provider_state[p].quarantined \/ \E s \in failed : leases[s].provider = p
      BY DEF CleanUp
    <3>3. QED
      BY <3>1, <3>2 DEF Quarantined
  <2>2. unsafe \in SUBSET {l.provider : l \in given}
    <3>1. \A s \in failed : AsLease(s) \in given /\ AsLease(s).provider = leases[s].provider
      BY DEF AsLease
    <3>2. QED
      BY <3>1
  <2>3. QED
    BY <2>1, <2>2
<1>9. QED
  BY <1>5, <1>6, <1>7, <1>8

(***************************************************************************)
(* hk_capability_core_owner_close gives up every lease of the owner.       *)
(***************************************************************************)
LEMMA OwnerCloseRefines ==
  ASSUME IInv, IInv', NEW o \in OwnerHandle, OwnerClose(o)
  PROVE  Registry!Close(o)
<1>1. PICK failed \in SUBSET LeasesOf(o) : CleanUp(LeasesOf(o), failed)
  BY DEF OwnerClose
<1>2. LeasesOf(o) \in SUBSET ActiveLeases
  BY DEF LeasesOf, ActiveLeases
<1>3. /\ o.slot \in OwnerSlots /\ ValidOwner(o)
      /\ owners' = [owners EXCEPT ![o.slot] = retire_or_advance_owner(owners[o.slot])]
  BY DEF OwnerClose, OwnerHandle
<1> DEFINE given == {AsLease(s) : s \in LeasesOf(o)}
<1>4. /\ HeldLeases' = HeldLeases \ given
      /\ IssuedLeases' = IssuedLeases
      /\ \E unsafe \in SUBSET {l.provider : l \in given} :
           Quarantined' = Quarantined \cup unsafe
  BY <1>1, <1>2, CleanUpGivesUp
<1>5. given = {l \in HeldLeases : l.owner = o}
  <2>1. \A s \in ActiveLeases : AsLease(s).owner = leases[s].owner
    BY DEF AsLease
  <2>2. LeasesOf(o) = {s \in ActiveLeases : leases[s].owner = o}
    BY DEF LeasesOf, ActiveLeases
  <2>3. QED
    BY <2>1, <2>2 DEF HeldLeases
<1>6. /\ \A t \in OwnerSlots : t # o.slot => owners'[t] = owners[t]
      /\ owners'[o.slot] = retire_or_advance_owner(owners[o.slot])
      /\ owners[o.slot] \in OwnerSlot
  BY <1>3 DEF IInv, TypeOK
<1>7. /\ owners[o.slot].active /\ ~owners[o.slot].retired
      /\ owners[o.slot].generation \in Generations \ {0}
      /\ owners[o.slot].retired \in BOOLEAN
  BY <1>3, <1>6 DEF IInv, SlotsOK, ValidOwner, OwnerSlot
<1>8. /\ owners'[o.slot].active = FALSE
      /\ owners'[o.slot].generation = NextGeneration(owners[o.slot])
  BY <1>6 DEF retire_or_advance_owner
<1>9. owners'[o.slot].retired
        = (owners[o.slot].retired \/ owners[o.slot].generation = MaxGeneration)
  BY <1>6 DEF retire_or_advance_owner, Retires
<1>10. \A x \in OwnerHandle : x.slot \in OwnerSlots /\ x.generation \in Generations
  BY DEF OwnerHandle
<1>11. IssuedOwners' = IssuedOwners
  <2>1. IssuedOwners' = {x \in OwnerHandle : Issued(owners'[x.slot], x.generation)}
    BY DEF IssuedOwners, Issued
  <2>2. /\ owners'[o.slot].retired <=> Retires(owners[o.slot])
        /\ owners'[o.slot].retired \in BOOLEAN
        /\ ~owners'[o.slot].active
    BY <1>7, <1>8, <1>9 DEF Retires
  <2>3. \A g \in Generations :
          Issued(owners'[o.slot], g) <=> Issued(owners[o.slot], g)
    BY <1>7, <1>8, <2>2, LeavingIssuesNothing
  <2>4. ASSUME NEW x \in OwnerHandle
        PROVE  Issued(owners'[x.slot], x.generation)
                 <=> Issued(owners[x.slot], x.generation)
    BY <1>6, <1>10, <2>3
  <2>5. QED
    BY <2>1, <2>4, IssuedBySlot
<1>12. OpenOwners' = OpenOwners \ {o} /\ o \in OpenOwners
  <2>1. ASSUME NEW x \in OwnerHandle
        PROVE  ValidOwner(x)' <=> ValidOwner(x) /\ x # o
    <3>1. CASE x.slot = o.slot
      <4>1. x = o <=> x.generation = o.generation
        BY <3>1 DEF OwnerHandle
      <4>2. QED
        BY <1>3, <1>8, <3>1, <4>1 DEF ValidOwner
    <3>2. CASE x.slot # o.slot
      BY <1>6, <1>10, <3>2 DEF ValidOwner
    <3>3. QED
      BY <3>1, <3>2
  <2>2. QED
    BY <1>3, <2>1 DEF OpenOwners
<1>13. QED
  <2> HIDE DEF given
  <2>1. HeldLeases' = HeldLeases \ {l \in HeldLeases : l.owner = o}
    BY <1>4, <1>5
  <2>2. \E unsafe \in SUBSET {l.provider : l \in {m \in HeldLeases : m.owner = o}} :
          Quarantined' = Quarantined \cup unsafe
    BY <1>4, <1>5
  <2>3. QED
    BY <1>4, <1>11, <1>12, <2>1, <2>2
       DEF Registry!Close, Registry!GiveUp, OpenOwners, HeldLeases, ActiveLeases,
           Quarantined

(***************************************************************************)
(* The registry counts as the core does.                                   *)
(***************************************************************************)
LEMMA SameCardinality ==
  ASSUME NEW S
  PROVE  Registry!Cardinality(S) = Cardinality(S)
<1>1. QED
  BY DEF Cardinality, Registry!Cardinality

(***************************************************************************)
(* hk_capability_core_acquire lends a lease whose identity is new, to an   *)
(* open owner, from a provider that is not quarantined and below its limit.*)
(***************************************************************************)
LEMMA AcquireRefines ==
  ASSUME IInv, IInv', NEW o \in OwnerHandle, NEW r \in Requests, NEW core \in Cores,
         Acquire(o, r, core)
  PROVE  \E l \in Registry!Lease : Registry!Lend(l)
<1> DEFINE q == r.provider
<1>1. PICK s \in LeaseSlots :
        /\ ~leases[s].active /\ ~leases[s].retired
        /\ leases' = [leases EXCEPT ![s] =
             [active |-> TRUE, retired |-> FALSE,
              generation |-> FirstGeneration(leases[s]),
              owner |-> o, provider |-> q]]
  BY DEF Acquire, FirstFree
<1>2. /\ provider_state' =
           [provider_state EXCEPT ![q].active_leases =
              provider_state[q].active_leases + 1]
      /\ UNCHANGED owners
      /\ ValidOwner(o)
      /\ ~provider_state[q].quarantined
      /\ ~(Info[q].exclusive /\ provider_state[q].active_leases > 0)
      /\ provider_state[q].active_leases < Info[q].max_leases
  BY DEF Acquire, MayAcquire
<1>3. q \in Providers
  BY CoreAssumption DEF Request
<1> DEFINE g == FirstGeneration(leases[s])
           l == [id |-> [slot |-> s, generation |-> g], owner |-> o, provider |-> q]
<1>4. /\ leases[s].generation \in Generations
      /\ \A t \in LeaseSlots : t # s => leases'[t] = leases[t]
      /\ leases'[s] = [active |-> TRUE, retired |-> FALSE, generation |-> g,
                       owner |-> o, provider |-> q]
  BY <1>1 DEF IInv, TypeOK, LeaseSlot
<1>5. g \in Generations /\ g # 0
  BY <1>4, CoreAssumption DEF FirstGeneration, Generations
<1>6. l \in Registry!Lease
  BY <1>3, <1>5 DEF Registry!Lease, LeaseId
<1>7. /\ ~Issued(leases[s], g)
      /\ \A h \in Generations :
           Issued(leases'[s], h) <=> Issued(leases[s], h) \/ h = g
  BY <1>1, <1>4, TakingIssuesOne
<1>8. IssuedLeases' = IssuedLeases \cup {l.id} /\ l.id \notin IssuedLeases
  <2>1. l.id \in LeaseId /\ l.id.slot = s /\ l.id.generation = g
    BY <1>5 DEF LeaseId
  <2>2. \A i \in LeaseId : i.slot \in LeaseSlots /\ i.generation \in Generations
    BY DEF LeaseId
  <2>3. \A i \in LeaseId : i = l.id <=> i.slot = s /\ i.generation = g
    BY DEF LeaseId
  <2> HIDE DEF l, g
  <2>4. ASSUME NEW i \in LeaseId
        PROVE  Issued(leases'[i.slot], i.generation)
                 <=> Issued(leases[i.slot], i.generation) \/ i = l.id
    BY <1>4, <1>7, <2>2, <2>3
  <2>5. IssuedLeases' = {i \in LeaseId : Issued(leases'[i.slot], i.generation)}
    BY DEF IssuedLeases, Issued
  <2>6. QED
    BY <1>7, <2>1, <2>4, <2>5, IssuedBySlot
<1>9. HeldLeases' = HeldLeases \cup {l}
  <2>1. ActiveLeases' = ActiveLeases \cup {s}
    BY <1>4 DEF ActiveLeases
  <2>2. \A t \in ActiveLeases : AsLease(t)' = AsLease(t)
    BY <1>1, <1>4 DEF AsLease, ActiveLeases
  <2>3. AsLease(s)' = l
    BY <1>4 DEF AsLease
  <2>4. HeldLeases' = {AsLease(t)' : t \in ActiveLeases \cup {s}}
    BY <2>1 DEF HeldLeases
  <2>5. QED
    BY <2>2, <2>3, <2>4 DEF HeldLeases
<1>10. Cardinality({m \in HeldLeases : m.provider = q}) < LeaseLimit(q)
  <2> DEFINE T == {m \in HeldLeases : m.provider = q}
             f == [t \in LeasesOn(q) |-> AsLease(t)]
  <2>1. \A t \in ActiveLeases : AsLease(t).provider = leases[t].provider
    BY DEF AsLease
  <2>2. f \in Surjection(LeasesOn(q), T)
    BY <2>1 DEF Surjection, LeasesOn, HeldLeases, ActiveLeases
  <2>3. IsFiniteSet(LeasesOn(q)) /\ Cardinality(LeasesOn(q)) \in Nat
    BY LeasesFinite DEF LeasesOn
  <2> HIDE DEF T, f
  <2>4. /\ Cardinality(T) <= Cardinality(LeasesOn(q))
        /\ Cardinality(T) \in Nat
    BY <2>2, <2>3, FS_Surjection, FS_CardinalityType
  <2>5. Cardinality(LeasesOn(q)) < LeaseLimit(q)
    BY <1>2, <1>3, <2>3, CoreAssumption DEF IInv, LeaseAccounting, LeaseLimit
  <2>6. LeaseLimit(q) \in Nat
    BY <1>3, CoreAssumption DEF LeaseLimit
  <2>7. QED
    BY <2>3, <2>4, <2>5, <2>6 DEF T
<1>11. /\ UNCHANGED <<OpenOwners, IssuedOwners, Quarantined>>
       /\ o \in OpenOwners /\ q \notin Quarantined
  BY <1>2, <1>3 DEF OpenOwners, ValidOwner, IssuedOwners, Quarantined, IInv, TypeOK
<1>12. /\ l.owner = o /\ l.provider = q
       /\ [p \in Providers |-> LeaseLimit(p)][q] = LeaseLimit(q)
  BY <1>3
<1>13. PICK lease : lease = l
  OBVIOUS
<1>14. Registry!Lend(lease)
  <2> HIDE DEF l, q
  <2>1. /\ l.id \notin IssuedLeases /\ l.owner \in OpenOwners
        /\ l.provider \notin Quarantined
        /\ Registry!Cardinality({m \in HeldLeases : m.provider = l.provider})
             < [p \in Providers |-> LeaseLimit(p)][l.provider]
    BY <1>8, <1>10, <1>11, <1>12, SameCardinality
  <2>2. QED
    BY <1>8, <1>9, <1>11, <1>13, <2>1
       DEF Registry!Lend, OpenOwners, HeldLeases, ActiveLeases, Quarantined
<1>15. QED
  BY <1>6, <1>13, <1>14

(***************************************************************************)
(* A lease that validate_lease accepts is held.                            *)
(***************************************************************************)
LEMMA ValidLeaseHeld ==
  ASSUME IInv, NEW o \in OwnerHandle, NEW h \in LeaseHandle, NEW core \in Cores,
         ValidLease(o, h, core, TRUE)
  PROVE  /\ h.slot \in ActiveLeases
         /\ AsLease(h.slot) \in HeldLeases
         /\ AsLease(h.slot) \in Registry!Lease
         /\ AsLease(h.slot).provider = leases[h.slot].provider
<1>1. h.slot \in ActiveLeases
  BY DEF ValidLease, LeaseHandle, ActiveLeases
<1>2. /\ leases[h.slot].generation \in Generations
      /\ leases[h.slot].owner \in OwnerHandle
      /\ leases[h.slot].provider \in Providers
  BY <1>1 DEF ActiveLeases, IInv, SlotsOK, TypeOK, LeaseSlot
<1>3. QED
  BY <1>1, <1>2 DEF HeldLeases, AsLease, Registry!Lease, LeaseId, ActiveLeases

(***************************************************************************)
(* hk_capability_core_release gives up the one lease.                      *)
(***************************************************************************)
LEMMA ReleaseRefines ==
  ASSUME IInv, IInv', NEW o \in OwnerHandle, NEW h \in LeaseHandle, NEW core \in Cores,
         Release(o, h, core)
  PROVE  \E l \in Registry!Lease : Registry!Return(l)
<1>1. PICK failed \in SUBSET {h.slot} : CleanUp({h.slot}, failed)
  BY DEF Release
<1> DEFINE l == AsLease(h.slot)
<1>2. h.slot \in ActiveLeases /\ l \in HeldLeases /\ l \in Registry!Lease
  BY ValidLeaseHeld DEF Release
<1>3. {h.slot} \in SUBSET ActiveLeases
  BY <1>2
<1>4. {AsLease(s) : s \in {h.slot}} = {l}
  OBVIOUS
<1>5. /\ HeldLeases' = HeldLeases \ {AsLease(s) : s \in {h.slot}}
      /\ IssuedLeases' = IssuedLeases
      /\ \E unsafe \in SUBSET {m.provider : m \in {AsLease(s) : s \in {h.slot}}} :
           Quarantined' = Quarantined \cup unsafe
  BY <1>1, <1>3, CleanUpGivesUp
<1> HIDE DEF l
<1>6. /\ HeldLeases' = HeldLeases \ {l}
      /\ IssuedLeases' = IssuedLeases
      /\ \E unsafe \in SUBSET {m.provider : m \in {l}} :
           Quarantined' = Quarantined \cup unsafe
  BY <1>4, <1>5
<1>7. UNCHANGED <<OpenOwners, IssuedOwners>>
  BY DEF Release, OpenOwners, ValidOwner, IssuedOwners
<1>8. PICK lease : lease = l
  OBVIOUS
<1>9. Registry!Return(lease)
  BY <1>2, <1>6, <1>7, <1>8
     DEF Registry!Return, Registry!GiveUp, OpenOwners, HeldLeases, ActiveLeases,
         Quarantined
<1>10. QED
  BY <1>2, <1>8, <1>9

(***************************************************************************)
(* Quarantine and recovery: the provider quarantined bears the lease, the  *)
(* one recovered bears none.                                               *)
(***************************************************************************)
LEMMA QuarantineRefines ==
  ASSUME IInv, IInv', NEW o \in OwnerHandle, NEW h \in LeaseHandle, NEW core \in Cores,
         QuarantineLease(o, h, core)
  PROVE  \E l \in Registry!Lease : Registry!Quarantine(l)
<1> DEFINE l == AsLease(h.slot)
           p == leases[h.slot].provider
<1>1. /\ h.slot \in ActiveLeases /\ l \in HeldLeases /\ l \in Registry!Lease
      /\ l.provider = p
  BY ValidLeaseHeld DEF QuarantineLease
<1>2. p \in Providers
  BY <1>1 DEF ActiveLeases, IInv, SlotsOK
<1>3. /\ provider_state' = [provider_state EXCEPT ![p].quarantined = TRUE]
      /\ UNCHANGED <<owners, leases>>
  BY DEF QuarantineLease
<1> HIDE DEF l
<1>4. Quarantined' = Quarantined \cup {l.provider}
  BY <1>1, <1>2, <1>3 DEF Quarantined, IInv, TypeOK
<1>5. UNCHANGED <<OpenOwners, IssuedOwners, HeldLeases, IssuedLeases>>
  BY <1>3 DEF OpenOwners, ValidOwner, IssuedOwners, HeldLeases, ActiveLeases,
     AsLease, IssuedLeases
<1>6. PICK lease : lease = l
  OBVIOUS
<1>7. Registry!Quarantine(lease)
  BY <1>1, <1>4, <1>5, <1>6
     DEF Registry!Quarantine, OpenOwners, HeldLeases, ActiveLeases, Quarantined
<1>8. QED
  BY <1>1, <1>6, <1>7

\* A provider that recovers has no lease left: a Recover of the registry.
LEMMA RecoverRefines ==
  ASSUME IInv, IInv', NEW p \in Providers, NEW core \in Cores, Recover(p, core)
  PROVE  Registry!Recover(p)
<1>1. /\ provider_state' = [provider_state EXCEPT ![p].quarantined = FALSE]
      /\ UNCHANGED <<owners, leases>>
      /\ provider_state[p].active_leases = 0
  BY DEF Recover
<1>2. LeasesOn(p) = {}
  <2>1. IsFiniteSet(LeasesOn(p)) /\ Cardinality(LeasesOn(p)) = 0
    BY <1>1, LeasesFinite DEF IInv, LeaseAccounting, LeasesOn
  <2>2. QED
    BY <2>1, FS_EmptySet
<1>3. \A l \in HeldLeases : l.provider # p
  BY <1>2 DEF HeldLeases, ActiveLeases, AsLease, LeasesOn
<1>4. Quarantined' = Quarantined \ {p}
  BY <1>1 DEF Quarantined, IInv, TypeOK
<1>5. UNCHANGED <<OpenOwners, IssuedOwners, HeldLeases, IssuedLeases>>
  BY <1>1 DEF OpenOwners, ValidOwner, IssuedOwners, HeldLeases, ActiveLeases,
     AsLease, IssuedLeases
<1>6. QED
  BY <1>3, <1>4, <1>5
     DEF Registry!Recover, OpenOwners, HeldLeases, ActiveLeases, Quarantined

(***************************************************************************)
(* Every step of the table is a step of the registry, or none.             *)
(***************************************************************************)
LEMMA NextRefines ==
  IInv /\ IInv' /\ [Next]_vars => [Registry!Next]_(Registry!vars)
<1> SUFFICES ASSUME IInv, IInv', [Next]_vars
             PROVE  [Registry!Next]_(Registry!vars)
  OBVIOUS
<1>1. CASE \E grants \in GrantSets : OwnerOpen(grants)
  BY <1>1, OwnerOpenRefines DEF Registry!Next
<1>2. CASE \E o \in OwnerHandle : OwnerClose(o)
  BY <1>2, OwnerCloseRefines DEF Registry!Next
<1>3. CASE \E o \in OwnerHandle, r \in Requests, core \in Cores : Acquire(o, r, core)
  BY <1>3, AcquireRefines DEF Registry!Next
<1>4. CASE \E o \in OwnerHandle, h \in LeaseHandle, core \in Cores :
             QuarantineLease(o, h, core) \/ Release(o, h, core)
  BY <1>4, QuarantineRefines, ReleaseRefines DEF Registry!Next
<1>5. CASE \E p \in Providers, core \in Cores : Recover(p, core)
  BY <1>5, RecoverRefines DEF Registry!Next
<1>6. CASE UNCHANGED vars
  BY <1>6 DEF vars, Registry!vars, ValidOwner, IssuedOwners, IssuedLeases, AsLease
<1>7. QED
  BY <1>1, <1>2, <1>3, <1>4, <1>5, <1>6 DEF Next

\* The registry starts with no lease and no failed provider.
LEMMA InitRefines == Init => Registry!Init
<1> SUFFICES ASSUME Init PROVE Registry!Init
  OBVIOUS
<1>1. /\ \A o \in OwnerHandle : o.slot \in OwnerSlots /\ o.generation \in Nat
      /\ \A i \in LeaseId : i.slot \in LeaseSlots /\ i.generation \in Nat
  BY CoreAssumption DEF OwnerHandle, LeaseId, Generations
<1>2. \A o \in OwnerHandle : ~ValidOwner(o)
  BY <1>1 DEF Init, ValidOwner
<1>3. IssuedOwners = {} /\ IssuedLeases = {}
  BY <1>1 DEF Init, IssuedOwners, IssuedLeases
<1>4. {t \in LeaseSlots : leases[t].active} = {}
  BY DEF Init
<1>5. {p \in Providers : provider_state[p].quarantined} = {}
  BY DEF Init
<1>6. QED
  BY <1>2, <1>3, <1>4, <1>5 DEF Registry!Init

(***************************************************************************)
(* The core of capability_core.c implements the registry: identities that  *)
(* are never issued twice, leases that die with their owner, providers     *)
(* never leased past their limit nor while quarantined, and recovered only *)
(* once no lease is left on them.                                          *)
(***************************************************************************)
THEOREM RegistryImplemented == Spec => ImplementsRegistry
<1>1. QED
  BY InitRefines, NextRefines, IInvHolds, PTL
     DEF Spec, ImplementsRegistry, Registry!Spec

-----------------------------------------------------------------------------
\* What HandlesNeverReused says of one step.
StepReusesNothing ==
  /\ \A s \in OwnerSlots : NeverReused(owners[s], owners'[s])
  /\ \A s \in LeaseSlots : NeverReused(leases[s], leases'[s])

(***************************************************************************)
(* A slot no call touches is not reused.                                   *)
(***************************************************************************)
LEMMA UntouchedNotReused ==
  ASSUME IInv
  PROVE  /\ \A s \in OwnerSlots : NeverReused(owners[s], owners[s])
         /\ \A s \in LeaseSlots : NeverReused(leases[s], leases[s])
<1>1. /\ \A s \in OwnerSlots : owners[s].generation \in Nat
      /\ \A s \in LeaseSlots : leases[s].generation \in Nat
  BY CoreAssumption DEF IInv, TypeOK, OwnerSlot, LeaseSlot, Generations
<1>2. QED
  BY <1>1 DEF NeverReused

(***************************************************************************)
(* No operation puts a slot back into a generation it has left.            *)
(***************************************************************************)
LEMMA NextReusesNothing ==
  ASSUME IInv, Next
  PROVE  StepReusesNothing
<1>1. 0 \in Generations
  BY CoreAssumption DEF Generations
<1>2. ASSUME NEW grants \in GrantSets, OwnerOpen(grants)
      PROVE  StepReusesNothing
  <2>1. PICK s \in OwnerSlots :
          /\ ~owners[s].active /\ ~owners[s].retired
          /\ owners' = [owners EXCEPT ![s] =
               [active |-> TRUE, retired |-> FALSE,
                generation |-> FirstGeneration(owners[s]), grants |-> grants]]
          /\ leases' = leases
    BY <1>2 DEF OwnerOpen, FirstFree
  <2>2. /\ owners[s].generation \in Generations
        /\ owners'[s].active
        /\ owners'[s].generation = FirstGeneration(owners[s])
        /\ \A t \in OwnerSlots : t # s => owners'[t] = owners[t]
    BY <2>1 DEF IInv, TypeOK, OwnerSlot
  <2>3. NeverReused(owners[s], owners'[s])
    BY <1>1, <2>1, <2>2, TakingIssuesOne
  <2>4. QED
    BY <2>1, <2>2, <2>3, UntouchedNotReused DEF StepReusesNothing
<1>3. ASSUME NEW o \in OwnerHandle, OwnerClose(o)
      PROVE  StepReusesNothing
  <2>1. \A s \in LeaseSlots : NeverReused(leases[s], leases'[s])
    <3>1. PICK failed \in SUBSET LeasesOf(o) : CleanUp(LeasesOf(o), failed)
      BY <1>3 DEF OwnerClose
    <3>2. LeasesOf(o) \in SUBSET ActiveLeases
      BY DEF LeasesOf, ActiveLeases
    <3>3. QED
      BY <3>1, <3>2, CleanUpGivesUp
  <2>2. /\ o.slot \in OwnerSlots /\ owners[o.slot].active
        /\ owners' = [owners EXCEPT ![o.slot] = retire_or_advance_owner(owners[o.slot])]
    BY <1>3 DEF OwnerClose, ValidOwner, OwnerHandle
  <2>3. /\ owners[o.slot].generation \in Generations \ {0}
        /\ owners[o.slot].retired \in BOOLEAN /\ ~owners[o.slot].retired
    BY <2>2 DEF IInv, TypeOK, SlotsOK, OwnerSlot
  <2>4. /\ owners'[o.slot] = retire_or_advance_owner(owners[o.slot])
        /\ \A t \in OwnerSlots : t # o.slot => owners'[t] = owners[t]
    BY <2>2 DEF IInv, TypeOK
  <2>5. /\ owners'[o.slot].active = FALSE
        /\ owners'[o.slot].retired =
             (owners[o.slot].retired \/ owners[o.slot].generation = MaxGeneration)
        /\ owners'[o.slot].generation = NextGeneration(owners[o.slot])
    BY <2>4 DEF retire_or_advance_owner, Retires
  <2>6. owners'[o.slot].retired \in BOOLEAN
    BY <2>5
  <2>7. owners'[o.slot].retired <=> Retires(owners[o.slot])
    BY <2>5 DEF Retires
  <2>8. NeverReused(owners[o.slot], owners'[o.slot])
    BY <1>1, <2>2, <2>3, <2>5, <2>6, <2>7, LeavingIssuesNothing
  <2>9. QED
    BY <2>1, <2>4, <2>8, UntouchedNotReused DEF StepReusesNothing
<1>4. ASSUME NEW o \in OwnerHandle, NEW r \in Requests, NEW core \in Cores,
             Acquire(o, r, core)
      PROVE  StepReusesNothing
  <2>1. PICK s \in LeaseSlots :
          /\ ~leases[s].active /\ ~leases[s].retired
          /\ leases' = [leases EXCEPT ![s] =
               [active |-> TRUE, retired |-> FALSE,
                generation |-> FirstGeneration(leases[s]),
                owner |-> o, provider |-> r.provider]]
    BY <1>4 DEF Acquire, FirstFree
  <2>2. /\ leases[s].generation \in Generations
        /\ leases'[s].active
        /\ leases'[s].generation = FirstGeneration(leases[s])
        /\ \A t \in LeaseSlots : t # s => leases'[t] = leases[t]
    BY <2>1 DEF IInv, TypeOK, LeaseSlot
  <2>3. NeverReused(leases[s], leases'[s])
    BY <1>1, <2>1, <2>2, TakingIssuesOne
  <2>4. owners' = owners
    BY <1>4 DEF Acquire
  <2>5. QED
    BY <2>2, <2>3, <2>4, UntouchedNotReused DEF StepReusesNothing
<1>5. ASSUME NEW o \in OwnerHandle, NEW h \in LeaseHandle, NEW core \in Cores,
             Release(o, h, core)
      PROVE  StepReusesNothing
  <2>1. PICK failed \in SUBSET {h.slot} : CleanUp({h.slot}, failed)
    BY <1>5 DEF Release
  <2>2. {h.slot} \in SUBSET ActiveLeases
    BY <1>5, ValidLeaseHeld DEF Release
  <2>3. owners' = owners
    BY <1>5 DEF Release
  <2>4. QED
    BY <2>1, <2>2, <2>3, CleanUpGivesUp, UntouchedNotReused DEF StepReusesNothing
<1>6. CASE UNCHANGED <<owners, leases>>
  BY <1>6, UntouchedNotReused DEF StepReusesNothing
<1>7. QED
  BY <1>2, <1>3, <1>4, <1>5, <1>6 DEF Next, QuarantineLease, Recover

(***************************************************************************)
(* A handle that capability_core.c has stopped accepting is never accepted *)
(* again, whatever is opened, closed, acquired and released after it.      *)
(***************************************************************************)
THEOREM NeverReusedHolds == Spec => HandlesNeverReused
<1>1. IInv /\ [Next]_vars => [StepReusesNothing]_vars
  BY NextReusesNothing
<1>2. QED
  BY <1>1, IInvHolds, PTL DEF Spec, HandlesNeverReused, StepReusesNothing
===============================================================================
