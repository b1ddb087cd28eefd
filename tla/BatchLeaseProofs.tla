---------------------------- MODULE BatchLeaseProofs ----------------------------
(***************************************************************************)
(* The writer lease excludes, for any number of claims, processes and      *)
(* hosts, whatever dies when and whichever pid is given out again.         *)
(*                                                                         *)
(* A claim between os.replace and the end of its release is named by the   *)
(* file, and its process lives; so no other claim takes the file for       *)
(* stale.  A pid given out again can only make a stale lease look alive.   *)
(***************************************************************************)
EXTENDS BatchLease, TLAPS

\* The places at which a claim is the owner in the file.
Owning == {"syncing", "held", "leaving", "unlinking"}

\* Claims between acquire and the end of release run in a living process.
Living == \A c \in Claims : place[c] \in Active => proc[c] \in alive

\* The guard is held by the one claim in a guarded block.
GuardOwned ==
    /\ \A c \in Claims : place[c] \in Guarded => guard = c
    /\ guard # NoClaim => place[guard] \in Guarded

\* The file against the claims: it names every owning claim; it is gone when
\* a claim writes; and what a claim reclaims is nobody's.
FileTrue ==
    \A c \in Claims :
        /\ place[c] \in Owning => file = c
        /\ place[c] = "writing" => file = NoClaim
        /\ place[c] = "reclaiming" =>
              seen[c] = file /\ \A d \in Claims : place[d] \in Owning => seen[c] # d

Inv == LeaseTypes /\ Living /\ GuardOwned /\ FileTrue

-----------------------------------------------------------------------------

\* Before the first claim.
LEMMA InitInv == InitLease => Inv
<1> SUFFICES ASSUME InitLease PROVE Inv
  OBVIOUS
<1>1. probe \in Probes
  BY DEF InitLease, Probes, MaybeClaim
<1>2. LeaseTypes
  BY <1>1, ClaimsAssumption DEF InitLease, LeaseTypes, MaybeClaim, Steps
<1> QED
  BY <1>2 DEF InitLease, Inv, Living, GuardOwned, FileTrue, Active, Guarded, Owning

\* A birth only adds a process.
LEMMA BornInv == ASSUME Inv, NEW p \in Procs, Born(p) PROVE Inv'
BY DEF Inv, Born, LeaseTypes, Living, GuardOwned, FileTrue

\* A death stops the claims of the process, and frees the guard if one of them
\* had it.
LEMMA DieInv == ASSUME Inv, NEW p \in Procs, Die(p) PROVE Inv'
<1> USE DEF Inv, LeaseTypes
<1>1. \A c \in Claims : place'[c] = IF proc[c] = p /\ place[c] \in Active THEN "gone" ELSE place[c]
  BY DEF Die
<1>2. place' \in [Claims -> Steps]
  BY DEF Die, Steps
<1>3. probe' \in Probes
  BY DEF Die, Watch, Probes
<1>4. LeaseTypes'
  BY <1>1, <1>2, <1>3 DEF Die, MaybeClaim
<1>5. Living'
  BY <1>1 DEF Die, Living, Active, Guarded
<1>6. GuardOwned'
  BY <1>1 DEF Die, GuardOwned, Guarded, Active, MaybeClaim
<1>7. FileTrue'
  BY <1>1 DEF Die, FileTrue, Owning
<1> QED
  BY <1>4, <1>5, <1>6, <1>7

\* A step of one claim that leaves the processes and the probe alone keeps
\* the type invariant and the rest of Inv for its new place.
LEMMA ClaimInv ==
    ASSUME Inv, NEW c \in Claims, Acquire(c) \/ Unlink(c) \/ UnlinkFails(c)
    PROVE  Inv'
<1> USE ClaimsAssumption DEF Inv, LeaseTypes, MaybeClaim, Goto, Refuse
<1>0. UNCHANGED <<proc, alive, probe>>
  BY DEF Acquire, Begin, TakeGuard, GuardTimeout, Check, Reclaim, ReclaimFails, WriteOwner,
         WriteOwnerFails, Acquired, SyncOwnerFails, Unlink, UnlinkFails
<1>1. CASE Begin(c)
  BY <1>0, <1>1 DEF Begin, Living, GuardOwned, FileTrue, Active, Guarded, Owning, Steps
<1>2. CASE TakeGuard(c)
  BY <1>0, <1>2 DEF TakeGuard, Living, GuardOwned, FileTrue, Active, Guarded, Owning, Steps
<1>3. CASE GuardTimeout(c)
  BY <1>0, <1>3 DEF GuardTimeout, Living, GuardOwned, FileTrue, Active, Guarded, Owning, Steps
<1>4. CASE Check(c)
  BY <1>0, <1>4 DEF Check, TakenForDead, Living, GuardOwned, FileTrue, Active, Guarded, Owning, Steps
<1>5. CASE Reclaim(c)
  BY <1>0, <1>5 DEF Reclaim, Living, GuardOwned, FileTrue, Active, Guarded, Owning, Steps
<1>6. CASE ReclaimFails(c) \/ WriteOwnerFails(c) \/ SyncOwnerFails(c) \/ UnlinkFails(c)
  BY <1>0, <1>6 DEF ReclaimFails, WriteOwnerFails, SyncOwnerFails, UnlinkFails, Living, GuardOwned,
                    FileTrue, Active, Guarded, Owning, Steps
<1>7. CASE WriteOwner(c)
  BY <1>0, <1>7 DEF WriteOwner, Living, GuardOwned, FileTrue, Active, Guarded, Owning, Steps
<1>8. CASE Acquired(c)
  BY <1>0, <1>8 DEF Acquired, Living, GuardOwned, FileTrue, Active, Guarded, Owning, Steps
<1>9. CASE Unlink(c)
  BY <1>0, <1>9 DEF Unlink, Living, GuardOwned, FileTrue, Active, Guarded, Owning, Steps
<1> QED
  BY <1>1, <1>2, <1>3, <1>4, <1>5, <1>6, <1>7, <1>8, <1>9 DEF Acquire

\* The end of a command keeps Inv.
LEMMA ReleaseInv == ASSUME Inv, NEW c \in Claims, Release(c) PROVE Inv'
<1> USE DEF Inv, LeaseTypes, MaybeClaim, Goto
<1>1. probe' \in Probes
  BY DEF Release, Watch, Probes
<1> QED
  BY <1>1 DEF Release, Living, GuardOwned, FileTrue, Active, Guarded, Owning, Steps

\* The inspector writes only its own record.
LEMMA InspectInv ==
    ASSUME Inv, InspectExists \/ InspectRead \/ InspectAlive
    PROVE  Inv'
<1>1. probe' \in Probes
  BY DEF Inv, LeaseTypes, InspectExists, InspectRead, InspectAlive, Probes, MaybeClaim
<1>2. UNCHANGED <<file, guard, place, seen, proc, alive>>
  BY DEF InspectExists, InspectRead, InspectAlive
<1> QED
  BY <1>1, <1>2 DEF Inv, LeaseTypes, Living, GuardOwned, FileTrue

\* Every step keeps Inv.
LEMMA StepInv == Inv /\ [NextLease]_leaseVars => Inv'
<1> SUFFICES ASSUME Inv, [NextLease]_leaseVars PROVE Inv'
  OBVIOUS
<1>1. CASE UNCHANGED leaseVars
  BY <1>1 DEF leaseVars, Inv, LeaseTypes, Living, GuardOwned, FileTrue
<1>2. CASE NextLease
  BY <1>2, BornInv, DieInv, ClaimInv, ReleaseInv, InspectInv DEF NextLease, Leave
<1> QED
  BY <1>1, <1>2

\* Inv is an invariant of the lease.
LEMMA Invariance == SpecLease => []Inv
BY InitInv, StepInv, PTL DEF SpecLease

\* The type invariant of BatchLease.
THEOREM Typed == SpecLease => []LeaseTypes
<1>1. Inv => LeaseTypes
  BY DEF Inv
<1> QED
  BY <1>1, Invariance, PTL

\* The file names whoever holds the lease, in a living process.
THEOREM HolderIsNamed == SpecLease => []HolderNamed
<1>1. Inv => HolderNamed
  BY DEF Inv, Living, FileTrue, HolderNamed, Holders, Active, Owning
<1> QED
  BY <1>1, Invariance, PTL

-----------------------------------------------------------------------------
(* The lease implements a lock                                              *)

\* At most one claim holds the lease, and when one comes out of its guarded
\* block with it, none did.
LEMMA OneHolder ==
    ASSUME Inv
    PROVE  /\ \A c \in Holders : Holders = {c}
           /\ \A c \in Claims : place[c] = "syncing" => Holders = {}
BY DEF Inv, FileTrue, Holders, Owning

\* How a step changes the holders.
LEMMA HoldersStep ==
    ASSUME Inv, [NextLease]_leaseVars
    PROVE  \/ Holders' = Holders
           \/ \E c \in Claims : Holders = {} /\ Holders' = {c}
           \/ \E c \in Claims : Holders = {c} /\ Holders' = {}
<1> USE DEF Inv, LeaseTypes, Goto, Refuse
<1>1. CASE UNCHANGED place
  BY <1>1 DEF Holders
<1>2. ASSUME NEW c \in Claims, Acquired(c)
      PROVE  Holders = {} /\ Holders' = {c}
  BY <1>2, OneHolder DEF Acquired, Holders
<1>3. ASSUME NEW c \in Claims, Release(c)
      PROVE  Holders = {c} /\ Holders' = {}
  BY <1>3, OneHolder DEF Release, Holders
<1>4. ASSUME NEW c \in Claims, Acquire(c) \/ Unlink(c) \/ UnlinkFails(c), ~Acquired(c)
      PROVE  Holders' = Holders
  BY <1>4 DEF Acquire, Begin, TakeGuard, GuardTimeout, Check, Reclaim, ReclaimFails, WriteOwner,
              WriteOwnerFails, SyncOwnerFails, Unlink, UnlinkFails, Holders
<1>5. ASSUME NEW p \in Procs, Die(p)
      PROVE  Holders' \subseteq Holders
  BY <1>5 DEF Die, Holders
<1>6. Holders' \subseteq Holders => Holders' = Holders \/ \E c \in Claims : Holders = {c} /\ Holders' = {}
  <2>1. CASE Holders = {}
    BY <2>1
  <2>2. ASSUME NEW c \in Holders PROVE Holders = {c} /\ c \in Claims
    BY <2>2, OneHolder DEF Holders
  <2> QED
    BY <2>1, <2>2
<1>7. CASE (\E p \in Procs : Born(p)) \/ InspectExists \/ InspectRead \/ InspectAlive
  BY <1>1, <1>7 DEF Born, InspectExists, InspectRead, InspectAlive
<1> QED
  BY <1>1, <1>2, <1>3, <1>4, <1>5, <1>6, <1>7 DEF NextLease, Leave, leaseVars

\* "Only a writer holding the Batch lease may repair Journal tails or rewrite
\* a Manifest" (docs/recovery.md): the lease, with its stale owners, races for
\* the guard, deaths and failing syncs, implements the lock.
THEOREM LeaseIsLock == SpecLease => ImplementsLock
<1>1. InitLease => Lock!Init
  BY DEF InitLease, Lock!Init, Holders
<1>2. Inv /\ [NextLease]_leaseVars => [Lock!Next]_Holders
  BY HoldersStep DEF Lock!Next, Lock!Take, Lock!Give
<1> QED
  BY <1>1, <1>2, Invariance, PTL DEF SpecLease, ImplementsLock, Lock!Spec

-----------------------------------------------------------------------------
(* Reading without the guard                                                *)

\* While the inspector has seen a holder at every moment, it is the same one,
\* and it is the owner read from the file.
Watched ==
    /\ probe.pc \in {"read", "alive"} /\ probe.free = "no" => Holders # {}
    /\ probe.pc = "alive" =>
          probe.owner \in Claims /\ (probe.free = "no" => probe.owner \in Holders)
    /\ InspectionTrue

\* Each step keeps Watched: a change of holders passes through none.
LEMMA StepWatched == Inv /\ Watched /\ [NextLease]_leaseVars => Watched'
<1> SUFFICES ASSUME Inv, Watched, [NextLease]_leaseVars PROVE Watched'
  OBVIOUS
<1>0. probe \in Probes
  BY DEF Inv, LeaseTypes
<1>1. ASSUME probe' = probe, Holders \subseteq Holders' PROVE Watched'
  BY <1>1 DEF Watched, InspectionTrue
<1>2. CASE Inv' /\ Watch(Holders')
  BY <1>0, <1>2, HoldersStep, OneHolder DEF Watch, Watched, InspectionTrue, Probes
<1>3. ASSUME NEW p \in Procs, Born(p) PROVE Watched'
  BY <1>1, <1>3 DEF Born, Holders
<1>4. ASSUME NEW p \in Procs, Die(p) PROVE Watched'
  <2>1. Holders' = {c \in Holders : proc[c] # p}
    BY <1>4 DEF Die, Holders, Inv, LeaseTypes, Active
  <2> QED
    BY <1>2, <1>4, <2>1, StepInv DEF Die
<1>5. ASSUME NEW c \in Claims, Release(c) PROVE Watched'
  <2>1. Holders' = Holders \ {c}
    BY <1>5 DEF Release, Goto, Holders, Inv, LeaseTypes
  <2> QED
    BY <1>2, <1>5, <2>1, StepInv DEF Release
<1>6. ASSUME NEW c \in Claims, Acquire(c) \/ Unlink(c) \/ UnlinkFails(c) PROVE Watched'
  <2>1. probe' = probe
    BY <1>6 DEF Acquire, Begin, TakeGuard, GuardTimeout, Check, Reclaim, ReclaimFails, WriteOwner,
                WriteOwnerFails, Acquired, SyncOwnerFails, Unlink, UnlinkFails, Refuse
  <2>2. \A d \in Claims : place[d] = "held" => place'[d] = "held"
    BY <1>6 DEF Acquire, Begin, TakeGuard, GuardTimeout, Check, Reclaim, ReclaimFails, WriteOwner,
                WriteOwnerFails, Acquired, SyncOwnerFails, Unlink, UnlinkFails, Refuse, Goto, Inv, LeaseTypes
  <2> QED
    BY <1>1, <2>1, <2>2 DEF Holders
<1>7. CASE InspectExists
  <2>1. Holders' = Holders
    BY <1>7 DEF InspectExists, Holders
  <2>2. file = NoClaim => Holders = {}
    BY ClaimsAssumption DEF Inv, FileTrue, Owning, Holders
  <2>3. /\ probe'.pc \in {"missing", "read"}
        /\ probe'.pc = "missing" => file = NoClaim
        /\ probe'.free = IF Holders = {} THEN "yes" ELSE "no"
    BY <1>0, <1>7 DEF InspectExists, Probes
  <2> QED
    BY <2>1, <2>2, <2>3 DEF Watched, InspectionTrue
<1>8. CASE InspectRead
  <2>1. Holders' = Holders
    BY <1>8 DEF InspectRead, Holders
  <2>2. \A c \in Holders : file = c
    BY DEF Inv, FileTrue, Owning, Holders
  <2>3. /\ probe'.pc = IF file = NoClaim THEN "invalid" ELSE "alive"
        /\ probe'.owner = file /\ probe'.free = probe.free /\ probe.free \in {"no", "yes"}
    BY <1>0, <1>8 DEF InspectRead, Probes
  <2>4. Holders \subseteq Claims /\ (probe.free = "no" => Holders # {})
    BY <1>8 DEF InspectRead, Watched, Holders
  <2> QED
    BY <2>1, <2>2, <2>3, <2>4, ClaimsAssumption DEF Watched, InspectionTrue, Inv, LeaseTypes, MaybeClaim
<1>9. CASE InspectAlive
  BY <1>0, <1>9 DEF InspectAlive, Watched, InspectionTrue, Probes, Holders, Inv, Living, Active
<1>10. CASE UNCHANGED leaseVars
  BY <1>1, <1>10 DEF leaseVars, Holders
<1> QED
  BY <1>3, <1>4, <1>5, <1>6, <1>7, <1>8, <1>9, <1>10 DEF NextLease, Leave

\* An inspection answers "missing", "stale" or "invalid" only if nobody held
\* the lease at some moment of it.
THEOREM InspectionIsTrue == SpecLease => []InspectionTrue
<1>1. InitLease => Watched
  BY DEF InitLease, Watched, InspectionTrue
<1>2. Watched => InspectionTrue
  BY DEF Watched
<1> QED
  BY <1>1, <1>2, Invariance, StepWatched, PTL DEF SpecLease

=============================================================================
