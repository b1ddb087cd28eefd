------------------------------- MODULE BatchLease -------------------------------
(***************************************************************************)
(* BatchLease, the writer lease of a batch on one host's file system: the  *)
(* file lease.json names its owner (a token, a pid and a host), and is     *)
(* read and replaced under a FileLock, the guard.  A lease whose process   *)
(* is gone is stale, and the next claim takes it over.                     *)
(*                                                                         *)
(* A claim is one BatchLease object with its own token.  Several claims    *)
(* may come from one process, as in the GUI.  A pid names whatever process *)
(* has it now: of this program or not, the one that wrote the lease or a   *)
(* later one.  inspect_batch_lease reads the file without the guard.       *)
(***************************************************************************)
EXTENDS FiniteSets

CONSTANTS
    Claims,     \* the attempts to take the lease
    NoClaim,    \* no lease file, no guard holder
    Hosts,      \* host names
    Pids        \* process identifiers of a host

ASSUME ClaimsAssumption == NoClaim \notin Claims /\ Hosts # {} /\ Pids # {}

VARIABLES
    file,       \* the claim whose owner lease.json holds, or NoClaim
    guard,      \* the claim that holds the FileLock, or NoClaim
    place,      \* where each claim is
    seen,       \* the owner acquire read, for _reclaim_stale to compare
    proc,       \* the host and pid of each claim; never changes
    alive,      \* the processes that exist
    probe       \* one caller of inspect_batch_lease

leaseVars == <<file, guard, place, seen, proc, alive, probe>>

Procs == [host : Hosts, pid : Pids]
MaybeClaim == Claims \union {NoClaim}

\* The program counter: "new" before acquire; "waiting" to "syncing" in it;
\* "held"; "leaving" and "unlinking" in release; "done" after it or a refusal;
\* "gone" with the process.
Guarded == {"checking", "reclaiming", "writing", "syncing", "unlinking"}
Active == Guarded \union {"waiting", "held", "leaving"}
Steps == Active \union {"new", "done", "gone"}

Probes == [pc : {"idle", "read", "alive", "stale", "missing", "invalid", "active"},
           owner : MaybeClaim, host : Hosts, free : {"no", "yes"}]

Holders == {c \in Claims : place[c] = "held"}

InitLease ==
    /\ file = NoClaim /\ guard = NoClaim
    /\ place = [c \in Claims |-> "new"]
    /\ seen = [c \in Claims |-> NoClaim]
    /\ proc \in [Claims -> Procs]
    /\ alive = {}
    /\ probe \in [pc : {"idle"}, owner : {NoClaim}, host : Hosts, free : {"no"}]

-----------------------------------------------------------------------------
(* Processes                                                                *)

\* The file the process p finds names an owner that it takes for gone.
TakenForDead(p, owner) ==
    /\ proc[owner].host = p.host
    /\ proc[owner] \notin alive

\* history of an inspection: was there a moment with no holder?
Watch(holders) ==
    probe' = IF holders = {} /\ probe.pc \in {"read", "alive"}
             THEN [probe EXCEPT !.free = "yes"] ELSE probe

\* A process gets a free pid: one of this program's, or any other.
Born(p) ==
    /\ p \notin alive
    /\ alive' = alive \union {p}
    /\ UNCHANGED <<file, guard, place, seen, proc, probe>>

\* A process ends or is killed: its claims stop where they are, and the
\* operating system drops its file lock.
Die(p) ==
    /\ p \in alive
    /\ alive' = alive \ {p}
    /\ place' = [c \in Claims |-> IF proc[c] = p /\ place[c] \in Active THEN "gone" ELSE place[c]]
    /\ guard' = IF guard # NoClaim /\ proc[guard] = p THEN NoClaim ELSE guard
    /\ Watch({c \in Holders : proc[c] # p})
    /\ UNCHANGED <<file, seen, proc>>

Goto(c, step) == place' = [place EXCEPT ![c] = step]

-----------------------------------------------------------------------------
(* acquire                                                                  *)

Begin(c) ==
    /\ place[c] = "new" /\ proc[c] \in alive
    /\ Goto(c, "waiting")
    /\ UNCHANGED <<file, guard, seen, proc, alive, probe>>

\* Mutant: the guard is not waited for.
TakeGuard_NoWait(c) ==
    /\ \/ place[c] = "waiting" /\ Goto(c, "checking")
       \/ place[c] = "leaving" /\ Goto(c, "unlinking")
    /\ guard' = c
    /\ UNCHANGED <<file, seen, proc, alive, probe>>

\* FileLock is free: acquire and release go on under it.
TakeGuard(c) ==
    /\ guard = NoClaim
    /\ \/ place[c] = "waiting" /\ Goto(c, "checking")
       \/ place[c] = "leaving" /\ Goto(c, "unlinking")
    /\ guard' = c
    /\ UNCHANGED <<file, seen, proc, alive, probe>>

\* FileLock's timeout: acquire raises batch.busy, release batch.lease_failed
\* and leaves the file.
GuardTimeout(c) ==
    /\ guard # NoClaim
    /\ place[c] \in {"waiting", "leaving"}
    /\ Goto(c, "done")
    /\ UNCHANGED <<file, guard, seen, proc, alive, probe>>

\* No file: write it.  A stale one: reclaim it.  A live or a remote owner:
\* batch.busy.
Check(c) ==
    /\ place[c] = "checking"
    /\ \/ file = NoClaim /\ Goto(c, "writing") /\ UNCHANGED <<guard, seen>>
       \/ /\ file # NoClaim /\ TakenForDead(proc[c], file)
          /\ seen' = [seen EXCEPT ![c] = file]
          /\ Goto(c, "reclaiming") /\ UNCHANGED guard
       \/ /\ file # NoClaim /\ ~TakenForDead(proc[c], file)
          /\ Goto(c, "done") /\ guard' = NoClaim /\ UNCHANGED seen
    /\ UNCHANGED <<file, proc, alive, probe>>

\* An error leaves the guarded block of acquire: the lease is not taken.
Refuse(c) ==
    /\ Goto(c, "done") /\ guard' = NoClaim
    /\ UNCHANGED <<file, seen, proc, alive, probe>>

\* _reclaim_stale: the owner is read again and must be the one found.
Reclaim(c) ==
    /\ place[c] = "reclaiming"
    /\ file = seen[c]
    /\ file' = NoClaim
    /\ Goto(c, "writing")
    /\ UNCHANGED <<guard, seen, proc, alive, probe>>

ReclaimFails(c) == place[c] = "reclaiming" /\ Refuse(c)

\* _atomic_write replaces the file, whatever it holds.
WriteOwner(c) ==
    /\ place[c] = "writing"
    /\ file' = c
    /\ Goto(c, "syncing")
    /\ UNCHANGED <<guard, seen, proc, alive, probe>>

WriteOwnerFails(c) == place[c] = "writing" /\ Refuse(c)

\* The directory is synced and the lease is the claim's.
Acquired(c) ==
    /\ place[c] = "syncing"
    /\ Goto(c, "held") /\ guard' = NoClaim
    /\ UNCHANGED <<file, seen, proc, alive, probe>>

\* The sync fails: the file stays, of a claim that never held it.
SyncOwnerFails(c) == place[c] = "syncing" /\ Refuse(c)

-----------------------------------------------------------------------------
(* release                                                                  *)

\* The command is over: nothing is written to the batch any more.
Release(c) ==
    /\ place[c] = "held"
    /\ Goto(c, "leaving")
    /\ Watch(Holders \ {c})
    /\ UNCHANGED <<file, guard, seen, proc, alive>>

\* The file goes if it still holds this token.
Unlink(c) ==
    /\ place[c] = "unlinking"
    /\ file' = IF file = c THEN NoClaim ELSE file
    /\ Goto(c, "done") /\ guard' = NoClaim
    /\ UNCHANGED <<seen, proc, alive, probe>>

\* OSError, or a lease that cannot be read: the file stays.
UnlinkFails(c) == place[c] = "unlinking" /\ Refuse(c)

-----------------------------------------------------------------------------
(* inspect_batch_lease                                                      *)

\* path.exists()
InspectExists ==
    /\ probe.pc \notin {"read", "alive"}
    /\ probe' = [probe EXCEPT !.pc = IF file = NoClaim THEN "missing" ELSE "read",
                              !.free = IF Holders = {} THEN "yes" ELSE "no"]
    /\ UNCHANGED <<file, guard, place, seen, proc, alive>>

\* read_owner: a file that went in the meantime is "invalid".
InspectRead ==
    /\ probe.pc = "read"
    /\ probe' = [probe EXCEPT !.pc = IF file = NoClaim THEN "invalid" ELSE "alive",
                              !.owner = file]
    /\ UNCHANGED <<file, guard, place, seen, proc, alive>>

\* Mutant: the owner's host is not compared.
InspectAlive_AnyHost ==
    /\ probe.pc = "alive"
    /\ probe' = [probe EXCEPT !.pc =
            IF [host |-> probe.host, pid |-> proc[probe.owner].pid] \in alive
            THEN "active" ELSE "stale"]
    /\ UNCHANGED <<file, guard, place, seen, proc, alive>>

\* Another host or a living pid: "active".
InspectAlive ==
    /\ probe.pc = "alive"
    /\ probe' = [probe EXCEPT !.pc =
            IF proc[probe.owner].host # probe.host \/ proc[probe.owner] \in alive
            THEN "active" ELSE "stale"]
    /\ UNCHANGED <<file, guard, place, seen, proc, alive>>

Acquire(c) ==
    \/ Begin(c) \/ TakeGuard(c) \/ GuardTimeout(c) \/ Check(c)
    \/ Reclaim(c) \/ ReclaimFails(c) \/ WriteOwner(c) \/ WriteOwnerFails(c) \/ Acquired(c) \/ SyncOwnerFails(c)

Leave(c) == Release(c) \/ Unlink(c) \/ UnlinkFails(c)

NextLease ==
    \/ \E p \in Procs : Born(p) \/ Die(p)
    \/ \E c \in Claims : Acquire(c) \/ Leave(c)
    \/ InspectExists \/ InspectRead \/ InspectAlive

SpecLease == InitLease /\ [][NextLease]_leaseVars

-----------------------------------------------------------------------------
(* Properties                                                               *)

\* The types, and the lease owner that _reclaim_stale compares with.
LeaseTypes ==
    /\ file \in MaybeClaim /\ guard \in MaybeClaim
    /\ place \in [Claims -> Steps]
    /\ seen \in [Claims -> MaybeClaim]
    /\ proc \in [Claims -> Procs]
    /\ alive \subseteq Procs
    /\ probe \in Probes
    /\ \A c \in Claims : place[c] = "reclaiming" => seen[c] # NoClaim

\* The file names whoever holds the lease, and its process lives: acquire
\* refuses every other claim, and a status read reports a running batch.
HolderNamed == \A c \in Holders : file = c /\ proc[c] \in alive

\* A reader without the guard is not misled: inspect_batch_lease answers
\* "missing", "stale" or "invalid", on which a running job is shown
\* interrupted, only if nobody held the lease at some moment of the reading.
InspectionTrue == probe.pc \in {"missing", "stale", "invalid"} => probe.free = "yes"

\* "Only a writer holding the Batch lease may repair Journal tails or rewrite
\* a Manifest" (docs/recovery.md): the claims that hold it follow one another.
Lock == INSTANCE WriterLock WITH holders <- Holders
ImplementsLock == Lock!Spec

=============================================================================
