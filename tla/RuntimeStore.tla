----------------------------- MODULE RuntimeStore -----------------------------
(***************************************************************************)
(* RuntimeManager over FilesystemRuntimeRepository: the registered         *)
(* Runtimes, their version directories and one active slot on one file     *)
(* system, under commands of several processes.  Each command first        *)
(* recovers what an interrupted one left, then does its work; both under   *)
(* the manager lock, which is free in between.  A use lock per Runtime     *)
(* keeps a worker and a removal apart.                                     *)
(*                                                                         *)
(* A step is one durable change or one lock, so an interruption (an I/O    *)
(* error, the death of the process) may come between any two.  A payload   *)
(* is whole or not; manifests, hashes and archives decide only whether a   *)
(* check passes.  All Runtimes here share one (backend, target) slot.      *)
(***************************************************************************)
EXTENDS Naturals, FiniteSets

CONSTANTS
    Managed,          \* Runtimes the manager installs
    External,         \* Runtimes registered in developer mode
    Procs,            \* processes that give commands
    Users,            \* worker clients that hold a Runtime in use
    None,             \* no Runtime, nobody
    MaxCommands,      \* bound: commands that change something
    MaxInterruptions  \* bound: interruptions and power losses

Runtimes == Managed \union External

ASSUME RuntimesAssumption ==
    /\ None \notin Runtimes \union Procs \union Users
    /\ Managed \intersect External = {} /\ Procs \intersect Users = {}
    /\ MaxCommands \in Nat /\ MaxInterruptions \in Nat

VARIABLES
    rec,        \* the registered state of each Runtime
    dir,        \* the version directory of each managed Runtime
    ptr,        \* the active slot in active.json
    use,        \* who holds the lock on the Runtime's use lock file
    cmd,        \* the command of each process: its operation, the Runtime it
                \* is about and where it is
    user,       \* where each worker client is, and its Runtime
    litter,     \* a transaction directory is left in staging
    past,       \* what deletions that no directory was synced after may leave
                \* on the disk: the record and the directory of each Runtime
    commands, interruptions

storeVars == <<rec, dir, ptr, use, cmd, user, litter, past, commands, interruptions>>

States == {"none", "installed", "available", "failed", "unverified", "verified"}
\* A littered directory has its payload and the temporary file of a record.
Dirs == {"none", "empty", "broken", "littered", "whole"}
Operations == {"list", "install", "stage", "activate", "rollback", "register", "remove", "doctor"}

Waiting == {"idle", "start", "ready"}
Recovering == {"rebuild", "resolve", "settle", "clean"}
Activating == {"activate", "probe", "probing", "promote", "complete", "restore", "mark"}
Removing == {"remove", "delete", "unrecord", "unlink", "rmdir"}
Steps == Waiting \union Recovering \union Activating \union Removing
           \union {"rollback", "stage", "place", "enrol", "vet", "keep", "drop"}

Available(i) == rec[i] \in {"available", "verified"}
Pointed == {ptr.current, ptr.previous, ptr.pending} \ {None}

\* Static Doctor: the payload has every file of the manifest and no other.
StaticOK(i) == i \in Managed => dir[i] = "whole"
PayloadThere(i) == i \in Managed => dir[i] \in {"whole", "littered"}

\* A version directory without its record.
Unregistered(i) == i \in Managed /\ dir[i] # "none" /\ rec[i] = "none"

\* Only one process holds the manager lock.
Free == \A p \in Procs : cmd[p].at \in Waiting

Nothing == [rec |-> "none", dir |-> "none"]

NoCommand == [op |-> "list", id |-> None, at |-> "idle"]

InitStore ==
    /\ rec = [i \in Runtimes |-> "none"]
    /\ dir = [i \in Managed |-> "none"]
    /\ ptr = [current |-> None, previous |-> None, pending |-> None]
    /\ use = [i \in Runtimes |-> None]
    /\ cmd = [p \in Procs |-> NoCommand]
    /\ user = [u \in Users |-> [at |-> "off", id |-> None]]
    /\ litter = FALSE
    /\ past = [i \in Runtimes |-> Nothing]
    /\ commands = 0 /\ interruptions = 0

Goto(p, step) ==
    cmd' = [cmd EXCEPT ![p] = IF step = "idle" THEN NoCommand ELSE [@ EXCEPT !.at = step]]
SetRec(i, state) == rec' = [rec EXCEPT ![i] = state]
\* A record is written and its directory synced, and with it the deletions
\* there: a managed record is in its version directory, the others share one.
WriteRec(i, state) ==
    /\ SetRec(i, state)
    /\ past' = [k \in Runtimes |-> IF k = i \/ {k, i} \subseteq External THEN Nothing ELSE past[k]]

\* A record is unlinked, and nothing is synced.
UnlinkRec(i) ==
    /\ SetRec(i, "none")
    /\ past' = [past EXCEPT ![i].rec = rec[i]]

SetUse(i, holder) == use' = [use EXCEPT ![i] = holder]

Disk == <<rec, dir, ptr, litter, past>>
Rest == <<user, commands, interruptions>>

-----------------------------------------------------------------------------
(* A command starts: the manager lock and recovery                          *)

Command(p, op, i) ==
    /\ cmd[p].at = "idle"
    /\ \/ op = "list" /\ i = None /\ UNCHANGED commands
       \/ op = "rollback" /\ i = None /\ commands < MaxCommands /\ commands' = commands + 1
       \/ op \in {"install", "stage"} /\ i \in Managed /\ commands < MaxCommands /\ commands' = commands + 1
       \/ op = "register" /\ i \in External /\ commands < MaxCommands /\ commands' = commands + 1
       \/ op \in {"activate", "remove", "doctor"} /\ i \in Runtimes
          /\ commands < MaxCommands /\ commands' = commands + 1
    /\ cmd' = [cmd EXCEPT ![p] = [op |-> op, id |-> i, at |-> "start"]]
    /\ UNCHANGED <<Disk, use, user, interruptions>>

\* runtime.manager_busy, when the lock's timeout passes.
Busy(p) ==
    /\ cmd[p].at \in {"start", "ready"} /\ ~Free
    /\ Goto(p, "idle")
    /\ UNCHANGED <<Disk, use, Rest>>

Enter(p) ==
    /\ cmd[p].at = "start" /\ Free
    /\ Goto(p, "rebuild")
    /\ UNCHANGED <<Disk, use, Rest>>

\* A complete version directory gets its record back, any other goes to
\* .recovery, with the use lock file in it.
Rebuild(p) ==
    /\ cmd[p].at = "rebuild"
    /\ \E i \in Managed :
         /\ Unregistered(i)
         /\ \/ /\ dir[i] = "whole"
               /\ WriteRec(i, "installed")
               /\ UNCHANGED <<dir, use>>
            \/ /\ dir[i] # "whole"
               /\ dir' = [dir EXCEPT ![i] = "none"]
               /\ past' = [past EXCEPT ![i] = Nothing]
               /\ SetUse(i, None)
               /\ UNCHANGED rec
    /\ UNCHANGED <<ptr, litter, cmd, Rest>>

RebuildDone(p) ==
    /\ cmd[p].at = "rebuild" /\ ~\E i \in Managed : Unregistered(i)
    /\ Goto(p, IF ptr.pending = None THEN "clean" ELSE "resolve")
    /\ UNCHANGED <<Disk, use, Rest>>

Demoted(i) == IF rec[i] = "none" THEN "none" ELSE IF i \in Managed THEN "failed" ELSE "unverified"

Resolve(p) ==
    /\ cmd[p].at = "resolve"
    /\ WriteRec(ptr.pending, Demoted(ptr.pending))
    /\ Goto(p, "settle")
    /\ UNCHANGED <<dir, ptr, litter, use, Rest>>

\* A recovery that demotes the candidate and leaves the pointer pending.
Settle_LeavesPending(p) ==
    /\ cmd[p].at = "settle"
    /\ Goto(p, "clean")
    /\ UNCHANGED <<rec, dir, ptr, litter, past, use, Rest>>

Settle(p) ==
    /\ cmd[p].at = "settle"
    /\ ptr' = [ptr EXCEPT !.pending = None]
    /\ Goto(p, "clean")
    /\ UNCHANGED <<rec, dir, litter, past, use, Rest>>

\* Staging is emptied and the manager lock released.
Clean(p) ==
    /\ cmd[p].at = "clean"
    /\ litter' = FALSE
    /\ Goto(p, IF cmd[p].op = "list" THEN "idle" ELSE "ready")
    /\ UNCHANGED <<rec, dir, ptr, past, use, Rest>>

FirstStep(op) ==
    CASE op \in {"install", "stage"} -> "stage"
      [] op = "register" -> "vet"
      [] op = "doctor" -> "probe"
      [] OTHER -> op

BeginWork(p) ==
    /\ cmd[p].at = "ready" /\ Free
    /\ Goto(p, IF cmd[p].op = "doctor" /\ rec[cmd[p].id] = "none" THEN "idle" ELSE FirstStep(cmd[p].op))
    /\ UNCHANGED <<Disk, use, Rest>>

Rollback(p) ==
    /\ cmd[p].at = "rollback"
    /\ cmd' = [cmd EXCEPT ![p] = IF ptr.previous = None THEN NoCommand
                                 ELSE [@ EXCEPT !.id = ptr.previous, !.at = "activate"]]
    /\ UNCHANGED <<Disk, use, Rest>>

-----------------------------------------------------------------------------
(* install and register_external                                            *)

\* Fetching, verifying, extracting and Static Doctor, all in staging.
Stage(p) ==
    /\ cmd[p].at = "stage"
    /\ \E ok \in BOOLEAN : Goto(p, IF ok THEN "place" ELSE "idle")
    /\ UNCHANGED <<Disk, use, Rest>>

\* A package of the same identity is taken as installed when its manifest is
\* the same; a directory without a record is a conflict; otherwise the staged
\* directory, record inside, becomes the version directory in one rename.
Place(p) ==
    /\ cmd[p].at = "place"
    /\ LET i == cmd[p].id IN
       \/ /\ rec[i] # "none"
          /\ \E same \in BOOLEAN :
               Goto(p, IF same /\ cmd[p].op = "install" THEN "activate" ELSE "idle")
          /\ UNCHANGED Disk
       \/ /\ Unregistered(i)
          /\ Goto(p, "idle")
          /\ UNCHANGED Disk
       \/ /\ rec[i] = "none" /\ dir[i] = "none"
          /\ dir' = [dir EXCEPT ![i] = "whole"]
          /\ WriteRec(i, "installed")
          /\ Goto(p, "enrol")
          /\ UNCHANGED <<ptr, litter>>
    /\ UNCHANGED <<use, Rest>>

\* register_installation writes the record once more.
Enrol(p) ==
    /\ cmd[p].at = "enrol"
    /\ Goto(p, IF cmd[p].op = "install" THEN "activate" ELSE "idle")
    /\ UNCHANGED <<Disk, use, Rest>>

\* An external Runtime is registered unverified, also over its old record.
Vet(p) ==
    /\ cmd[p].at = "vet"
    /\ \/ Goto(p, "idle") /\ UNCHANGED <<rec, past>>
       \/ WriteRec(cmd[p].id, "unverified") /\ Goto(p, "probe")
    /\ UNCHANGED <<dir, ptr, litter, use, Rest>>

Keep(p) ==
    /\ cmd[p].at = "keep"
    /\ WriteRec(cmd[p].id, "verified")
    /\ Goto(p, "idle")
    /\ UNCHANGED <<dir, ptr, litter, use, Rest>>

\* Removal that protects the current Runtime and not the others in the slot.
Removable_OnlyCurrent(i) == i # ptr.current /\ use[i] = None

Removable(i) == i \notin Pointed /\ use[i] = None

DropExternal(p) ==
    /\ cmd[p].at = "drop"
    /\ IF Removable(cmd[p].id) THEN UnlinkRec(cmd[p].id) ELSE UNCHANGED <<rec, past>>
    /\ Goto(p, "idle")
    /\ UNCHANGED <<dir, ptr, litter, use, Rest>>

-----------------------------------------------------------------------------
(* _activate and the activation doctor                                      *)

\* A healthy current Runtime is left alone.  Otherwise the candidate becomes
\* pending, but for a current one that lost its health: prepare_activation
\* then writes nothing.
Activate(p) ==
    /\ cmd[p].at = "activate"
    /\ LET i == cmd[p].id
           Healthy == ptr.current = i /\ ptr.pending = None /\ Available(i)
       IN  IF rec[i] \in {"none", "failed"} \/ Healthy
           THEN Goto(p, "idle") /\ UNCHANGED ptr
           ELSE /\ ptr' = IF ptr.current = i /\ ptr.pending = None
                          THEN ptr ELSE [ptr EXCEPT !.pending = i]
                /\ Goto(p, "probe")
    /\ UNCHANGED <<rec, dir, litter, past, use, Rest>>

\* Where a doctor's verdict leads in each command.
Verdict(op, ok) ==
    CASE op = "doctor" -> "idle"
      [] op = "register" -> (IF ok THEN "keep" ELSE "drop")
      [] OTHER -> (IF ok THEN "promote" ELSE "restore")

\* The worker client of the doctor takes the use lock before it starts.
Probe(p) ==
    /\ cmd[p].at = "probe"
    /\ LET i == cmd[p].id IN
       IF StaticOK(i) /\ use[i] = None
       THEN SetUse(i, p) /\ Goto(p, "probing")
       ELSE Goto(p, Verdict(cmd[p].op, FALSE)) /\ UNCHANGED use
    /\ UNCHANGED <<Disk, Rest>>

ProbeEnds(p) ==
    /\ cmd[p].at = "probing"
    /\ \E ok \in BOOLEAN : Goto(p, Verdict(cmd[p].op, ok))
    /\ SetUse(cmd[p].id, None)
    /\ UNCHANGED <<Disk, Rest>>

Promote(p) ==
    /\ cmd[p].at = "promote"
    /\ WriteRec(cmd[p].id, IF cmd[p].id \in Managed THEN "available" ELSE "verified")
    /\ Goto(p, "complete")
    /\ UNCHANGED <<dir, ptr, litter, use, Rest>>

\* A completed activation that keeps the previous Runtime.
Complete_KeepsPrevious(p) ==
    /\ cmd[p].at = "complete"
    /\ ptr' = IF ptr.pending = cmd[p].id
              THEN [ptr EXCEPT !.current = cmd[p].id, !.pending = None] ELSE ptr
    /\ Goto(p, "idle")
    /\ UNCHANGED <<rec, dir, litter, past, use, Rest>>

\* complete_activation, or runtime.active_pointer_invalid.
Complete(p) ==
    /\ cmd[p].at = "complete"
    /\ ptr' = IF ptr.pending = cmd[p].id
              THEN [current |-> cmd[p].id, previous |-> ptr.current, pending |-> None] ELSE ptr
    /\ Goto(p, "idle")
    /\ UNCHANGED <<rec, dir, litter, past, use, Rest>>

Restore(p) ==
    /\ cmd[p].at = "restore"
    /\ ptr' = IF ptr.pending = cmd[p].id THEN [ptr EXCEPT !.pending = None] ELSE ptr
    /\ Goto(p, "mark")
    /\ UNCHANGED <<rec, dir, litter, past, use, Rest>>

Mark(p) ==
    /\ cmd[p].at = "mark"
    /\ WriteRec(cmd[p].id, Demoted(cmd[p].id))
    /\ Goto(p, "idle")
    /\ UNCHANGED <<dir, ptr, litter, use, Rest>>

-----------------------------------------------------------------------------
(* remove                                                                   *)

Remove(p) ==
    /\ cmd[p].at = "remove"
    /\ LET i == cmd[p].id IN
       \/ /\ rec[i] = "none" \/ ~Removable(i)
          /\ Goto(p, "idle")
          /\ UNCHANGED <<rec, past, use>>
       \/ /\ rec[i] # "none" /\ Removable(i) /\ i \in External
          /\ UnlinkRec(i)
          /\ Goto(p, "idle")
          /\ UNCHANGED use
       \/ /\ rec[i] # "none" /\ Removable(i) /\ i \in Managed
          /\ SetUse(i, p)
          /\ Goto(p, "delete")
          /\ UNCHANGED <<rec, past>>
    /\ UNCHANGED <<dir, ptr, litter, Rest>>

\* Everything but the record and the use lock file.
Delete(p) ==
    /\ cmd[p].at = "delete"
    /\ dir' = [dir EXCEPT ![cmd[p].id] = "broken"]
    /\ past' = [past EXCEPT ![cmd[p].id].dir = IF @ = "none" THEN dir[cmd[p].id] ELSE @]
    /\ Goto(p, "unrecord")
    /\ UNCHANGED <<rec, ptr, litter, use, Rest>>

Unrecord(p) ==
    /\ cmd[p].at = "unrecord"
    /\ UnlinkRec(cmd[p].id)
    /\ SetUse(cmd[p].id, None)
    /\ Goto(p, "unlink")
    /\ UNCHANGED <<dir, ptr, litter, Rest>>

\* The use lock is free by now: the file goes from under whoever took it since.
Unlink(p) ==
    /\ cmd[p].at = "unlink"
    /\ dir' = [dir EXCEPT ![cmd[p].id] = "empty"]
    /\ SetUse(cmd[p].id, None)
    /\ Goto(p, "rmdir")
    /\ UNCHANGED <<rec, ptr, litter, past, Rest>>

Rmdir(p) ==
    /\ cmd[p].at = "rmdir"
    /\ dir' = [dir EXCEPT ![cmd[p].id] = IF @ = "empty" THEN "none" ELSE @]
    /\ Goto(p, "idle")
    /\ UNCHANGED <<rec, ptr, litter, past, use, Rest>>

-----------------------------------------------------------------------------
(* Worker clients: use_lock around a worker process                         *)

SetUser(u, step, i) == user' = [user EXCEPT ![u] = [at |-> step, id |-> i]]
UserRest == <<rec, ptr, cmd, litter, past, commands, interruptions>>

\* use_lock reads the record first, without any lock.
Look(u, i) ==
    /\ user[u].at = "off" /\ Available(i)
    /\ SetUser(u, "found", i)
    /\ UNCHANGED <<UserRest, dir, use>>

\* A client that goes on although the lock is held.
Take_NoWait(u) ==
    /\ user[u].at = "found"
    /\ LET i == user[u].id IN
       /\ dir' = IF i \in Managed /\ dir[i] \in {"none", "empty"}
                 THEN [dir EXCEPT ![i] = "broken"] ELSE dir
       /\ SetUse(i, u) /\ SetUser(u, "locked", i)
    /\ UNCHANGED UserRest

\* Then it makes the lock file, and the directory if that is gone.
Take(u) ==
    /\ user[u].at = "found"
    /\ LET i == user[u].id IN
       /\ dir' = IF i \in Managed /\ dir[i] \in {"none", "empty"}
                 THEN [dir EXCEPT ![i] = "broken"] ELSE dir
       /\ IF use[i] = None
          THEN SetUse(i, u) /\ SetUser(u, "locked", i)
          ELSE SetUser(u, "off", None) /\ UNCHANGED use
    /\ UNCHANGED UserRest

\* The worker starts from the payload, if there is one.
Launch(u) ==
    /\ user[u].at = "locked" /\ PayloadThere(user[u].id)
    /\ SetUser(u, "running", user[u].id)
    /\ UNCHANGED <<UserRest, dir, use>>

\* The lock is released, after the session or an error, or by the system.
Finish(u) ==
    /\ user[u].at \in {"locked", "running"}
    /\ use' = [i \in Runtimes |-> IF use[i] = u THEN None ELSE use[i]]
    /\ SetUser(u, "off", None)
    /\ UNCHANGED <<UserRest, dir>>

-----------------------------------------------------------------------------
(* Faults                                                                   *)

\* The version directory in which p is about to replace a record.
WritesIn(p) ==
    {i \in Managed : /\ dir[i] = "whole"
                     /\ \/ cmd[p].at \in {"enrol", "promote", "mark"} /\ i = cmd[p].id
                        \/ cmd[p].at = "resolve" /\ i = ptr.pending
                        \/ cmd[p].at = "rebuild" /\ rec[i] = "none"}

\* The command ends where it is, by an error or with its process.  The latter
\* may leave a transaction in staging, or the temporary file of a record in
\* the version directory, which Static Doctor takes for an extra file.
Interrupted(p) ==
    /\ cmd[p].at # "idle" /\ interruptions < MaxInterruptions
    /\ interruptions' = interruptions + 1
    /\ Goto(p, "idle")
    /\ use' = [i \in Runtimes |-> IF use[i] = p THEN None ELSE use[i]]
    /\ \/ UNCHANGED <<dir, litter>>
       \/ cmd[p].at = "place" /\ litter' = TRUE /\ UNCHANGED dir
       \/ \E i \in WritesIn(p) : dir' = [dir EXCEPT ![i] = "littered"] /\ UNCHANGED litter
    /\ UNCHANGED <<rec, ptr, user, past, commands>>

\* A power loss ends every process and takes back any of the deletions that
\* nothing was synced after: a removed record is back as it was, and its
\* directory with the payload or with a part of it, even without the record.
\* What was removed from staging and .recovery (Clean) is taken to stay removed:
\* the next recovery would find it there and remove it again.
PowerLoss ==
    /\ interruptions < MaxInterruptions
    /\ interruptions' = interruptions + 1
    /\ cmd' = [p \in Procs |-> NoCommand]
    /\ user' = [u \in Users |-> [at |-> "off", id |-> None]]
    /\ use' = [i \in Runtimes |-> None]
    /\ \E returned \in SUBSET {i \in Runtimes : past[i].rec # "none"},
          restored \in SUBSET {i \in Managed : past[i].dir # "none"} : \E partly \in SUBSET restored :
         /\ returned \intersect Managed \subseteq restored
         /\ rec' = [i \in Runtimes |-> IF i \in returned THEN past[i].rec ELSE rec[i]]
         /\ dir' = [i \in Managed |-> IF i \in partly THEN "broken"
                                       ELSE IF i \in restored THEN past[i].dir ELSE dir[i]]
    /\ litter' \in {litter, \E p \in Procs : cmd[p].at = "place"}
    /\ past' = [i \in Runtimes |-> Nothing]
    /\ UNCHANGED <<ptr, commands>>

-----------------------------------------------------------------------------

Recover(p) ==
    Enter(p) \/ Rebuild(p) \/ RebuildDone(p) \/ Resolve(p) \/ Settle(p) \/ Clean(p)

Step(p) ==
    \/ Recover(p) \/ BeginWork(p) \/ Rollback(p)
    \/ Stage(p) \/ Place(p) \/ Enrol(p) \/ Vet(p) \/ Keep(p) \/ DropExternal(p)
    \/ Activate(p) \/ Probe(p) \/ ProbeEnds(p) \/ Promote(p) \/ Complete(p) \/ Restore(p) \/ Mark(p)
    \/ Remove(p) \/ Delete(p) \/ Unrecord(p) \/ Unlink(p) \/ Rmdir(p)

Use(u) == Take(u) \/ Launch(u) \/ Finish(u) \/ \E i \in Runtimes : Look(u, i)

NextStore ==
    \/ \E p \in Procs : Step(p) \/ Busy(p) \/ Interrupted(p)
    \/ \E p \in Procs, op \in Operations, i \in Runtimes \union {None} : Command(p, op, i)
    \/ \E u \in Users : Use(u)
    \/ PowerLoss

\* A process that runs goes on, and somebody keeps giving commands; each of
\* them recovers, if only to list.
StoreFairness ==
    \A p \in Procs : WF_storeVars(Step(p)) /\ WF_storeVars(Command(p, "list", None))

SpecStore == InitStore /\ [][NextStore]_storeVars /\ StoreFairness

-----------------------------------------------------------------------------
(* Properties                                                               *)

\* States of the records of managed and of external Runtimes.
StatesOf(i) == IF i \in Managed THEN {"none", "installed", "available", "failed"}
                                ELSE {"none", "unverified", "verified"}

FilesOK ==
    /\ rec \in [Runtimes -> States]
    /\ \A i \in Runtimes : rec[i] \in StatesOf(i) /\ past[i] \in [rec : StatesOf(i), dir : Dirs]
    /\ dir \in [Managed -> Dirs]
    /\ ptr \in [current : Runtimes \union {None}, previous : Runtimes \union {None},
                pending : Runtimes \union {None}]
    /\ litter \in BOOLEAN
    /\ past \in [Runtimes -> [rec : States, dir : Dirs]]
HoldersOK ==
    /\ use \in [Runtimes -> Procs \union Users \union {None}]
    /\ user \in [Users -> [at : {"off", "found", "locked", "running"}, id : Runtimes \union {None}]]
CommandsOK ==
    /\ cmd \in [Procs -> [op : Operations, id : Runtimes \union {None}, at : Steps]]
    /\ commands \in 0 .. MaxCommands /\ interruptions \in 0 .. MaxInterruptions

StoreTypeOK == FilesOK /\ HoldersOK /\ CommandsOK

\* The Runtimes that the slot names as current, previous or pending are
\* registered, with a directory if they are managed: removal refuses them, and
\* nothing that is interrupted leaves the slot naming a Runtime that is gone.
Protected ==
    \A i \in Pointed : rec[i] # "none" /\ (i \in Managed => dir[i] # "none")

\* A worker that runs under the use lock has its whole payload, whatever is
\* removed or installed meanwhile: removal takes the same lock.  A client that
\* took the lock as a removal was about to unlink its file holds it no longer.
InUseIntact ==
    \A u \in Users : user[u].at = "running" /\ use[user[u].id] = u => PayloadThere(user[u].id)

\* What the Runtime is again for the slot if its removal is undone.
Undone(i) == IF past[i].rec = "none" THEN "no"
             ELSE IF past[i].rec \in {"available", "verified"} THEN "ready" ELSE "known"

Slot == INSTANCE ActiveSlot WITH
    Runtimes <- Runtimes, NoRuntime <- None,
    current <- ptr.current, previous <- ptr.previous,
    known <- {i \in Runtimes : rec[i] # "none"}, ready <- {i \in Runtimes : Available(i)},
    undone <- [i \in Runtimes |-> Undone(i)]

\* The manager implements the slot: it moves in one step, to a Runtime that
\* passed its doctor, and what it names is never forgotten.
ImplementsSlot == Slot!Spec

\* What an interrupted command left (a pending activation, a transaction in
\* staging, a version directory without its record) is always cleared in the
\* end, as long as commands are given.
Repaired ==
    []<>(ptr.pending = None /\ ~litter /\ ~\E i \in Managed : Unregistered(i))

=============================================================================
