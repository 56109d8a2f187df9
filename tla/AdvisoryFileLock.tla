-------------------------- MODULE AdvisoryFileLock --------------------------
(***************************************************************************)
(* AdvisoryFileLock (POSIX) on one lock path, used by any number of        *)
(* processes: RunLock takes it for the life of a run, AtomicFileWriter in  *)
(* Sibling mode for the life of a writer.                                  *)
(*                                                                         *)
(* The path is a name for an inode; flock belongs to the inode that was    *)
(* opened, not to the name.  The calls the class makes are steps of their  *)
(* own, because other processes run between them.                          *)
(***************************************************************************)
CONSTANTS Procs, LockFiles, Nil

ASSUME LockNoneAssumption == Nil \notin Procs \cup LockFiles

VARIABLES
    name,       \* the inode the lock path names, or Nil
    locker,     \* kernel: the process whose descriptor holds flock on an inode
    desc,       \* descriptor_: the inode a process has open, or Nil
    step,       \* where a process is in acquire() or release()
    contended   \* contended_ of the process's last acquire()

lockVars == <<name, locker, desc, step, contended>>

LockTypeOK ==
    /\ name \in LockFiles \cup {Nil}
    /\ locker \in [LockFiles -> Procs \cup {Nil}]
    /\ desc \in [Procs -> LockFiles \cup {Nil}]
    /\ step \in [Procs -> {"idle", "opened", "checked", "holding", "unlocked"}]
    /\ contended \in [Procs -> BOOLEAN]

LockInit ==
    /\ name = Nil
    /\ locker = [i \in LockFiles |-> Nil]
    /\ desc = [p \in Procs |-> Nil]
    /\ step = [p \in Procs |-> "idle"]
    /\ contended = [p \in Procs |-> FALSE]

Proceed(p, label) == step' = [step EXCEPT ![p] = label]

\* Mutant: a lock that outlives its owner, as the create-directory scheme did.
LeaveLock(p) ==
    /\ desc' = [desc EXCEPT ![p] = Nil]
    /\ UNCHANGED locker

\* What closing the only descriptor does: the kernel drops its flock too.
CloseDescriptor(p) ==
    /\ desc' = [desc EXCEPT ![p] = Nil]
    /\ locker' = [i \in LockFiles |-> IF locker[i] = p THEN Nil ELSE locker[i]]

\* open(O_RDWR | O_CREAT) creates the file if the path names none.
OpenLockFile(p) ==
    /\ step[p] = "idle"
    /\ \/ name # Nil /\ UNCHANGED name
       \/ /\ name = Nil
          /\ \E i \in LockFiles :
                /\ \A q \in Procs : desc[q] # i
                /\ name' = i
    /\ desc' = [desc EXCEPT ![p] = name']
    /\ contended' = [contended EXCEPT ![p] = FALSE]
    /\ Proceed(p, "opened")
    /\ UNCHANGED locker

LockFileRefused(p) ==
    /\ step[p] = "idle"
    /\ contended' = [contended EXCEPT ![p] = FALSE]
    /\ UNCHANGED <<name, locker, desc, step>>

\* fstat and S_ISREG; fchmod in a shared namespace, its failure ignored.
Inspect(p) ==
    /\ step[p] = "opened"
    /\ Proceed(p, "checked")
    /\ UNCHANGED <<name, locker, desc, contended>>

InspectFails(p) ==
    /\ step[p] = "opened"
    /\ CloseDescriptor(p)
    /\ Proceed(p, "idle")
    /\ UNCHANGED <<name, contended>>

\* Mutant: the result of flock() is not looked at.
FlockUnchecked(p) ==
    /\ step[p] = "checked"
    /\ locker' = [locker EXCEPT ![desc[p]] = p]
    /\ Proceed(p, "holding")
    /\ UNCHANGED <<name, desc, contended>>

Flock(p) ==
    /\ step[p] = "checked"
    /\ locker[desc[p]] = Nil
    /\ locker' = [locker EXCEPT ![desc[p]] = p]
    /\ Proceed(p, "holding")
    /\ UNCHANGED <<name, desc, contended>>

\* Mutant: every failed flock() reads as "somebody else holds it".
AlwaysContended(p) ==
    /\ step[p] = "checked"
    /\ CloseDescriptor(p)
    /\ contended' = [contended EXCEPT ![p] = TRUE]
    /\ Proceed(p, "idle")
    /\ UNCHANGED name

\* EWOULDBLOCK is told apart from every other errno.
FlockFails(p) ==
    /\ step[p] = "checked"
    /\ CloseDescriptor(p)
    /\ \/ /\ locker[desc[p]] # Nil
          /\ contended' = [contended EXCEPT ![p] = TRUE]
       \/ UNCHANGED contended
    /\ Proceed(p, "idle")
    /\ UNCHANGED name

\* flock(LOCK_UN), which may report an error and leave the lock in place.
Unlock(p) ==
    /\ step[p] = "holding"
    /\ \/ locker' = [locker EXCEPT ![desc[p]] = Nil]
       \/ UNCHANGED locker
    /\ Proceed(p, "unlocked")
    /\ UNCHANGED <<name, desc, contended>>

\* close() follows whatever the unlock said; the file stays where it is.
Close(p) ==
    /\ step[p] = "unlocked"
    /\ CloseDescriptor(p)
    /\ Proceed(p, "idle")
    /\ UNCHANGED <<name, contended>>

\* SIGKILL or abort anywhere.
Killed(p) ==
    /\ step[p] # "idle"
    /\ CloseDescriptor(p)
    /\ contended' = [contended EXCEPT ![p] = FALSE]
    /\ Proceed(p, "idle")
    /\ UNCHANGED name

LockNext ==
    \E p \in Procs :
        \/ OpenLockFile(p) \/ LockFileRefused(p) \/ Inspect(p) \/ InspectFails(p)
        \/ Flock(p) \/ FlockFails(p) \/ Unlock(p) \/ Close(p) \/ Killed(p)

LockSpec == LockInit /\ [][LockNext]_lockVars

-----------------------------------------------------------------------------
(* AdvisoryFileLock.h: "Removing it would allow two processes to lock      *)
(* different inodes under the same name": however opens, failures, deaths  *)
(* and releases interleave, two processes never believe they own the lock. *)
MutualExclusion ==
    \A p, q \in Procs : step[p] = "holding" /\ step[q] = "holding" => p = q

(* AdvisoryFileLock.h: "released on normal destruction and also after      *)
(* SIGKILL": the lock is only ever in the way of an acquire() while a live *)
(* process holds it or is in the middle of giving it up.                   *)
NoStaleLock ==
    \A i \in LockFiles :
        locker[i] # Nil =>
            /\ step[locker[i]] \in {"holding", "unlocked"}
            /\ desc[locker[i]] = i

(* contended() is TRUE "only when the lock failed because another owner    *)
(* holds it": main tells the operator that a downloader is already running *)
(* only if a live process owned the lock at that very moment.              *)
ContendedIsTrue ==
    [][\A p \in Procs : ~contended[p] /\ contended'[p] =>
          \E q \in Procs \ {p} : step[q] \in {"holding", "unlocked"}]_lockVars

(* The lock the rest of the program is built on. *)
Holder == IF \E p \in Procs : step[p] = "holding"
          THEN CHOOSE p \in Procs : step[p] = "holding"
          ELSE Nil

TryLock == INSTANCE Mutex WITH None <- Nil, holder <- Holder

ImplementsMutex == TryLock!Spec

=============================================================================
