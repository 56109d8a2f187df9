----------------------------- MODULE AtomicFile -----------------------------
(***************************************************************************)
(* AtomicFileWriter on one target: processes that write a sibling          *)
(* <target>.writing and rename it over the target.                         *)
(*                                                                         *)
(* locking = "Sibling": every writer takes <target>.lock in its            *)
(* constructor.  locking = "None": a writer takes no lock of its own,      *)
(* because its process holds the run lock from before the first writer     *)
(* until it exits; this is how the program uses the class.  Either lock is *)
(* the abstract Mutex, which AdvisoryFileLock implements, and all writers  *)
(* of a target use the same one.                                           *)
(***************************************************************************)
EXTENDS Naturals

CONSTANTS
    Writers,   \* processes, each with at most one writer of this target
    Inodes, None,
    MaxSize,   \* bound on the writes of an image
    Size       \* how many writes each writer's image takes

ASSUME WriterNoneAssumption == None \notin Writers \cup Inodes
ASSUME SizeAssumption == MaxSize \in Nat /\ Size \in [Writers -> 1 .. MaxSize]

VARIABLES
    locking,   \* the option every writer is constructed with
    holder,    \* who holds the lock
    temp,      \* the inode <target>.writing names, or None
    target,    \* the inode the target names, or None
    content,   \* per inode and position: whose bytes are there
    pc,        \* where a process is in the life of a writer
    ino,       \* the inode a writer's stream_ has open, or None
    owns,      \* ownsTemporary_
    pos,       \* writes done
    orphan     \* history: temp was left behind by a process that is gone

lifecycle == <<pc, ino, owns, pos>>
vars == <<locking, holder, temp, target, content, lifecycle, orphan>>

Guard == INSTANCE Mutex WITH Procs <- Writers

Position == 1 .. MaxSize

Empty == [k \in Position |-> None]

\* The bytes of a complete image.
Image(w) == [k \in Position |-> IF k <= Size[w] THEN w ELSE None]

TypeOK ==
    /\ locking \in {"Sibling", "None"}
    /\ holder \in Writers \cup {None}
    /\ temp \in Inodes \cup {None}
    /\ target \in Inodes \cup {None}
    /\ content \in [Inodes -> [Position -> Writers \cup {None}]]
    /\ pc \in [Writers -> {"out", "ready", "writing", "closed", "renamed",
                           "finished", "removed"}]
    /\ ino \in [Writers -> Inodes \cup {None}]
    /\ owns \in [Writers -> BOOLEAN]
    /\ pos \in [Writers -> 0 .. MaxSize]
    /\ orphan \in BOOLEAN

Init ==
    /\ locking \in {"Sibling", "None"}
    /\ holder = None
    /\ temp = None
    /\ target = None
    /\ content = [i \in Inodes |-> Empty]
    /\ pc = [w \in Writers |-> "out"]
    /\ ino = [w \in Writers |-> None]
    /\ owns = [w \in Writers |-> FALSE]
    /\ pos = [w \in Writers |-> 0]
    /\ orphan = FALSE

Goto(w, label) == pc' = [pc EXCEPT ![w] = label]

CloseStream(w) ==
    /\ ino' = [ino EXCEPT ![w] = None]
    /\ pos' = [pos EXCEPT ![w] = 0]

\* releaseLock(): nothing to release unless the lock is the writer's own.
ReleaseLock(w) ==
    IF locking = "Sibling" /\ holder = w THEN Guard!Release(w) ELSE UNCHANGED holder

\* Inodes no name and no open stream refers to.
Unused(i) == i \notin {temp, target} /\ \A w \in Writers : ino[w] # i

\* Mutant: the answer of the lock is not looked at.
EnterAnyway(w) ==
    /\ pc[w] = "out"
    /\ holder' = w
    /\ Goto(w, "ready")
    /\ UNCHANGED <<temp, target, content, ino, owns, pos, orphan>>

\* The sibling lock in the constructor, or the run lock in main.  A process
\* that is refused creates no writer.
Enter(w) ==
    /\ pc[w] = "out"
    /\ Guard!Acquire(w)
    /\ Goto(w, "ready")
    /\ UNCHANGED <<temp, target, content, ino, owns, pos, orphan>>

\* The process that holds the run lock exits.
Leave(w) ==
    /\ locking = "None" /\ pc[w] = "ready"
    /\ Guard!Release(w)
    /\ Goto(w, "out")
    /\ UNCHANGED <<temp, target, content, ino, owns, pos, orphan>>

\* open(trunc) empties the sibling a dead process left, or creates it.
Open(w) ==
    /\ pc[w] = "ready"
    /\ \/ temp # None /\ UNCHANGED temp
       \/ temp = None /\ \E i \in Inodes : Unused(i) /\ temp' = i
    /\ content' = [content EXCEPT ![temp'] = Empty]
    /\ ino' = [ino EXCEPT ![w] = temp']
    /\ owns' = [owns EXCEPT ![w] = TRUE]
    /\ pos' = [pos EXCEPT ![w] = 0]
    /\ orphan' = FALSE
    /\ Goto(w, "writing")
    /\ UNCHANGED <<holder, target>>

\* ownsTemporary_ is already set when the open fails and the lock goes back.
OpenFails(w) ==
    /\ pc[w] = "ready"
    /\ owns' = [owns EXCEPT ![w] = TRUE]
    /\ ReleaseLock(w)
    /\ Goto(w, "finished")
    /\ UNCHANGED <<temp, target, content, ino, pos, orphan>>

Write(w) ==
    /\ pc[w] = "writing" /\ pos[w] < Size[w]
    /\ pos' = [pos EXCEPT ![w] = @ + 1]
    /\ content' = [content EXCEPT ![ino[w]][pos[w] + 1] = w]
    /\ UNCHANGED <<holder, temp, target, pc, ino, owns, orphan>>

\* commit() flushes and closes; only a stream that stayed good gets further.
Flush(w) ==
    /\ pc[w] = "writing" /\ pos[w] = Size[w]
    /\ CloseStream(w)
    /\ Goto(w, "closed")
    /\ UNCHANGED <<holder, temp, target, content, owns, orphan>>

\* A write, the flush or the close failed, or the caller gave up.
GiveUp(w) ==
    /\ pc[w] = "writing"
    /\ CloseStream(w)
    /\ Goto(w, "finished")
    /\ UNCHANGED <<holder, temp, target, content, owns, orphan>>

\* Mutant: the target is replaced before the stream is known to be good.
RenameEarly(w) ==
    /\ pc[w] \in {"writing", "closed"} /\ temp # None
    /\ target' = temp
    /\ temp' = None
    /\ owns' = [owns EXCEPT ![w] = FALSE]
    /\ CloseStream(w)
    /\ Goto(w, "renamed")
    /\ UNCHANGED <<holder, content, orphan>>

Rename(w) ==
    /\ pc[w] = "closed" /\ temp # None
    /\ target' = temp
    /\ temp' = None
    /\ owns' = [owns EXCEPT ![w] = FALSE]
    /\ Goto(w, "renamed")
    /\ UNCHANGED <<holder, content, ino, pos, orphan>>

\* Also what happens when the sibling is no longer there.
RenameFails(w) ==
    /\ pc[w] = "closed"
    /\ Goto(w, "finished")
    /\ UNCHANGED <<holder, temp, target, content, ino, owns, pos, orphan>>

\* The end of commit(), which reports a failed release though it committed.
ReleaseCommitted(w) ==
    /\ pc[w] = "renamed"
    /\ ReleaseLock(w)
    /\ Goto(w, "finished")
    /\ UNCHANGED <<temp, target, content, ino, owns, pos, orphan>>

\* Mutant: the destructor does not remove what it owns.
LeaveSibling(w) ==
    /\ pc[w] = "finished"
    /\ Goto(w, "removed")
    /\ owns' = [owns EXCEPT ![w] = FALSE]
    /\ UNCHANGED <<holder, temp, target, content, ino, pos, orphan>>

\* The destructor removes the sibling unless it was committed.  It ignores
\* an error, which leaves an orphan.
Remove(w) ==
    /\ pc[w] = "finished"
    /\ \/ /\ owns[w]
          /\ temp' = None
          /\ UNCHANGED orphan
       \/ /\ owns[w]
          /\ orphan' = (temp # None)
          /\ UNCHANGED temp
       \/ ~owns[w] /\ UNCHANGED <<temp, orphan>>
    /\ owns' = [owns EXCEPT ![w] = FALSE]
    /\ Goto(w, "removed")
    /\ UNCHANGED <<holder, target, content, ino, pos>>

\* ... and then gives up its lock.
ReleaseLast(w) ==
    /\ pc[w] = "removed"
    /\ ReleaseLock(w)
    /\ Goto(w, IF locking = "Sibling" THEN "out" ELSE "ready")
    /\ UNCHANGED <<temp, target, content, ino, owns, pos, orphan>>

\* The process is killed: the kernel drops its lock and closes its stream.
Die(w) ==
    /\ pc[w] # "out"
    /\ holder' = IF holder = w THEN None ELSE holder
    /\ CloseStream(w)
    /\ orphan' = (orphan \/ (owns[w] /\ temp # None))
    /\ owns' = [owns EXCEPT ![w] = FALSE]
    /\ Goto(w, "out")
    /\ UNCHANGED <<temp, target, content>>

Next ==
    /\ UNCHANGED locking
    /\ \E w \in Writers :
         \/ Enter(w) \/ Leave(w) \/ Open(w) \/ OpenFails(w) \/ Write(w)
         \/ Flush(w) \/ GiveUp(w) \/ Rename(w) \/ RenameFails(w)
         \/ ReleaseCommitted(w) \/ Remove(w) \/ ReleaseLast(w) \/ Die(w)

Spec == Init /\ [][Next]_vars

-----------------------------------------------------------------------------
InProgressKept ==
    \A w \in Writers :
        /\ pc[w] = "writing" => temp = ino[w]
        /\ pc[w] = "closed" => temp # None

(* Under the run lock nobody takes the sibling of a live writer away: from *)
(* the moment it is opened until its writer renames or removes it,         *)
(* <target>.writing is that writer's file, so a commit that got this far   *)
(* can succeed.  With a lock of its own the class does not promise it: a   *)
(* writer that failed to open has released the lock when its destructor    *)
(* removes the sibling, by then perhaps another's (atomic_file.h:51).       *)
KeptUnderRunLock == locking = "None" => InProgressKept

(* A sibling that no live writer will deal with was left by a process that *)
(* died or whose remove() failed; every other way out of a writer cleans   *)
(* up, so the published data directory collects no half-written files.     *)
NoLitter ==
    temp # None /\ ~orphan =>
        \E w \in Writers : owns[w] /\ pc[w] \in {"writing", "closed", "finished"}

(* Whose image a reader of the target finds; "torn" if nobody's. *)
Value ==
    CASE target = None -> None
      [] target # None /\ \E w \in Writers : content[target] = Image(w) ->
            CHOOSE w \in Writers : content[target] = Image(w)
      [] OTHER -> "torn"

Phase == [w \in Writers |->
    CASE pc[w] \in {"out", "ready", "removed"} -> "idle"
      [] pc[w] \in {"writing", "closed"} -> "trying"
      [] pc[w] = "renamed" -> "saved"
      [] OTHER -> IF owns[w] THEN "failed" ELSE "saved"]

Abstract == INSTANCE AtomicReplace WITH value <- Value, phase <- Phase

(* The class comment's "Transactional": however writers, failures and      *)
(* deaths interleave, a reader of the target finds one writer's whole      *)
(* image, it appears in the one step of a commit, and a commit that fails  *)
(* leaves the previous one.                                                *)
ReplacesAtomically == Abstract!Spec

=============================================================================
