------------------------------- MODULE Mutex -------------------------------
(***************************************************************************)
(* A try-lock that dies with its owner: what RunLock and the sibling lock  *)
(* of AtomicFileWriter rely on.                                            *)
(***************************************************************************)
CONSTANTS Procs, None

VARIABLE holder   \* the process that owns the lock, or None

Acquire(p) == holder = None /\ holder' = p

\* By release, or by the death of the process.
Release(p) == holder = p /\ holder' = None

Init == holder = None

Next == \E p \in Procs : Acquire(p) \/ Release(p)

Spec == Init /\ [][Next]_holder

=============================================================================
