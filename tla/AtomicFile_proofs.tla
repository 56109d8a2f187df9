-------------------------- MODULE AtomicFile_proofs --------------------------
(***************************************************************************)
(* The advisory lock excludes other processes and implements Mutex, for    *)
(* any number of processes: every open descriptor has the inode the path   *)
(* names, because the path is never unlinked.                              *)
(*                                                                         *)
(* AtomicFileWriter replaces its target atomically under either lock, and  *)
(* under the run lock no live writer loses its sibling, for any number of  *)
(* processes and any image sizes: only the holder of the lock is between   *)
(* opening and renaming the sibling, so the inode it writes is named by    *)
(* nothing but the sibling, and at the rename its content is the image.    *)
(***************************************************************************)
EXTENDS AtomicFile, AdvisoryFileLock, TLAPS

\* Where a process must be holding the lock.
Inside == {"ready", "writing", "closed", "renamed"}
              \cup (IF locking = "None" THEN {"finished", "removed"} ELSE {})

HeldInside == \A w \in Writers : pc[w] \in Inside => holder = w

StreamFits == \A w \in Writers : pc[w] = "writing" <=> ino[w] # None

OwnsFits == \A w \in Writers : /\ pc[w] \in {"writing", "closed"} => owns[w]
                               /\ pc[w] = "renamed" => ~owns[w]

WritingFits ==
    \A w \in Writers : pc[w] = "writing" =>
        /\ ino[w] # target
        /\ temp \in {ino[w], None}
        /\ pos[w] <= Size[w]
        /\ \A k \in Position : content[ino[w]][k] = IF k <= pos[w] THEN w ELSE None

ClosedFits ==
    \A w \in Writers : pc[w] = "closed" /\ temp # None => content[temp] = Image(w)

TempIsNotTarget == temp # None => temp # target

TargetWhole == target # None => \E w \in Writers : content[target] = Image(w)

IInv == /\ TypeOK
        /\ HeldInside /\ StreamFits /\ OwnsFits
        /\ WritingFits /\ ClosedFits
        /\ TempIsNotTarget /\ TargetWhole /\ KeptUnderRunLock

-----------------------------------------------------------------------------

LEMMA ImageDistinct ==
  ASSUME NEW v \in Writers, NEW w \in Writers, Image(v) = Image(w)
  PROVE  v = w
<1>1. Size[v] \in 1 .. MaxSize /\ Size[w] \in 1 .. MaxSize /\ MaxSize \in Nat
  BY SizeAssumption
<1>2. 1 \in Position /\ 1 <= Size[v] /\ 1 <= Size[w]
  BY <1>1 DEF Position
<1>3. Image(v)[1] = v /\ Image(w)[1] = w
  BY <1>2 DEF Image
<1> QED
  BY <1>3

LEMMA EmptyIsContent == Empty \in [Position -> Writers \cup {None}]
  BY DEF Empty

LEMMA ZeroIsPos == 0 \in 0 .. MaxSize
  BY SizeAssumption

LEMMA InitInvariant == Init => IInv
<1> SUFFICES ASSUME Init PROVE IInv
  OBVIOUS
<1>1. TypeOK
  <2>1. content \in [Inodes -> [Position -> Writers \cup {None}]]
    BY EmptyIsContent DEF Init
  <2>2. pos \in [Writers -> 0 .. MaxSize]
    BY ZeroIsPos DEF Init
  <2> QED
    BY <2>1, <2>2 DEF Init, TypeOK
<1>2. HeldInside /\ StreamFits /\ OwnsFits /\ WritingFits /\ ClosedFits
  BY DEF Init, HeldInside, Inside, StreamFits, OwnsFits, WritingFits, ClosedFits
<1>3. TempIsNotTarget /\ TargetWhole /\ KeptUnderRunLock
  BY DEF Init, TempIsNotTarget, TargetWhole, KeptUnderRunLock, InProgressKept
<1> QED
  BY <1>1, <1>2, <1>3 DEF IInv

(* While one process is inside, no other one is. *)
LEMMA Alone ==
  ASSUME IInv, NEW v \in Writers, NEW w \in Writers,
         pc[v] \in Inside, pc[w] \in Inside
  PROVE  v = w
  BY DEF IInv, HeldInside

(* A step of w that is neither inside before nor after, and changes no     *)
(* file, disturbs nobody.                                                  *)
LEMMA QuietStep ==
  ASSUME IInv, NEW w \in Writers, NEW label, Goto(w, label), TypeOK',
         UNCHANGED <<locking, temp, target, content, ino, pos>>,
         label \notin {"writing", "closed"}, pc[w] # "writing",
         \A v \in Writers \ {w} : owns'[v] = owns[v],
         label = "renamed" => ~owns'[w],
         HeldInside'
  PROVE  IInv'
<1>1. \A v \in Writers \ {w} : pc'[v] = pc[v]
  BY DEF Goto, IInv, TypeOK
<1>2. pc'[w] = label
  BY DEF Goto, IInv, TypeOK
<1>3. StreamFits' /\ OwnsFits'
  BY <1>1, <1>2 DEF IInv, StreamFits, OwnsFits
<1>4. WritingFits' /\ ClosedFits'
  BY <1>1, <1>2 DEF IInv, WritingFits, ClosedFits
<1>5. TempIsNotTarget' /\ TargetWhole' /\ KeptUnderRunLock'
  BY <1>1, <1>2 DEF IInv, TempIsNotTarget, TargetWhole, KeptUnderRunLock, InProgressKept
<1> QED
  BY <1>3, <1>4, <1>5 DEF IInv

LEMMA NextInvariant == IInv /\ [Next]_vars => IInv'
<1> SUFFICES ASSUME IInv, [Next]_vars PROVE IInv'
  OBVIOUS
<1>0. locking' = locking
  BY DEF Next, vars
<1> USE <1>0, WriterNoneAssumption, SizeAssumption
<1>1. ASSUME NEW w \in Writers, Enter(w) PROVE IInv'
  <2>1. TypeOK'
    BY <1>1 DEF IInv, TypeOK, Enter, Goto, Guard!Acquire
  <2>2. HeldInside'
    BY <1>1 DEF IInv, TypeOK, HeldInside, Inside, Enter, Goto, Guard!Acquire
  <2> QED
    BY <1>1, <2>1, <2>2, QuietStep DEF Enter
<1>2. ASSUME NEW w \in Writers, Leave(w) PROVE IInv'
  <2>1. TypeOK'
    BY <1>2 DEF IInv, TypeOK, Leave, Goto, Guard!Release
  <2>2. HeldInside'
    BY <1>2 DEF IInv, TypeOK, HeldInside, Inside, Leave, Goto, Guard!Release
  <2> QED
    BY <1>2, <2>1, <2>2, QuietStep DEF Leave
<1>3. ASSUME NEW w \in Writers, Open(w) PROVE IInv'
  <2>1. \A v \in Writers \ {w} : pc[v] \notin Inside
    BY <1>3, Alone DEF Open, Inside
  <2>2. temp' \in Inodes /\ temp' # target
    BY <1>3 DEF Open, IInv, TypeOK, TempIsNotTarget, Unused
  <2>3. TypeOK'
    <3>1. content' \in [Inodes -> [Position -> Writers \cup {None}]]
      BY <1>3, EmptyIsContent DEF IInv, TypeOK, Open
    <3>2. pos' \in [Writers -> 0 .. MaxSize]
      BY <1>3, ZeroIsPos DEF IInv, TypeOK, Open
    <3> QED
      BY <1>3, <2>2, <3>1, <3>2 DEF IInv, TypeOK, Open, Goto
  <2>4. /\ \A v \in Writers \ {w} : /\ pc'[v] = pc[v] /\ ino'[v] = ino[v]
                                    /\ owns'[v] = owns[v] /\ pos'[v] = pos[v]
        /\ pc'[w] = "writing" /\ ino'[w] = temp' /\ owns'[w] /\ pos'[w] = 0
    BY <1>3 DEF IInv, TypeOK, Open, Goto
  <2>5. HeldInside' /\ StreamFits' /\ OwnsFits'
    BY <1>3, <2>2, <2>4 DEF IInv, HeldInside, Inside, StreamFits, OwnsFits, Open
  <2>6. content'[temp'] = Empty /\ \A i \in Inodes \ {temp'} : content'[i] = content[i]
    BY <1>3, <2>2 DEF IInv, TypeOK, Open
  <2>7. WritingFits' /\ ClosedFits'
    <3>1. \A v \in Writers \ {w} : pc'[v] \notin {"writing", "closed"}
      BY <2>1, <2>4 DEF Inside
    <3>2. target' = target
      BY <1>3 DEF Open
    <3>3. \A k \in Position : content'[temp'][k] = None /\ ~(k <= 0)
      BY <2>6 DEF Empty, Position
    <3>4. 0 <= Size[w]
      OBVIOUS
    <3> QED
      BY <2>2, <2>4, <3>1, <3>2, <3>3, <3>4 DEF WritingFits, ClosedFits
  <2>8. TempIsNotTarget' /\ TargetWhole'
    BY <1>3, <2>2, <2>6 DEF IInv, TypeOK, TempIsNotTarget, TargetWhole, Open
  <2>9. KeptUnderRunLock'
    <3>1. \A v \in Writers \ {w} : pc'[v] \notin {"writing", "closed"}
      BY <2>1, <2>4 DEF Inside
    <3> QED
      BY <2>2, <2>4, <3>1 DEF KeptUnderRunLock, InProgressKept
  <2> QED
    BY <2>3, <2>5, <2>7, <2>8, <2>9 DEF IInv
<1>4. ASSUME NEW w \in Writers, OpenFails(w) PROVE IInv'
  <2>1. TypeOK'
    BY <1>4 DEF IInv, TypeOK, OpenFails, Goto, ReleaseLock, Guard!Release
  <2>2. HeldInside'
    BY <1>4 DEF IInv, TypeOK, HeldInside, Inside, OpenFails, Goto, ReleaseLock,
                Guard!Release
  <2>3. \A v \in Writers \ {w} : owns'[v] = owns[v]
    BY <1>4 DEF IInv, TypeOK, OpenFails
  <2> QED
    BY <1>4, <2>1, <2>2, <2>3, QuietStep DEF OpenFails
<1>5. ASSUME NEW w \in Writers, Write(w) PROVE IInv'
  <2>1. /\ ino[w] \in Inodes /\ ino[w] # target /\ temp \in {ino[w], None}
        /\ pos[w] + 1 \in Position /\ pos[w] + 1 <= Size[w]
    BY <1>5 DEF IInv, TypeOK, Write, StreamFits, WritingFits, Position
  <2>2. \A v \in Writers \ {w} : pc[v] \notin Inside
    BY <1>5, Alone DEF Write, Inside
  <2>3. /\ \A i \in Inodes \ {ino[w]} : content'[i] = content[i]
        /\ \A k \in Position : content'[ino[w]][k] =
               IF k = pos[w] + 1 THEN w ELSE content[ino[w]][k]
        /\ content' \in [Inodes -> [Position -> Writers \cup {None}]]
    BY <1>5, <2>1 DEF IInv, TypeOK, Write
  <2>4. /\ pos' \in [Writers -> 0 .. MaxSize]
        /\ pos'[w] = pos[w] + 1
        /\ \A v \in Writers \ {w} : pos'[v] = pos[v]
    BY <1>5, <2>1 DEF IInv, TypeOK, Write, Position
  <2>5. TypeOK'
    BY <1>5, <2>3, <2>4 DEF IInv, TypeOK, Write
  <2>6. HeldInside' /\ StreamFits' /\ OwnsFits'
    BY <1>5 DEF IInv, HeldInside, Inside, StreamFits, OwnsFits, Write
  <2>7. WritingFits'
    <3>1. \A v \in Writers \ {w} : pc[v] # "writing"
      BY <2>2 DEF Inside
    <3>2. \A k \in Position : content'[ino[w]][k] = IF k <= pos[w] + 1 THEN w ELSE None
      BY <1>5, <2>1, <2>3 DEF IInv, TypeOK, WritingFits, Write, Position
    <3> QED
      BY <1>5, <2>1, <2>4, <3>1, <3>2 DEF WritingFits, Write
  <2>8. ClosedFits'
    BY <1>5, <2>2 DEF ClosedFits, Write, Inside
  <2>9. TempIsNotTarget' /\ TargetWhole' /\ KeptUnderRunLock'
    BY <1>5, <2>1, <2>3 DEF IInv, TypeOK, TempIsNotTarget, TargetWhole,
                            KeptUnderRunLock, InProgressKept, Write
  <2> QED
    BY <2>5, <2>6, <2>7, <2>8, <2>9 DEF IInv
<1>6. ASSUME NEW w \in Writers, Flush(w) PROVE IInv'
  <2>1. /\ \A v \in Writers \ {w} : /\ pc'[v] = pc[v] /\ ino'[v] = ino[v]
                                    /\ pos'[v] = pos[v]
        /\ pc'[w] = "closed" /\ ino'[w] = None
    BY <1>6 DEF IInv, TypeOK, Flush, Goto, CloseStream
  <2>2. TypeOK'
    BY <1>6 DEF IInv, TypeOK, Flush, Goto, CloseStream
  <2>3. HeldInside' /\ StreamFits' /\ OwnsFits'
    BY <1>6, <2>1 DEF IInv, HeldInside, Inside, StreamFits, OwnsFits, Flush
  <2>4. WritingFits'
    BY <1>6, <2>1 DEF IInv, WritingFits, Flush
  <2>5. temp # None => content[temp] = Image(w)
    <3> SUFFICES ASSUME temp # None PROVE content[temp] = Image(w)
      OBVIOUS
    <3>1. temp = ino[w] /\ temp \in Inodes
      BY <1>6 DEF IInv, TypeOK, WritingFits, Flush
    <3>2. \A k \in Position : content[temp][k] = IF k <= Size[w] THEN w ELSE None
      BY <1>6, <3>1 DEF IInv, WritingFits, Flush
    <3>3. content[temp] \in [Position -> Writers \cup {None}]
      BY <3>1 DEF IInv, TypeOK
    <3> QED
      BY <3>2, <3>3 DEF Image
  <2>6. ClosedFits'
    BY <1>6, <2>1, <2>5 DEF IInv, ClosedFits, Flush
  <2>7. TempIsNotTarget' /\ TargetWhole'
    BY <1>6 DEF IInv, TempIsNotTarget, TargetWhole, Flush
  <2>8. KeptUnderRunLock'
    BY <1>6, <2>1 DEF IInv, KeptUnderRunLock, InProgressKept, StreamFits, Flush
  <2> QED
    BY <2>2, <2>3, <2>4, <2>6, <2>7, <2>8 DEF IInv
<1>7. ASSUME NEW w \in Writers, GiveUp(w) PROVE IInv'
  <2>1. /\ \A v \in Writers \ {w} : /\ pc'[v] = pc[v] /\ ino'[v] = ino[v]
                                    /\ pos'[v] = pos[v]
        /\ pc'[w] = "finished" /\ ino'[w] = None
    BY <1>7 DEF IInv, TypeOK, GiveUp, Goto, CloseStream
  <2>2. TypeOK'
    BY <1>7 DEF IInv, TypeOK, GiveUp, Goto, CloseStream
  <2>3. HeldInside' /\ StreamFits' /\ OwnsFits'
    BY <1>7, <2>1 DEF IInv, HeldInside, Inside, StreamFits, OwnsFits, GiveUp
  <2>4. WritingFits' /\ ClosedFits'
    BY <1>7, <2>1 DEF IInv, WritingFits, ClosedFits, GiveUp
  <2>5. TempIsNotTarget' /\ TargetWhole' /\ KeptUnderRunLock'
    BY <1>7, <2>1 DEF IInv, TempIsNotTarget, TargetWhole, KeptUnderRunLock,
                      InProgressKept, GiveUp
  <2> QED
    BY <2>2, <2>3, <2>4, <2>5 DEF IInv
<1>8. ASSUME NEW w \in Writers, Rename(w) PROVE IInv'
  <2>1. \A v \in Writers \ {w} : pc[v] \notin Inside
    BY <1>8, Alone DEF Rename, Inside
  <2>2. /\ \A v \in Writers \ {w} : pc'[v] = pc[v] /\ owns'[v] = owns[v]
        /\ pc'[w] = "renamed" /\ ~owns'[w]
    BY <1>8 DEF IInv, TypeOK, Rename, Goto
  <2>3. TypeOK'
    BY <1>8 DEF IInv, TypeOK, Rename, Goto
  <2>4. HeldInside' /\ StreamFits' /\ OwnsFits'
    BY <1>8, <2>2 DEF IInv, HeldInside, Inside, StreamFits, OwnsFits, Rename
  <2>5. WritingFits' /\ ClosedFits' /\ KeptUnderRunLock'
    BY <2>1, <2>2 DEF WritingFits, ClosedFits, KeptUnderRunLock, InProgressKept, Inside
  <2>6. TempIsNotTarget' /\ TargetWhole'
    BY <1>8 DEF IInv, ClosedFits, TempIsNotTarget, TargetWhole, Rename
  <2> QED
    BY <2>3, <2>4, <2>5, <2>6 DEF IInv
<1>9. ASSUME NEW w \in Writers, RenameFails(w) PROVE IInv'
  <2>1. TypeOK'
    BY <1>9 DEF IInv, TypeOK, RenameFails, Goto
  <2>2. HeldInside'
    BY <1>9 DEF IInv, TypeOK, HeldInside, Inside, RenameFails, Goto
  <2> QED
    BY <1>9, <2>1, <2>2, QuietStep DEF RenameFails
<1>10. ASSUME NEW w \in Writers, ReleaseCommitted(w) PROVE IInv'
  <2>1. TypeOK'
    BY <1>10 DEF IInv, TypeOK, ReleaseCommitted, Goto, ReleaseLock, Guard!Release
  <2>2. HeldInside'
    BY <1>10 DEF IInv, TypeOK, HeldInside, Inside, ReleaseCommitted, Goto,
                 ReleaseLock, Guard!Release
  <2> QED
    BY <1>10, <2>1, <2>2, QuietStep DEF ReleaseCommitted
<1>11. ASSUME NEW w \in Writers, Remove(w) PROVE IInv'
  <2>1. /\ \A v \in Writers \ {w} : pc'[v] = pc[v] /\ owns'[v] = owns[v]
        /\ pc'[w] = "removed" /\ temp' \in {temp, None}
    BY <1>11 DEF IInv, TypeOK, Remove, Goto
  <2>2. TypeOK'
    BY <1>11 DEF IInv, TypeOK, Remove, Goto
  <2>3. HeldInside' /\ StreamFits' /\ OwnsFits'
    BY <1>11, <2>1 DEF IInv, HeldInside, Inside, StreamFits, OwnsFits, Remove
  <2>4. WritingFits' /\ ClosedFits'
    BY <1>11, <2>1 DEF IInv, WritingFits, ClosedFits, Remove
  <2>5. TempIsNotTarget' /\ TargetWhole'
    BY <1>11, <2>1 DEF IInv, TempIsNotTarget, TargetWhole, Remove
  <2>6. KeptUnderRunLock'
    <3> SUFFICES ASSUME locking' = "None" PROVE InProgressKept'
      BY DEF KeptUnderRunLock
    <3>1. \A v \in Writers \ {w} : pc[v] \notin Inside
      BY <1>11, Alone DEF Remove, Inside
    <3> QED
      BY <2>1, <3>1 DEF Inside, InProgressKept
  <2> QED
    BY <2>2, <2>3, <2>4, <2>5, <2>6 DEF IInv
<1>12. ASSUME NEW w \in Writers, ReleaseLast(w) PROVE IInv'
  <2>1. TypeOK'
    BY <1>12 DEF IInv, TypeOK, ReleaseLast, Goto, ReleaseLock, Guard!Release
  <2>2. HeldInside'
    BY <1>12 DEF IInv, TypeOK, HeldInside, Inside, ReleaseLast, Goto, ReleaseLock,
                 Guard!Release
  <2> QED
    BY <1>12, <2>1, <2>2, QuietStep DEF ReleaseLast
<1>13. ASSUME NEW w \in Writers, Die(w) PROVE IInv'
  <2>1. /\ \A v \in Writers \ {w} : /\ pc'[v] = pc[v] /\ ino'[v] = ino[v]
                                    /\ pos'[v] = pos[v] /\ owns'[v] = owns[v]
        /\ pc'[w] = "out" /\ ino'[w] = None
    BY <1>13 DEF IInv, TypeOK, Die, Goto, CloseStream
  <2>2. TypeOK'
    BY <1>13 DEF IInv, TypeOK, Die, Goto, CloseStream
  <2>3. HeldInside' /\ StreamFits' /\ OwnsFits'
    BY <1>13, <2>1 DEF IInv, HeldInside, Inside, StreamFits, OwnsFits, Die
  <2>4. WritingFits' /\ ClosedFits'
    BY <1>13, <2>1 DEF IInv, WritingFits, ClosedFits, Die
  <2>5. TempIsNotTarget' /\ TargetWhole' /\ KeptUnderRunLock'
    BY <1>13, <2>1 DEF IInv, TempIsNotTarget, TargetWhole, KeptUnderRunLock,
                       InProgressKept, Die
  <2> QED
    BY <2>2, <2>3, <2>4, <2>5 DEF IInv
<1>14. CASE UNCHANGED vars
  BY <1>14 DEF vars, lifecycle, IInv, TypeOK, HeldInside, Inside, StreamFits, OwnsFits,
               WritingFits, ClosedFits, TempIsNotTarget, TargetWhole,
               KeptUnderRunLock, InProgressKept
<1> QED
  BY <1>1, <1>2, <1>3, <1>4, <1>5, <1>6, <1>7, <1>8, <1>9, <1>10, <1>11, <1>12,
     <1>13, <1>14 DEF Next

\* The invariant of a file and its writers holds in every state.
THEOREM Invariance == Spec => []IInv
  BY InitInvariant, NextInvariant, PTL DEF Spec

(* Every variable stays in its range, at any number of processes. *)
THEOREM TypeCorrectness == Spec => []TypeOK
<1>1. IInv => TypeOK
  BY DEF IInv
<1> QED
  BY <1>1, Invariance, PTL

(* Used as the program uses it, under the run lock and without a lock of   *)
(* its own, no writer's sibling is taken away while it is being written.   *)
THEOREM RunLockSuffices == Spec => []KeptUnderRunLock
<1>1. IInv => KeptUnderRunLock
  BY DEF IInv
<1> QED
  BY <1>1, Invariance, PTL

LEMMA LitterStep == IInv /\ NoLitter /\ [Next]_vars => NoLitter'
<1> SUFFICES ASSUME IInv, NoLitter, [Next]_vars, temp' # None, ~orphan'
             PROVE  \E w \in Writers :
                       owns'[w] /\ pc'[w] \in {"writing", "closed", "finished"}
  BY DEF NoLitter
<1> USE WriterNoneAssumption DEF IInv, TypeOK, OwnsFits, NoLitter, Goto
<1>1. CASE \E v \in Writers : Open(v)
  BY <1>1 DEF Open
<1>2. CASE \E v \in Writers : Remove(v) \/ Rename(v) \/ Die(v)
  <2>1. PICK v \in Writers : Remove(v) \/ Rename(v) \/ Die(v)
    BY <1>2
  <2>2. temp # None /\ ~orphan /\ ~owns[v]
    BY <2>1 DEF Remove, Rename, Die
  <2>3. PICK w \in Writers : owns[w] /\ pc[w] \in {"writing", "closed", "finished"}
    BY <2>2
  <2>4. w # v /\ owns'[w] = owns[w] /\ pc'[w] = pc[w]
    BY <2>1, <2>2, <2>3 DEF Remove, Rename, Die
  <2> QED
    BY <2>3, <2>4
<1>3. CASE \E v \in Writers : Enter(v) \/ Leave(v) \/ OpenFails(v) \/ Write(v)
              \/ Flush(v) \/ GiveUp(v) \/ RenameFails(v) \/ ReleaseCommitted(v)
              \/ ReleaseLast(v)
  <2>1. PICK v \in Writers : Enter(v) \/ Leave(v) \/ OpenFails(v) \/ Write(v)
              \/ Flush(v) \/ GiveUp(v) \/ RenameFails(v) \/ ReleaseCommitted(v)
              \/ ReleaseLast(v)
    BY <1>3
  <2>2. temp # None /\ ~orphan
    BY <2>1 DEF Enter, Leave, OpenFails, Write, Flush, GiveUp, RenameFails,
                ReleaseCommitted, ReleaseLast
  <2>3. PICK w \in Writers : owns[w] /\ pc[w] \in {"writing", "closed", "finished"}
    BY <2>2
  <2>4. owns'[w] /\ pc'[w] \in {"writing", "closed", "finished"}
    BY <2>1, <2>3 DEF Enter, Leave, OpenFails, Write, Flush, GiveUp, RenameFails,
                      ReleaseCommitted, ReleaseLast
  <2> QED
    BY <2>4
<1>4. CASE UNCHANGED vars
  BY <1>4 DEF vars, lifecycle
<1> QED
  BY <1>1, <1>2, <1>3, <1>4 DEF Next

(* Half-written siblings are left by dead processes and failed removals    *)
(* only; the next writer of the target takes such a file over.             *)
THEOREM NothingLeftBehind == Spec => []NoLitter
<1>1. Init => NoLitter
  BY DEF Init, NoLitter
<1> QED
  BY <1>1, LitterStep, Invariance, PTL DEF Spec

-----------------------------------------------------------------------------
(* The refinement: Rename is the one step that changes what a reader sees. *)

LEMMA ImageShown ==
  ASSUME target # None, NEW w \in Writers, content[target] = Image(w)
  PROVE  Value = w
<1>1. \A v \in Writers : content[target] = Image(v) => v = w
  BY ImageDistinct
<1> QED
  BY <1>1 DEF Value

LEMMA ImageShownPrimed ==
  ASSUME target' # None, NEW w \in Writers, content'[target'] = Image(w)
  PROVE  Value' = w
<1>1. \A v \in Writers : content'[target'] = Image(v) => v = w
  BY ImageDistinct
<1>2. \A v \in Writers : Image(v)' = Image(v)
  BY DEF Image
<1> QED
  BY <1>1, <1>2 DEF Value

LEMMA SameValue ==
  ASSUME IInv, target' = target, target # None => content'[target] = content[target]
  PROVE  Value' = Value
<1>1. CASE target = None
  BY <1>1 DEF Value
<1>2. CASE target # None
  <2>1. PICK w \in Writers : content[target] = Image(w)
    BY <1>2 DEF IInv, TargetWhole
  <2> QED
    BY <1>2, <2>1, ImageShown, ImageShownPrimed
<1> QED
  BY <1>1, <1>2

(* A step of w alone moves the phase of w alone. *)
LEMMA PhaseStep ==
  ASSUME NEW w \in Writers, NEW from, NEW to,
         \A v \in Writers \ {w} : pc'[v] = pc[v] /\ owns'[v] = owns[v],
         Phase[w] = from, Phase'[w] = to
  PROVE  Abstract!Step(w, from, to)
<1>1. \A v \in Writers \ {w} : Phase'[v] = Phase[v]
  BY DEF Phase
<1>2. Phase' = [Phase EXCEPT ![w] = to]
  BY <1>1 DEF Phase
<1> QED
  BY <1>2 DEF Abstract!Step

LEMMA SamePhase ==
  ASSUME NEW w \in Writers,
         \A v \in Writers \ {w} : pc'[v] = pc[v] /\ owns'[v] = owns[v],
         Phase'[w] = Phase[w]
  PROVE  Phase' = Phase
<1>1. \A v \in Writers : Phase'[v] = Phase[v]
  BY DEF Phase
<1> QED
  BY <1>1 DEF Phase

LEMMA StepReplaces ==
  ASSUME IInv, NEW w \in Writers,
         \/ Enter(w) \/ Leave(w) \/ Open(w) \/ OpenFails(w) \/ Write(w)
         \/ Flush(w) \/ GiveUp(w) \/ Rename(w) \/ RenameFails(w)
         \/ ReleaseCommitted(w) \/ Remove(w) \/ ReleaseLast(w) \/ Die(w)
  PROVE  [Abstract!Next]_<<Value, Phase>>
<1> USE WriterNoneAssumption
<1>0. \A v \in Writers \ {w} : pc'[v] = pc[v] /\ owns'[v] = owns[v]
  BY DEF IInv, TypeOK, Enter, Leave, Open, OpenFails, Write, Flush, GiveUp, Rename,
         RenameFails, ReleaseCommitted, Remove, ReleaseLast, Die, Goto
<1>1. CASE Enter(w) \/ Leave(w) \/ ReleaseLast(w)
  <2>1. pc[w] \in {"out", "ready", "removed"} /\ pc'[w] \in {"out", "ready"}
    BY <1>1 DEF IInv, TypeOK, Enter, Leave, ReleaseLast, Goto
  <2>2. Phase'[w] = Phase[w]
    BY <2>1 DEF Phase
  <2> QED
    BY <1>0, <1>1, <2>2, SamePhase, SameValue DEF Enter, Leave, ReleaseLast
<1>2. CASE Open(w)
  <2>1. pc[w] = "ready" /\ pc'[w] = "writing"
    BY <1>2 DEF IInv, TypeOK, Open, Goto
  <2>2. Abstract!Step(w, "idle", "trying")
    BY <1>0, <2>1, PhaseStep DEF Phase
  <2>3. temp' # target /\ temp' \in Inodes
    BY <1>2 DEF IInv, TypeOK, TempIsNotTarget, Open, Unused
  <2>4. Value' = Value
    BY <1>2, <2>3, SameValue DEF IInv, TypeOK, Open
  <2> QED
    BY <2>2, <2>4 DEF Abstract!Begin, Abstract!Next
<1>3. CASE OpenFails(w)
  <2>1. pc[w] = "ready" /\ pc'[w] = "finished" /\ owns'[w]
    BY <1>3 DEF IInv, TypeOK, OpenFails, Goto
  <2>2. Abstract!Step(w, "idle", "failed")
    BY <1>0, <2>1, PhaseStep DEF Phase
  <2>3. Value' = Value
    BY <1>3, SameValue DEF OpenFails
  <2> QED
    BY <2>2, <2>3 DEF Abstract!Refuse, Abstract!Next
<1>4. CASE Write(w) \/ Flush(w)
  <2>1. pc[w] = "writing" /\ pc'[w] \in {"writing", "closed"}
    BY <1>4 DEF IInv, TypeOK, Write, Flush, Goto
  <2>2. Phase'[w] = Phase[w]
    BY <2>1 DEF Phase
  <2>3. ino[w] # target /\ ino[w] \in Inodes
    BY <2>1 DEF IInv, TypeOK, StreamFits, WritingFits
  <2>4. Value' = Value
    BY <1>4, <2>3, SameValue DEF IInv, TypeOK, Write, Flush
  <2> QED
    BY <1>0, <2>2, <2>4, SamePhase
<1>5. CASE GiveUp(w) \/ RenameFails(w)
  <2>1. /\ pc[w] \in {"writing", "closed"} /\ pc'[w] = "finished"
        /\ owns[w] /\ owns'[w] = owns[w]
    BY <1>5 DEF IInv, TypeOK, OwnsFits, GiveUp, RenameFails, Goto
  <2>2. Abstract!Step(w, "trying", "failed")
    BY <1>0, <2>1, PhaseStep DEF Phase
  <2>3. Value' = Value
    BY <1>5, SameValue DEF GiveUp, RenameFails
  <2> QED
    BY <2>2, <2>3 DEF Abstract!Fail, Abstract!Next
<1>6. CASE Rename(w)
  <2>1. pc[w] = "closed" /\ pc'[w] = "renamed"
    BY <1>6 DEF IInv, TypeOK, Rename, Goto
  <2>2. Abstract!Step(w, "trying", "saved")
    BY <1>0, <2>1, PhaseStep DEF Phase
  <2>3. target' # None /\ content'[target'] = Image(w)
    BY <1>6 DEF IInv, ClosedFits, Rename
  <2>4. Value' = w
    BY <2>3, ImageShownPrimed
  <2> QED
    BY <2>2, <2>4 DEF Abstract!Save, Abstract!Next
<1>7. CASE ReleaseCommitted(w)
  <2>1. pc[w] = "renamed" /\ pc'[w] = "finished" /\ ~owns[w] /\ owns' = owns
    BY <1>7 DEF IInv, TypeOK, OwnsFits, ReleaseCommitted, Goto
  <2>2. Phase'[w] = Phase[w]
    BY <2>1 DEF Phase
  <2> QED
    BY <1>0, <1>7, <2>2, SamePhase, SameValue DEF ReleaseCommitted
<1>8. CASE Remove(w) \/ Die(w)
  <2>1. pc'[w] \in {"removed", "out"}
    BY <1>8 DEF IInv, TypeOK, Remove, Die, Goto
  <2>2. Phase'[w] = "idle"
    BY <2>1 DEF Phase
  <2>3. Value' = Value
    BY <1>8, SameValue DEF Remove, Die
  <2>4. CASE Phase[w] = "idle"
    BY <1>0, <2>2, <2>3, <2>4, SamePhase
  <2>5. CASE Phase[w] # "idle"
    BY <1>0, <2>2, <2>3, <2>5, PhaseStep DEF Abstract!End, Abstract!Next
  <2> QED
    BY <2>4, <2>5
<1> QED
  BY <1>1, <1>2, <1>3, <1>4, <1>5, <1>6, <1>7, <1>8

(* The class keeps its promise under either lock: the target is replaced   *)
(* as a whole, in one step, by writers that committed, and by nothing else.*)
THEOREM ReplacementAtomic == Spec => ReplacesAtomically
<1>1. Init => Abstract!Init
  BY DEF Init, Abstract!Init, Value, Phase
<1>2. IInv /\ [Next]_vars => [Abstract!Next]_<<Value, Phase>>
  <2>1. ASSUME UNCHANGED vars PROVE UNCHANGED <<Value, Phase>>
    BY <2>1 DEF vars, lifecycle, Value, Phase, Image
  <2> QED
    BY <2>1, StepReplaces DEF Next
<1> QED
  BY <1>1, <1>2, Invariance, PTL DEF Spec, ReplacesAtomically, Abstract!Spec, Abstract!avars

-----------------------------------------------------------------------------
(***************************************************************************)
(* AdvisoryFileLock: it excludes, and implements the abstract try-lock the *)
(* writers use, for any number of processes.  The inductive invariant adds *)
(* to the checked properties that every open descriptor names the one lock *)
(* file: that is what "the lock file is never unlinked" buys.              *)
(***************************************************************************)

OneFile == \A p \in Procs : desc[p] # Nil => desc[p] = name

OpenMatchesPc == \A p \in Procs : desc[p] = Nil <=> step[p] = "idle"

HoldersLock == \A p \in Procs : step[p] = "holding" => locker[desc[p]] = p

LockIInv == LockTypeOK /\ OneFile /\ OpenMatchesPc /\ HoldersLock /\ NoStaleLock

LEMMA LockInitInvariant == LockInit => LockIInv
  BY LockNoneAssumption
     DEF LockInit, LockIInv, LockTypeOK, OneFile, OpenMatchesPc, HoldersLock, NoStaleLock

(* Closing a descriptor takes its own flock with it and no other. *)
LEMMA CloseReleases ==
  ASSUME LockIInv, NEW p \in Procs, CloseDescriptor(p), step[p] # "holding",
         name' = name, Proceed(p, "idle"),
         contended' \in [Procs -> BOOLEAN]
  PROVE  LockIInv'
<1> USE LockNoneAssumption DEF CloseDescriptor, Proceed
<1>1. LockTypeOK'
  BY DEF LockIInv, LockTypeOK
<1>2. \A q \in Procs \ {p} : desc'[q] = desc[q] /\ step'[q] = step[q]
  BY DEF LockIInv, LockTypeOK
<1>3. desc'[p] = Nil /\ step'[p] = "idle"
  BY DEF LockIInv, LockTypeOK
<1>4. \A i \in LockFiles : locker'[i] = IF locker[i] = p THEN Nil ELSE locker[i]
  BY DEF LockIInv, LockTypeOK
<1> HIDE DEF CloseDescriptor, Proceed
<1>5. OneFile' /\ OpenMatchesPc'
  BY <1>2, <1>3 DEF LockIInv, OneFile, OpenMatchesPc
<1>6. HoldersLock'
  BY <1>2, <1>3, <1>4 DEF LockIInv, LockTypeOK, OpenMatchesPc, HoldersLock
<1>7. NoStaleLock'
  BY <1>2, <1>3, <1>4 DEF LockIInv, LockTypeOK, NoStaleLock
<1> QED
  BY <1>1, <1>5, <1>6, <1>7 DEF LockIInv

LEMMA LockNextInvariant == LockIInv /\ [LockNext]_lockVars => LockIInv'
<1> SUFFICES ASSUME LockIInv, [LockNext]_lockVars PROVE LockIInv'
  OBVIOUS
<1> USE LockNoneAssumption
        DEF LockIInv, LockTypeOK, OneFile, OpenMatchesPc, HoldersLock, NoStaleLock
<1>1. ASSUME NEW p \in Procs, OpenLockFile(p) PROVE LockIInv'
  BY <1>1 DEF OpenLockFile, Proceed
<1>2. ASSUME NEW p \in Procs, LockFileRefused(p) PROVE LockIInv'
  BY <1>2 DEF LockFileRefused
<1>3. ASSUME NEW p \in Procs, Inspect(p) PROVE LockIInv'
  BY <1>3 DEF Inspect, Proceed
<1>4. ASSUME NEW p \in Procs, InspectFails(p) PROVE LockIInv'
  BY <1>4, CloseReleases DEF InspectFails
<1>5. ASSUME NEW p \in Procs, Flock(p) PROVE LockIInv'
  BY <1>5 DEF Flock, Proceed
<1>6. ASSUME NEW p \in Procs, FlockFails(p) PROVE LockIInv'
  <2>1. contended' \in [Procs -> BOOLEAN]
    <3>1. \/ contended' = [contended EXCEPT ![p] = TRUE]
          \/ contended' = contended
      BY <1>6 DEF FlockFails
    <3>2. contended \in [Procs -> BOOLEAN]
      OBVIOUS
    <3> HIDE DEF LockIInv, LockTypeOK, OneFile, OpenMatchesPc, HoldersLock, NoStaleLock
    <3> QED
      BY <3>1, <3>2
  <2>2. CloseDescriptor(p) /\ step[p] # "holding" /\ name' = name /\ Proceed(p, "idle")
    BY <1>6 DEF FlockFails
  <2> QED
    BY <2>1, <2>2, CloseReleases
<1>7. ASSUME NEW p \in Procs, Unlock(p) PROVE LockIInv'
  BY <1>7 DEF Unlock, Proceed
<1>8. ASSUME NEW p \in Procs, Close(p) PROVE LockIInv'
  BY <1>8, CloseReleases DEF Close
<1>9. ASSUME NEW p \in Procs, Killed(p) PROVE LockIInv'
  BY <1>9 DEF Killed, CloseDescriptor, Proceed
<1>10. CASE UNCHANGED lockVars
  BY <1>10 DEF lockVars
<1> QED
  BY <1>1, <1>2, <1>3, <1>4, <1>5, <1>6, <1>7, <1>8, <1>9, <1>10 DEF LockNext

\* The invariant of the lock file holds in every state.
THEOREM LockInvariance == LockSpec => []LockIInv
  BY LockInitInvariant, LockNextInvariant, PTL DEF LockSpec

LEMMA OneHolder == LockIInv => MutualExclusion
  BY LockNoneAssumption
     DEF LockIInv, LockTypeOK, OneFile, OpenMatchesPc, HoldersLock, MutualExclusion

(* Two processes never both believe they own the lock, whatever fails and  *)
(* whoever dies: the promise RunLock makes to every other module.          *)
THEOREM Exclusion == LockSpec => []MutualExclusion
  BY LockInvariance, OneHolder, PTL

(* A dead process leaves no lock behind: the reason AdvisoryFileLock uses  *)
(* flock instead of the former create-directory scheme.                    *)
THEOREM NothingStale == LockSpec => []NoStaleLock
<1>1. LockIInv => NoStaleLock
  BY DEF LockIInv
<1> QED
  BY <1>1, LockInvariance, PTL

(* "Already running" is only said while another live process has the lock. *)
THEOREM ContentionReal == LockSpec => ContendedIsTrue
<1>1. ASSUME LockIInv, [LockNext]_lockVars
      PROVE  [\A p \in Procs : ~contended[p] /\ contended'[p] =>
                 \E q \in Procs \ {p} : step[q] \in {"holding", "unlocked"}]_lockVars
  <2> SUFFICES ASSUME LockNext, NEW p \in Procs, ~contended[p], contended'[p]
               PROVE  \E q \in Procs \ {p} : step[q] \in {"holding", "unlocked"}
    BY <1>1
  <2>1. PICK q \in Procs : FlockFails(q)
    BY <1>1 DEF LockIInv, LockTypeOK, LockNext, OpenLockFile, LockFileRefused, Inspect, InspectFails,
                Flock, Unlock, Close, Killed
  <2>2. q = p /\ step[p] = "checked" /\ locker[desc[p]] # Nil
    BY <1>1, <2>1 DEF LockIInv, LockTypeOK, FlockFails
  <2>3. desc[p] \in LockFiles
    BY <1>1, <2>2 DEF LockIInv, LockTypeOK, OpenMatchesPc
  <2>4. locker[desc[p]] \in Procs /\ step[locker[desc[p]]] \in {"holding", "unlocked"}
    BY <1>1, <2>2, <2>3 DEF LockIInv, LockTypeOK, NoStaleLock
  <2> QED
    BY <2>2, <2>4
<1> QED
  BY <1>1, LockInvariance, PTL DEF LockSpec, ContendedIsTrue

-----------------------------------------------------------------------------

LEMMA HolderIs ==
  ASSUME LockIInv, NEW p \in Procs, step[p] = "holding"
  PROVE  Holder = p
<1>1. \A q \in Procs : step[q] = "holding" => q = p
  BY OneHolder DEF MutualExclusion
<1> QED
  BY <1>1 DEF Holder

LEMMA HolderIsPrimed ==
  ASSUME LockIInv', NEW p \in Procs, step'[p] = "holding"
  PROVE  Holder' = p
<1>1. LockIInv' => MutualExclusion'
  BY OneHolder, PTL
<1>2. \A q \in Procs : step'[q] = "holding" => q = p
  BY <1>1 DEF MutualExclusion
<1> QED
  BY <1>2 DEF Holder

(* The lock the rest of the program is verified against (Mutex) is what    *)
(* the calls of AdvisoryFileLock provide.                                  *)
THEOREM MutexImplemented == LockSpec => ImplementsMutex
<1> USE LockNoneAssumption
<1>1. LockInit => TryLock!Init
  BY DEF LockInit, TryLock!Init, Holder
<1>2. ASSUME LockIInv, LockIInv', [LockNext]_lockVars
      PROVE  [TryLock!Next]_Holder
  <2>1. ASSUME NEW p \in Procs, Flock(p)
        PROVE  TryLock!Acquire(p)
    <3>1. step'[p] = "holding"
      BY <1>2, <2>1 DEF Flock, Proceed, LockIInv, LockTypeOK
    <3>2. Holder' = p
      BY <1>2, <3>1, HolderIsPrimed
    <3>3. \A q \in Procs : step[q] # "holding"
      BY <1>2, <2>1 DEF Flock, LockIInv, LockTypeOK, OneFile, OpenMatchesPc, HoldersLock
    <3> QED
      BY <3>2, <3>3 DEF Holder, TryLock!Acquire
  <2>2. ASSUME NEW p \in Procs, step[p] = "holding", step'[p] # "holding",
               \A q \in Procs \ {p} : step'[q] = step[q]
        PROVE  TryLock!Release(p)
    <3>1. Holder = p
      BY <1>2, <2>2, HolderIs
    <3>2. \A q \in Procs : step'[q] # "holding"
      BY <1>2, <2>2, OneHolder DEF MutualExclusion
    <3> QED
      BY <3>1, <3>2 DEF Holder, TryLock!Release
  <2>3. ASSUME \A q \in Procs : step'[q] = "holding" <=> step[q] = "holding"
        PROVE  Holder' = Holder
    <3>1. CASE \E p \in Procs : step[p] = "holding"
      <4>1. PICK p \in Procs : step[p] = "holding"
        BY <3>1
      <4> QED
        BY <1>2, <2>3, <4>1, HolderIs, HolderIsPrimed
    <3>2. CASE \A p \in Procs : step[p] # "holding"
      BY <2>3, <3>2 DEF Holder
    <3> QED
      BY <3>1, <3>2
  <2>4. CASE \E p \in Procs : Flock(p)
    BY <2>1, <2>4 DEF TryLock!Next
  <2>5. CASE \E p \in Procs : Unlock(p)
    <3>1. PICK p \in Procs : Unlock(p)
      BY <2>5
    <3>2. TryLock!Release(p)
      BY <1>2, <2>2, <3>1 DEF Unlock, Proceed, LockIInv, LockTypeOK
    <3> QED
      BY <3>2 DEF TryLock!Next
  <2>6. CASE \E p \in Procs : Killed(p)
    <3>1. PICK p \in Procs : Killed(p)
      BY <2>6
    <3>2. CASE step[p] = "holding"
      <4>1. TryLock!Release(p)
        BY <1>2, <2>2, <3>1, <3>2 DEF Killed, Proceed, LockIInv, LockTypeOK
      <4> QED
        BY <4>1 DEF TryLock!Next
    <3>3. CASE step[p] # "holding"
      BY <1>2, <2>3, <3>1, <3>3 DEF Killed, Proceed, LockIInv, LockTypeOK
    <3> QED
      BY <3>2, <3>3
  <2>7. CASE \E p \in Procs : OpenLockFile(p) \/ LockFileRefused(p) \/ Inspect(p)
                              \/ InspectFails(p) \/ FlockFails(p) \/ Close(p)
    BY <1>2, <2>3, <2>7 DEF OpenLockFile, LockFileRefused, Inspect, InspectFails, FlockFails,
                            Close, Proceed, LockIInv, LockTypeOK
  <2>8. CASE UNCHANGED lockVars
    BY <2>3, <2>8 DEF lockVars
  <2> QED
    BY <1>2, <2>4, <2>5, <2>6, <2>7, <2>8 DEF LockNext
<1> QED
  BY <1>1, <1>2, LockInvariance, PTL DEF LockSpec, ImplementsMutex, TryLock!Spec

=============================================================================
