-------------------------- MODULE Commands_proofs --------------------------
(***************************************************************************)
(* Proofs about the two sides of a download command.                       *)
(*                                                                         *)
(* WorkerPool, for any list of symbols and any number of slots and         *)
(* attempts: no more workers than slots are at work, no slot is lost, a    *)
(* command that has ended, in whatever way, has no worker left, and no     *)
(* result or failure of a worker is lost.                                  *)
(*                                                                         *)
(* DownloadCommand, for any symbols, universe, archives, downloaders and   *)
(* number of changes of the listing: its type invariant, when a file may   *)
(* disappear, and what OKX keeps maintained.                               *)
(***************************************************************************)
EXTENDS WorkerPool, DownloadCommand, NumberSets_proofs

-----------------------------------------------------------------------------
(* The pool: the inductive invariant about slots and workers *)

Phases == {"running", "pausing", "leaving", "released", "ready"}

Counted ==
    /\ free \in Int
    /\ phase \in Seq(Phases)
    /\ launched \in Nat /\ launched = Len(phase)
    /\ collected \in 0 .. launched

NoneBeforeLaunch == main = "preparing" => launched = 0

CollectedDone == \A j \in 1 .. collected : phase[j] = "ready"

EndedQuiet == Ended => Busy = {}

SlotsInv == Counted /\ NoneBeforeLaunch /\ CollectedDone /\ EndedQuiet /\ WorkersBounded

LEMMA HoldingFinite ==
  ASSUME Counted
  PROVE  IsFiniteSet(Holding) /\ Cardinality(Holding) \in Nat
<1>1. IsFiniteSet(1 .. launched)
  BY FS_Interval DEF Counted
<1>2. Holding \subseteq 1 .. launched
  BY DEF Holding, Busy, Launched
<1> QED
  BY <1>1, <1>2, FS_Subset, FS_CardinalityType

LEMMA SlotsInit == Init => SlotsInv
<1> SUFFICES ASSUME Init PROVE SlotsInv
  OBVIOUS
<1>1. Counted /\ NoneBeforeLaunch /\ CollectedDone /\ EndedQuiet
  BY SlotsAssumption
     DEF Init, Counted, NoneBeforeLaunch, CollectedDone, EndedQuiet, Ended
<1>2. Holding = {}
  BY DEF Init, Holding, Busy, Launched
<1>3. WorkersBounded
  BY <1>2, FS_EmptySet, SlotsAssumption DEF Init, WorkersBounded
<1> QED
  BY <1>1, <1>3 DEF SlotsInv

(* A step that leaves the workers alone and ends nothing only has to keep  *)
(* the account of the slots.                                               *)
LEMMA WorkersAlone ==
  ASSUME SlotsInv, UNCHANGED <<launched, phase>>,
         free' \in Int, collected' \in 0 .. launched, main' # "preparing",
         Ended' => Busy = {},
         \A j \in 1 .. collected' : phase[j] = "ready",
         free' >= 0,
         \/ main # "spawning" /\ main' = "spawning" /\ free' = free - 1
         \/ main = "spawning" /\ main' # "spawning" /\ free' = free + 1
         \/ main # "spawning" /\ main' # "spawning" /\ free' = free
  PROVE  SlotsInv'
<1>1. Busy' = Busy /\ Holding' = Holding
  BY DEF Busy, Holding, Launched
<1>2. Cardinality(Holding) \in Nat
  BY HoldingFinite DEF SlotsInv
<1>3. WorkersBounded'
  <2> SUFFICES free' + Cardinality(Holding) + (IF main' = "spawning" THEN 1 ELSE 0) = Slots
    BY <1>1 DEF WorkersBounded
  <2>1. PICK n \in Int : n = Cardinality(Holding)
    BY <1>2
  <2>2. free \in Int /\ free + n + (IF main = "spawning" THEN 1 ELSE 0) = Slots
    BY <2>1 DEF SlotsInv, Counted, WorkersBounded
  <2>3. CASE main # "spawning" /\ main' = "spawning" /\ free' = free - 1
    <3>1. free + n = Slots
      BY <2>2, <2>3
    <3> QED
      BY <2>1, <2>2, <2>3, <3>1
  <2>4. CASE main = "spawning" /\ main' # "spawning" /\ free' = free + 1
    <3>1. free + n + 1 = Slots
      BY <2>2, <2>4
    <3> QED
      BY <2>1, <2>2, <2>4, <3>1
  <2>5. CASE main # "spawning" /\ main' # "spawning" /\ free' = free
    BY <2>1, <2>2, <2>5
  <2> QED
    BY <2>3, <2>4, <2>5
<1>4. Counted' /\ NoneBeforeLaunch' /\ CollectedDone' /\ EndedQuiet'
  BY <1>1 DEF SlotsInv, Counted, NoneBeforeLaunch, CollectedDone, EndedQuiet
<1> QED
  BY <1>3, <1>4 DEF SlotsInv

(* A worker that keeps its slot. *)
LEMMA KeepsSlot ==
  ASSUME SlotsInv, NEW j \in Launched, phase[j] \notin {"released", "ready"},
         NEW label \in Phases \ {"released", "ready"},
         phase' = [phase EXCEPT ![j] = label],
         UNCHANGED <<main, free, launched, collected>>
  PROVE  SlotsInv'
<1>1. Counted'
  BY DEF SlotsInv, Counted, Launched
<1>2. Busy' = Busy /\ Holding' = Holding
  BY DEF SlotsInv, Counted, Busy, Holding, Launched
<1>3. CollectedDone'
  BY DEF SlotsInv, Counted, CollectedDone, Launched
<1>4. NoneBeforeLaunch' /\ EndedQuiet' /\ WorkersBounded'
  BY <1>2 DEF SlotsInv, NoneBeforeLaunch, EndedQuiet, Ended, WorkersBounded
<1> QED
  BY <1>1, <1>3, <1>4 DEF SlotsInv

LEMMA SlotsNext == SlotsInv /\ [Next]_vars => SlotsInv'
<1> SUFFICES ASSUME SlotsInv, [Next]_vars PROVE SlotsInv'
  OBVIOUS
<1>0. launched \in Nat /\ collected \in 0 .. launched /\ free \in Int /\ free >= 0
  BY DEF SlotsInv, Counted, WorkersBounded
<1>1. CASE Prepare
  <2>1. Busy = {}
    BY <1>1 DEF SlotsInv, NoneBeforeLaunch, Prepare, Busy, Launched, Counted
  <2>2. main' \in {"threw", "launching"} /\ main = "preparing"
    BY <1>1 DEF Prepare, Goto
  <2> QED
    BY <1>0, <1>1, <2>1, <2>2, WorkersAlone DEF Prepare, waiting, workers, SlotsInv, CollectedDone
<1>2. CASE TakeSlot
  <2>1. main = "launching" /\ main' = "spawning" /\ free' = free - 1 /\ free > 0
    BY <1>2 DEF TakeSlot, Goto
  <2> QED
    BY <1>0, <1>2, <2>1, WorkersAlone
       DEF TakeSlot, waiting, workers, SlotsInv, CollectedDone, Ended
<1>3. CASE Spawn
  <2>1. /\ main = "spawning" /\ main' = "launching" /\ free' = free
        /\ launched' = launched + 1 /\ phase' = Append(phase, "running")
        /\ collected' = collected
    BY <1>3 DEF Spawn, Goto, waiting
  <2>2. /\ Counted'
        /\ \A j \in 1 .. launched : phase'[j] = phase[j]
        /\ phase'[launched + 1] = "running"
    BY <2>1 DEF SlotsInv, Counted, Phases
  <2>3. Holding' = Holding \cup {launched + 1} /\ launched + 1 \notin Holding
    <3>1. Launched' = Launched \cup {launched + 1} /\ launched + 1 \notin Launched
      BY <1>0, <2>1 DEF Launched
    <3>2. \A j \in Launched : phase'[j] = phase[j]
      BY <2>2 DEF Launched
    <3> QED
      BY <2>2, <3>1, <3>2 DEF Holding, Busy
  <2>4. Cardinality(Holding') = Cardinality(Holding) + 1
    BY <2>3, HoldingFinite, FS_AddElement DEF SlotsInv
  <2>5. WorkersBounded'
    BY <1>0, <2>1, <2>4, HoldingFinite, SlotsAssumption DEF SlotsInv, WorkersBounded
  <2>6. NoneBeforeLaunch' /\ CollectedDone' /\ EndedQuiet'
    BY <1>0, <2>1, <2>2 DEF SlotsInv, NoneBeforeLaunch, CollectedDone, EndedQuiet, Ended
  <2> QED
    BY <2>2, <2>5, <2>6 DEF SlotsInv
<1>4. CASE SpawnFails
  <2>1. main = "spawning" /\ main' = "unwinding" /\ free' = free + 1
    BY <1>4 DEF SpawnFails, Goto
  <2> QED
    BY <1>0, <1>4, <2>1, WorkersAlone
       DEF SpawnFails, waiting, workers, SlotsInv, CollectedDone, Ended
<1>5. CASE AllLaunched
  <2>1. main = "launching" /\ main' = "waiting"
    BY <1>5 DEF AllLaunched, Goto
  <2> QED
    BY <1>0, <1>5, <2>1, WorkersAlone
       DEF AllLaunched, waiting, workers, SlotsInv, CollectedDone, Ended
<1>6. CASE Collect
  <2>1. /\ main = "waiting" /\ main' = main /\ free' = free
        /\ collected < launched /\ collected' = collected + 1
        /\ phase[collected + 1] = "ready" /\ UNCHANGED <<launched, phase>>
    BY <1>6 DEF Collect, Next1, command, workers
  <2>2. \A j \in 1 .. collected' : phase[j] = "ready"
    BY <1>0, <2>1 DEF SlotsInv, CollectedDone
  <2> QED
    BY <1>0, <2>1, <2>2, WorkersAlone DEF Ended
<1>7. CASE Report
  <2>1. main = "waiting" /\ main' \in {"returned", "threw"} /\ collected = launched
    BY <1>7 DEF Report, Goto
  <2>2. Busy = {}
    BY <2>1 DEF SlotsInv, CollectedDone, Busy, Launched
  <2> QED
    BY <1>0, <1>7, <2>1, <2>2, WorkersAlone DEF Report, waiting, workers, SlotsInv, CollectedDone
<1>8. CASE Unwound
  <2>1. main = "unwinding" /\ main' = "threw" /\ Busy = {}
    BY <1>8 DEF Unwound, Goto, Busy
  <2> QED
    BY <1>0, <1>8, <2>1, WorkersAlone DEF Unwound, waiting, workers, SlotsInv, CollectedDone
<1>9. ASSUME NEW j \in Launched, Work(j) PROVE SlotsInv'
  <2>1. \E label \in {"leaving", "pausing"} : phase' = [phase EXCEPT ![j] = label]
    BY <1>9 DEF Work, Finish
  <2> QED
    BY <1>9, <2>1, KeepsSlot DEF Work, command, waiting, Phases
<1>10. ASSUME NEW j \in Launched, Retry(j) PROVE SlotsInv'
  BY <1>10, KeepsSlot DEF Retry, command, waiting, Phases
<1>11. ASSUME NEW j \in Launched, Unlock(j) PROVE SlotsInv'
  <2>1. /\ phase[j] = "leaving" /\ phase' = [phase EXCEPT ![j] = "released"]
        /\ free' = free + 1 /\ UNCHANGED <<main, launched, collected>>
    BY <1>11 DEF Unlock, command, waiting
  <2>2. /\ Counted'
        /\ phase'[j] = "released"
        /\ \A k \in Launched \ {j} : phase'[k] = phase[k]
    BY <2>1 DEF SlotsInv, Counted, Phases, Launched
  <2>3. Holding' = Holding \ {j} /\ j \in Holding /\ Busy' = Busy
    BY <2>1, <2>2 DEF Holding, Busy, Launched
  <2>4. Cardinality(Holding') = Cardinality(Holding) - 1
    BY <2>3, HoldingFinite, FS_RemoveElement DEF SlotsInv
  <2>5. WorkersBounded'
    BY <1>0, <2>1, <2>4, HoldingFinite, SlotsAssumption DEF SlotsInv, WorkersBounded
  <2>6. NoneBeforeLaunch' /\ CollectedDone' /\ EndedQuiet'
    BY <1>0, <2>1, <2>2, <2>3
       DEF SlotsInv, NoneBeforeLaunch, CollectedDone, EndedQuiet, Ended, Launched
  <2> QED
    BY <2>2, <2>5, <2>6 DEF SlotsInv
<1>12. ASSUME NEW j \in Launched, Leave(j) PROVE SlotsInv'
  <2>1. /\ phase[j] = "released" /\ phase' = [phase EXCEPT ![j] = "ready"]
        /\ UNCHANGED <<main, free, launched, collected>>
    BY <1>12 DEF Leave, command, waiting
  <2>2. /\ Counted'
        /\ phase'[j] = "ready"
        /\ \A k \in Launched \ {j} : phase'[k] = phase[k]
    BY <2>1 DEF SlotsInv, Counted, Phases, Launched
  <2>3. Holding' = Holding /\ Busy' = Busy \ {j}
    BY <2>1, <2>2 DEF Holding, Busy, Launched
  <2>4. WorkersBounded' /\ EndedQuiet'
    BY <2>1, <2>3 DEF SlotsInv, WorkersBounded, EndedQuiet, Ended
  <2>5. NoneBeforeLaunch' /\ CollectedDone'
    BY <1>0, <2>1, <2>2 DEF SlotsInv, NoneBeforeLaunch, CollectedDone, Launched
  <2> QED
    BY <2>2, <2>4, <2>5 DEF SlotsInv
<1>13. CASE UNCHANGED vars
  BY <1>13 DEF vars, command, waiting, workers, SlotsInv, Counted, NoneBeforeLaunch,
               CollectedDone, EndedQuiet, Ended, WorkersBounded, Holding, Busy, Launched
<1> QED
  BY <1>1, <1>2, <1>3, <1>4, <1>5, <1>6, <1>7, <1>8, <1>9, <1>10, <1>11, <1>12, <1>13
     DEF Next, Command, Worker

\* The invariant of the slots holds in every state of the command and its pool.
THEOREM SlotsInvariance == Spec => []SlotsInv
  BY SlotsInit, SlotsNext, PTL DEF Spec

(* Free permits, workers that hold one and the launcher add up to the      *)
(* slots, at any -j and any number of symbols: no more workers than slots  *)
(* are at work, and no failure of a worker or of a launch loses a slot.    *)
THEOREM SlotsHold == Spec => []WorkersBounded
<1>1. SlotsInv => WorkersBounded
  BY DEF SlotsInv
<1> QED
  BY <1>1, SlotsInvariance, PTL

(* When a command has ended, by returning or by throwing, nothing it       *)
(* started is still writing files and the semaphore is whole again.        *)
THEOREM CommandLeavesNothing == Spec => []EndedAlone
<1>1. SlotsInv => EndedAlone
  <2> SUFFICES ASSUME SlotsInv, Ended PROVE Busy = {} /\ free = Slots
    BY DEF EndedAlone
  <2>1. Busy = {} /\ main # "spawning"
    BY DEF SlotsInv, EndedQuiet, Ended
  <2>2. Cardinality(Holding) = 0
    BY <2>1, FS_EmptySet DEF Holding
  <2> QED
    BY <2>1, <2>2, SlotsAssumption DEF SlotsInv, WorkersBounded, Counted
<1> QED
  BY <1>1, SlotsInvariance, PTL

-----------------------------------------------------------------------------
(* What the command was told: the invariant that adds the results *)

Outcomes == {"none", "value", "exception"}

\* Every launched worker has a future and a number of attempts, and one that
\* pauses has an attempt left.
WorkersFit ==
    /\ outcome \in Seq(Outcomes) /\ Len(outcome) = launched
    /\ tries \in Seq(1 .. Attempts) /\ Len(tries) = launched
    /\ \A j \in 1 .. launched : phase[j] = "pausing" => tries[j] < Attempts

\* The jobs are the usable symbols of the request, there are some when the
\* command goes on, and the launch loop ends when all have a worker.
JobsFit ==
    /\ main = "preparing" => jobs = <<>>
    /\ main # "preparing" => jobs = Safe(Distinct(request))
    /\ main \notin {"preparing", "threw"} /\ request # <<>> => jobs # <<>>
    /\ launched <= Len(jobs)
    /\ main \in {"spawning", "unwinding"} => launched < Len(jobs)
    /\ main = "waiting" => launched = Len(jobs)

\* A collected future was reported with a value or is a recorded failure.
ResultsFit ==
    /\ reported \cup errors = 1 .. collected
    /\ \A j \in reported : outcome[j] = "value"
    /\ main = "returned" => collected = launched /\ launched = Len(jobs) /\ errors = {}
    /\ main = "threw" /\ launched = Len(jobs) => collected = launched

DeliveryInv ==
    /\ request \in Seq(Symbols) /\ jobs \in Seq(Symbols)
    /\ main \in {"preparing", "launching", "spawning", "waiting", "unwinding",
                 "returned", "threw"}
    /\ WorkersFit /\ JobsFit /\ ResultsFit

\* Every usable symbol of the request has a job: cleaning the list drops
\* repetitions and unusable names only.
LEMMA JobsCover ==
  ASSUME request \in Seq(Symbols), NEW k \in DOMAIN request, request[k] \in SafeSymbols
  PROVE  \E j \in DOMAIN Safe(Distinct(request)) : Safe(Distinct(request))[j] = request[k]
<1> DEFINE firsts == {i \in DOMAIN request : \A j \in 1 .. i - 1 : request[j] # request[i]}
           same == {i \in DOMAIN request : request[i] = request[k]}
           once == Distinct(request)
           safe == {i \in DOMAIN once : once[i] \in SafeSymbols}
<1>1. DOMAIN request = 1 .. Len(request) /\ Len(request) \in Nat
  OBVIOUS
<1>2. PICK i \in firsts : request[i] = request[k]
  <2>1. same \in SUBSET Nat /\ k \in same
    BY <1>1
  <2> HIDE DEF same
  <2>2. Min(same) \in same /\ \A y \in same : Min(same) <= y
    BY <2>1, FirstOf
  <2> DEFINE i == Min(same)
  <2>3. i \in DOMAIN request /\ request[i] = request[k]
    BY <2>2 DEF same
  <2> HIDE DEF i
  <2>4. \A j \in 1 .. i - 1 : request[j] # request[i]
    <3>1. SUFFICES ASSUME NEW j \in 1 .. i - 1, request[j] = request[i] PROVE FALSE
      OBVIOUS
    <3>2. j \in same /\ ~(i <= j)
      BY <1>1, <2>3, <3>1 DEF same
    <3> QED
      BY <2>2, <3>2 DEF i
  <2> QED
    BY <2>3, <2>4
<1>3. once \in Seq(Symbols) /\ \E n \in DOMAIN once : once[n] = request[i]
  <2> HIDE DEF firsts
  <2>1. firsts \in SUBSET (DOMAIN request)
    BY DEF firsts
  <2>2. once = Picked(request, firsts)
    BY DEF Distinct, firsts
  <2> HIDE DEF once
  <2> QED
    BY <1>2, <2>1, <2>2, PickedFits
<1>4. PICK n \in DOMAIN once : once[n] = request[k]
  BY <1>2, <1>3
<1> HIDE DEF once
<1>5. n \in safe /\ safe \in SUBSET (DOMAIN once) /\ Safe(once) = Picked(once, safe)
  BY <1>4 DEF Safe
<1> HIDE DEF safe
<1>6. \E j \in DOMAIN Safe(once) : Safe(once)[j] = once[n]
  BY <1>3, <1>5, PickedFits
<1> QED
  BY <1>4, <1>6 DEF once

\* The cleaned list is a list of symbols.
LEMMA JobsAreSymbols ==
  ASSUME request \in Seq(Symbols)
  PROVE  Safe(Distinct(request)) \in Seq(Symbols)
<1> DEFINE firsts == {i \in DOMAIN request : \A j \in 1 .. i - 1 : request[j] # request[i]}
           once == Distinct(request)
           safe == {i \in DOMAIN once : once[i] \in SafeSymbols}
<1>1. firsts \in SUBSET (DOMAIN request) /\ once = Picked(request, firsts)
  BY DEF Distinct
<1> HIDE DEF firsts
<1>2. once \in Seq(Symbols)
  <2> HIDE DEF once
  <2> QED
    BY <1>1, PickedFits
<1> HIDE DEF once
<1>3. safe \in SUBSET (DOMAIN once) /\ Safe(once) = Picked(once, safe)
  BY DEF Safe
<1> HIDE DEF safe
<1>4. Safe(once) \in Seq(Symbols)
  BY <1>2, <1>3, PickedFits
<1> QED
  BY <1>4 DEF once

LEMMA DeliveryInit == Init => DeliveryInv
  BY RequestsAssumption
     DEF Init, DeliveryInv, WorkersFit, JobsFit, ResultsFit

\* A step of the command that launches nobody and cleans no list.
LEMMA CommandAlone ==
  ASSUME DeliveryInv, UNCHANGED <<request, jobs, launched, workers>>,
         main' \in {"launching", "spawning", "waiting", "unwinding", "returned", "threw"},
         main # "preparing",
         main' \notin {"preparing", "threw"} => main \notin {"preparing", "threw"},
         main' \in {"spawning", "unwinding"} => launched < Len(jobs),
         main' = "waiting" => launched = Len(jobs),
         ResultsFit'
  PROVE  DeliveryInv'
  BY DEF DeliveryInv, WorkersFit, JobsFit, workers

LEMMA DeliveryNext == SlotsInv /\ DeliveryInv /\ [Next]_vars => DeliveryInv'
<1> SUFFICES ASSUME SlotsInv, DeliveryInv, [Next]_vars PROVE DeliveryInv'
  OBVIOUS
<1>0. /\ launched \in Nat /\ collected \in 0 .. launched /\ Len(jobs) \in Nat
      /\ phase \in Seq(Phases) /\ launched = Len(phase)
  BY DEF SlotsInv, Counted, DeliveryInv
<1>1. CASE Prepare
  <2>1. /\ main = "preparing" /\ jobs' = Safe(Distinct(request))
        /\ main' = IF request # <<>> /\ jobs' = <<>> THEN "threw" ELSE "launching"
        /\ UNCHANGED <<request, launched, collected, reported, errors, phase, outcome, tries>>
    BY <1>1 DEF Prepare, Goto, waiting, workers
  <2>2. launched = 0 /\ collected = 0
    BY <1>0, <2>1 DEF SlotsInv, NoneBeforeLaunch
  <2>3. jobs' \in Seq(Symbols)
    BY <2>1, JobsAreSymbols DEF DeliveryInv
  <2>4. Len(jobs') \in Nat
    BY <2>3
  <2>5. JobsFit'
    BY <2>1, <2>2, <2>4 DEF JobsFit
  <2>6. WorkersFit' /\ ResultsFit'
    BY <2>1, <2>2 DEF DeliveryInv, WorkersFit, ResultsFit
  <2> QED
    BY <2>1, <2>3, <2>5, <2>6 DEF DeliveryInv
<1>2. CASE TakeSlot
  <2>1. /\ main = "launching" /\ main' = "spawning" /\ launched < Len(jobs)
        /\ UNCHANGED <<request, jobs, launched, collected, reported, errors, workers>>
    BY <1>2 DEF TakeSlot, Goto, waiting
  <2>2. ResultsFit'
    BY <2>1 DEF DeliveryInv, ResultsFit, workers
  <2> QED
    BY <2>1, <2>2, CommandAlone
<1>3. CASE Spawn
  <2>1. /\ main = "spawning" /\ main' = "launching"
        /\ launched' = launched + 1 /\ phase' = Append(phase, "running")
        /\ outcome' = Append(outcome, "none") /\ tries' = Append(tries, 1)
        /\ UNCHANGED <<request, jobs, collected, reported, errors>>
    BY <1>3 DEF Spawn, Goto, waiting
  <2>2. launched < Len(jobs)
    BY <2>1 DEF DeliveryInv, JobsFit
  <2>3. WorkersFit'
    <3>1. /\ outcome \in Seq(Outcomes) /\ Len(outcome) = launched
          /\ tries \in Seq(1 .. Attempts) /\ Len(tries) = launched
          /\ \A j \in 1 .. launched : phase[j] = "pausing" => tries[j] < Attempts
      BY DEF DeliveryInv, WorkersFit
    <3>2. /\ outcome' \in Seq(Outcomes) /\ Len(outcome') = launched'
          /\ tries' \in Seq(1 .. Attempts) /\ Len(tries') = launched'
      BY <2>1, <3>1, AttemptsAssumption DEF Outcomes
    <3>3. ASSUME NEW j \in 1 .. launched', phase'[j] = "pausing" PROVE tries'[j] < Attempts
      <4>1. j # launched + 1
        BY <1>0, <2>1, <3>3
      <4>2. j \in 1 .. launched /\ phase'[j] = phase[j] /\ tries'[j] = tries[j]
        BY <1>0, <2>1, <3>1, <3>3, <4>1
      <4> QED
        BY <3>1, <3>3, <4>2
    <3> QED
      BY <3>2, <3>3 DEF WorkersFit
  <2>4. JobsFit'
    BY <1>0, <2>1, <2>2 DEF DeliveryInv, JobsFit
  <2>5. ResultsFit'
    <3>1. \A j \in reported : j \in 1 .. launched
      BY <1>0 DEF DeliveryInv, ResultsFit
    <3>2. \A j \in 1 .. launched : outcome'[j] = outcome[j]
      BY <2>1 DEF DeliveryInv, WorkersFit
    <3> QED
      BY <2>1, <3>1, <3>2 DEF DeliveryInv, ResultsFit
  <2> QED
    BY <2>1, <2>3, <2>4, <2>5 DEF DeliveryInv
<1>4. CASE SpawnFails
  <2>1. /\ main = "spawning" /\ main' = "unwinding"
        /\ UNCHANGED <<request, jobs, launched, collected, reported, errors, workers>>
    BY <1>4 DEF SpawnFails, Goto, waiting
  <2>2. ResultsFit' /\ launched < Len(jobs)
    BY <2>1 DEF DeliveryInv, ResultsFit, JobsFit, workers
  <2> QED
    BY <2>1, <2>2, CommandAlone
<1>5. CASE AllLaunched
  <2>1. /\ main = "launching" /\ main' = "waiting" /\ launched = Len(jobs)
        /\ UNCHANGED <<request, jobs, launched, collected, reported, errors, workers>>
    BY <1>5 DEF AllLaunched, Goto, waiting
  <2>2. ResultsFit'
    BY <2>1 DEF DeliveryInv, ResultsFit, workers
  <2> QED
    BY <2>1, <2>2, CommandAlone
<1>6. CASE Collect
  <2>1. /\ main = "waiting" /\ main' = main /\ collected' = collected + 1
        /\ UNCHANGED <<request, jobs, launched, workers>>
        /\ \/ /\ outcome[collected + 1] = "value"
              /\ reported' = reported \cup {collected + 1} /\ errors' = errors
           \/ errors' = errors \cup {collected + 1} /\ reported' = reported
    BY <1>6 DEF Collect, Next1, command
  <2>2. reported' \cup errors' = 1 .. collected'
    <3>1. 1 .. collected + 1 = (1 .. collected) \cup {collected + 1}
      BY <1>0
    <3> QED
      BY <2>1, <3>1 DEF DeliveryInv, ResultsFit
  <2>3. ResultsFit'
    BY <2>1, <2>2 DEF DeliveryInv, ResultsFit, workers
  <2> QED
    BY <2>1, <2>3, CommandAlone DEF DeliveryInv, JobsFit
<1>7. CASE Report
  <2>1. /\ main = "waiting" /\ main' = IF errors = {} THEN "returned" ELSE "threw"
        /\ collected = launched
        /\ UNCHANGED <<request, jobs, launched, collected, reported, errors, workers>>
    BY <1>7 DEF Report, Goto, waiting
  <2>2. ResultsFit'
    BY <2>1 DEF DeliveryInv, ResultsFit, JobsFit, workers
  <2> QED
    BY <2>1, <2>2, CommandAlone
<1>8. CASE Unwound
  <2>1. /\ main = "unwinding" /\ main' = "threw"
        /\ UNCHANGED <<request, jobs, launched, collected, reported, errors, workers>>
    BY <1>8 DEF Unwound, Goto, waiting
  <2>2. launched < Len(jobs)
    BY <2>1 DEF DeliveryInv, JobsFit
  <2>3. ResultsFit'
    BY <1>0, <2>1, <2>2 DEF DeliveryInv, ResultsFit, workers
  <2> QED
    BY <2>1, <2>3, CommandAlone
<1>9. ASSUME NEW j \in Launched, Worker(j) PROVE DeliveryInv'
  <2>1. /\ UNCHANGED <<request, jobs, main, launched, collected, reported, errors>>
        /\ j \in 1 .. launched
    BY <1>9 DEF Worker, Work, Retry, Unlock, Leave, command, waiting, Launched
  <2>2. /\ outcome \in Seq(Outcomes) /\ Len(outcome) = launched
        /\ tries \in Seq(1 .. Attempts) /\ Len(tries) = launched
        /\ \A k \in 1 .. launched : phase[k] = "pausing" => tries[k] < Attempts
    BY DEF DeliveryInv, WorkersFit
  <2>3. phase[j] # "ready" /\ WorkersFit' /\ \A k \in 1 .. launched : k # j => outcome'[k] = outcome[k]
    <3>1. CASE Work(j)
      <4>1. /\ phase[j] = "running" /\ tries' = tries
            /\ \/ \E result \in Outcomes : /\ phase' = [phase EXCEPT ![j] = "leaving"]
                                           /\ outcome' = [outcome EXCEPT ![j] = result]
               \/ /\ tries[j] < Attempts
                  /\ phase' = [phase EXCEPT ![j] = "pausing"] /\ outcome' = outcome
        BY <3>1 DEF Work, Finish, Outcomes
      <4>2. outcome' \in Seq(Outcomes) /\ Len(outcome') = launched
        BY <2>1, <2>2, <4>1
      <4>3. \A k \in 1 .. launched : phase'[k] = "pausing" => tries'[k] < Attempts
        BY <1>0, <2>1, <2>2, <4>1
      <4>4. \A k \in 1 .. launched : k # j => outcome'[k] = outcome[k]
        BY <2>1, <2>2, <4>1
      <4> QED
        BY <2>1, <2>2, <4>1, <4>2, <4>3, <4>4 DEF WorkersFit
    <3>2. CASE Retry(j)
      <4>1. /\ phase[j] = "pausing" /\ phase' = [phase EXCEPT ![j] = "running"]
            /\ tries' = [tries EXCEPT ![j] = @ + 1] /\ outcome' = outcome
        BY <3>2 DEF Retry
      <4>2. tries[j] \in 1 .. Attempts /\ tries[j] + 1 \in 1 .. Attempts
        BY <2>1, <2>2, <4>1, AttemptsAssumption
      <4>3. tries' \in Seq(1 .. Attempts) /\ Len(tries') = launched
        BY <2>1, <2>2, <4>1, <4>2
      <4>4. \A k \in 1 .. launched : phase'[k] = "pausing" => tries'[k] < Attempts
        BY <1>0, <2>1, <2>2, <4>1
      <4> QED
        BY <2>1, <2>2, <4>1, <4>3, <4>4 DEF WorkersFit
    <3>3. CASE Unlock(j) \/ Leave(j)
      <4>1. /\ phase[j] \in {"leaving", "released"}
            /\ \E label \in {"released", "ready"} : phase' = [phase EXCEPT ![j] = label]
            /\ outcome' = outcome /\ tries' = tries
        BY <3>3 DEF Unlock, Leave
      <4>2. \A k \in 1 .. launched : phase'[k] = "pausing" => tries'[k] < Attempts
        BY <1>0, <2>1, <2>2, <4>1
      <4> QED
        BY <2>1, <2>2, <4>1, <4>2 DEF WorkersFit
    <3> QED
      BY <1>9, <3>1, <3>2, <3>3 DEF Worker
  <2>4. \A k \in reported : k \in 1 .. launched /\ k # j
    <3>1. \A k \in reported : k \in 1 .. collected
      BY DEF DeliveryInv, ResultsFit
    <3>2. \A k \in 1 .. collected : k # j /\ k \in 1 .. launched
      BY <1>0, <2>3 DEF SlotsInv, CollectedDone
    <3> QED
      BY <3>1, <3>2
  <2>5. ResultsFit'
    BY <2>1, <2>3, <2>4 DEF DeliveryInv, ResultsFit
  <2>6. JobsFit'
    BY <2>1 DEF DeliveryInv, JobsFit
  <2> QED
    BY <2>1, <2>3, <2>5, <2>6 DEF DeliveryInv
<1>10. CASE UNCHANGED vars
  BY <1>10 DEF vars, command, waiting, workers, DeliveryInv, WorkersFit, JobsFit, ResultsFit
<1> QED
  BY <1>1, <1>2, <1>3, <1>4, <1>5, <1>6, <1>7, <1>8, <1>9, <1>10 DEF Next, Command

\* So does the one about jobs, tasks and results.
THEOREM DeliveryInvariance == Spec => [](SlotsInv /\ DeliveryInv)
<1>1. Init => SlotsInv /\ DeliveryInv
  BY SlotsInit, DeliveryInit
<1>2. (SlotsInv /\ DeliveryInv) /\ [Next]_vars => (SlotsInv /\ DeliveryInv)'
  BY SlotsNext, DeliveryNext
<1> QED
  BY <1>1, <1>2, PTL DEF Spec

\* Type correctness: permits, futures and attempts stay within their bounds.
THEOREM PoolTypes == Spec => []TypeOK
<1>1. SlotsInv /\ DeliveryInv => TypeOK
  <2> SUFFICES ASSUME SlotsInv, DeliveryInv PROVE TypeOK
    OBVIOUS
  <2>1. /\ free \in Int /\ launched \in Nat /\ collected \in 0 .. launched
        /\ phase \in Seq(Phases) /\ launched = Len(phase)
    BY DEF SlotsInv, Counted
  <2>2. free \in 0 .. Slots
    <3>1. PICK n \in Nat : n = Cardinality(Holding)
      BY HoldingFinite DEF SlotsInv
    <3>2. free + n + (IF main = "spawning" THEN 1 ELSE 0) = Slots /\ free >= 0
      BY <3>1 DEF SlotsInv, WorkersBounded
    <3>3. CASE main = "spawning"
      BY <2>1, <3>1, <3>2, <3>3, SlotsAssumption
    <3>4. CASE main # "spawning"
      BY <2>1, <3>1, <3>2, <3>4, SlotsAssumption
    <3> QED
      BY <3>3, <3>4
  <2>3. /\ phase \in [Launched -> Phases]
        /\ outcome \in [Launched -> Outcomes]
        /\ tries \in [Launched -> 1 .. Attempts]
    <3>1. /\ outcome \in Seq(Outcomes) /\ Len(outcome) = launched
          /\ tries \in Seq(1 .. Attempts) /\ Len(tries) = launched
      BY DEF DeliveryInv, WorkersFit
    <3>2. phase \in [Launched -> Phases]
      BY <2>1 DEF Launched
    <3>3. outcome \in [Launched -> Outcomes]
      BY <2>1, <3>1 DEF Launched
    <3>4. tries \in [Launched -> 1 .. Attempts]
      <4> DEFINE T == 1 .. Attempts
      <4>1. tries \in Seq(T) /\ Len(tries) = launched
        BY <3>1
      <4> HIDE DEF T
      <4>2. tries \in [Launched -> T]
        BY <2>1, <4>1 DEF Launched
      <4> QED
        BY <4>2 DEF T
    <3> QED
      BY <3>2, <3>3, <3>4
  <2>4. reported \subseteq Launched /\ errors \subseteq Launched
    <3>1. 1 .. collected \subseteq Launched
      BY <2>1 DEF Launched
    <3> QED
      BY <3>1 DEF DeliveryInv, ResultsFit
  <2>5. launched \in 0 .. Len(jobs)
    BY <2>1 DEF DeliveryInv, JobsFit
  <2> QED
    BY <2>1, <2>2, <2>3, <2>4, <2>5 DEF TypeOK, DeliveryInv, Phases, Outcomes
<1> QED
  BY <1>1, DeliveryInvariance, PTL

\* A command that returns has delivered a value for every usable symbol it was
\* given, and one that throws after launching all has told of each of them
\* (future_utils.h waitAllOrThrow), whatever the list and the failures.
THEOREM NothingLost == Spec => []NoResultLost
<1>1. SlotsInv /\ DeliveryInv => NoResultLost
  <2> SUFFICES ASSUME SlotsInv, DeliveryInv PROVE NoResultLost
    OBVIOUS
  <2>1. Len(jobs) \in Nat /\ DOMAIN jobs = 1 .. Len(jobs) /\ (jobs # <<>> => Len(jobs) > 0)
    BY DEF DeliveryInv
  <2>2. ASSUME main = "returned"
        PROVE  /\ \A k \in DOMAIN request : request[k] \in SafeSymbols =>
                    \E j \in reported : jobs[j] = request[k] /\ outcome[j] = "value"
               /\ reported # {} \/ request = <<>>
               /\ errors = {}
    <3>1. /\ reported = 1 .. Len(jobs) /\ errors = {}
          /\ jobs = Safe(Distinct(request)) /\ (request # <<>> => jobs # <<>>)
      BY <2>2 DEF DeliveryInv, JobsFit, ResultsFit
    <3>2. \A k \in DOMAIN request : request[k] \in SafeSymbols =>
            \E j \in DOMAIN jobs : jobs[j] = request[k]
      BY <3>1, JobsCover DEF DeliveryInv
    <3>3. \A j \in reported : outcome[j] = "value"
      BY DEF DeliveryInv, ResultsFit
    <3>4. request # <<>> => 1 \in reported
      BY <2>1, <3>1
    <3> QED
      BY <2>1, <3>1, <3>2, <3>3, <3>4
  <2>3. ASSUME main = "threw", launched = Len(jobs) PROVE reported \cup errors = Launched
    BY <2>3 DEF DeliveryInv, ResultsFit, Launched
  <2> QED
    BY <2>2, <2>3 DEF NoResultLost
<1> QED
  BY <1>1, DeliveryInvariance, PTL

-----------------------------------------------------------------------------
(* Commands one after another: the inductive invariant, in named parts *)

\* What -d allows to be removed, under the listing read.
Removable(s, listing) ==
    listing[s] = "trading" => client \in {"mexc_spot", "mexc_futures"} /\ s \notin Usdt

\* Symbols that may be both updated and removed.
FetchedThenDropped(s, listing) == client = "kraken_funding" /\ listing[s] = "absent"

\* What a choice must be like, whichever downloader made it.
Sound(chosen, listing, del) ==
    /\ chosen.update \subseteq Markets /\ chosen.remove \subseteq Markets
    /\ ~del => chosen.remove = {}
    /\ \A s \in chosen.remove :
         /\ Removable(s, listing)
         /\ s \in chosen.update => FetchedThenDropped(s, listing)

\* The wave works off one choice; nothing is removed before it is through.
WaveFits ==
    stage # "idle" =>
      /\ ~removal => doomed = {}
      /\ \A s \in doomed :
           /\ Removable(s, seen)
           /\ s \in todo \cup updated => FetchedThenDropped(s, seen)
      /\ stage = "removing" => todo = {} /\ failed = {}

\* OKX: what is on disk is still to be done, is done, or has failed.
OkxFits ==
    stage # "idle" /\ client = "okx" /\ asked = {} /\ ~removal =>
      \A s \in had \cup Packed :
        s \in todo \cup updated \cup failed \/ (seen[s] # "absent" /\ s \notin Usdt)

IdleFits == stage = "idle" => updated = {} /\ failed = {}

CommandInv == CommandTypeOK /\ WaveFits /\ OkxFits /\ IdleFits

-----------------------------------------------------------------------------
(* Commands: the choices *)

\* Every downloader's choice removes only what -d allows it to
\* (updateMarketData, symbolsToDelete).
LEMMA ChoiceSound ==
    ASSUME CommandTypeOK, NEW names \in SUBSET Markets, NEW del \in BOOLEAN
    PROVE  Sound(Chosen(venue, names, del), venue, del)
<1> USE MarketsAssumption DEF Sound, Removable, FetchedThenDropped, Choice, Absent, Live, ByFile
<1>0. venue \in Listings /\ files \subseteq Markets
    BY DEF CommandTypeOK
<1>1. ASSUME NEW within \in SUBSET Markets
      PROVE  Sound(Universe(venue, within, del), venue, del)
    BY <1>0 DEF Universe
<1>2. Sound(ByName(venue, names, del), venue, del)
    BY DEF ByName
<1>3. Sound(ByKnownName(venue, names, del), venue, del)
    BY DEF ByName, ByKnownName
<1>4. Sound(BinanceChoice(venue, names, del), venue, del)
    BY <1>1, <1>2 DEF BinanceChoice
<1>5. Sound(BybitSpotChoice(venue, names, del), venue, del)
    BY <1>1, <1>2 DEF BybitSpotChoice
<1>6. Sound(BybitLinearChoice(venue, names, del), venue, del)
    BY <1>1, <1>3 DEF BybitLinearChoice
<1>7. Sound(OkxChoice(venue, names, del), venue, del)
    BY <1>0, <1>1, <1>2 DEF OkxChoice, OkxOnDisk, Universe
<1>8. Sound(HyperliquidChoice(venue, names, del), venue, del)
    BY <1>1, <1>3 DEF HyperliquidChoice
<1>9. Sound(KrakenChoice(venue, names, del), venue, del)
    BY <1>1, <1>3 DEF KrakenChoice
<1>10. ASSUME client = "kraken_funding"
       PROVE  Sound(KrakenFundingChoice(venue, names, del), venue, del)
    BY <1>9, <1>10 DEF KrakenFundingChoice, KrakenChoice, Universe, ByKnownName, ByName
<1>11. ASSUME client = "mexc_spot"
       PROVE  Sound(MexcSpotChoice(venue, names, del), venue, del)
    BY <1>0, <1>11 DEF MexcSpotChoice
<1>12. ASSUME client = "mexc_futures"
       PROVE  Sound(MexcFuturesChoice(venue, names, del), venue, del)
    BY <1>0, <1>12 DEF MexcFuturesChoice
<1>13. client \in {"binance", "bybit_spot", "bybit_linear", "okx", "hyperliquid",
                   "kraken", "kraken_funding", "mexc_spot", "mexc_futures"}
    BY ClientsAssumption DEF CommandTypeOK
<1> HIDE DEF Sound
<1> QED
    BY <1>4, <1>5, <1>6, <1>7, <1>8, <1>9, <1>10, <1>11, <1>12, <1>13
       DEF Chosen

\* Without -d a command for all symbols updates everything OKX has on disk,
\* but what is listed outside the universe.
LEMMA OkxKeeps ==
    ASSUME CommandTypeOK, client = "okx", NEW s \in files \cup Packed
    PROVE  \/ s \in Chosen(venue, {}, FALSE).update
           \/ venue[s] # "absent" /\ s \notin Usdt
<1>1. s \in Markets
    BY MarketsAssumption DEF CommandTypeOK
<1> QED
    BY <1>1 DEF Chosen, OkxChoice, OkxOnDisk, Universe, Choice, Absent, Live

-----------------------------------------------------------------------------
(* Commands: the steps *)

LEMMA CommandInitKeeps == CommandInit => CommandInv
<1> SUFFICES ASSUME CommandInit PROVE CommandInv
    OBVIOUS
<1>1. CommandTypeOK
  <2>1. AllTrading \in Listings
      BY DEF AllTrading, Listings
  <2>2. 0 \in 0 .. MaxChanges
      BY MaxChangesAssumption
  <2> QED
      BY <2>1, <2>2 DEF CommandInit, CommandTypeOK
<1> QED
    BY <1>1 DEF CommandInit, CommandInv, WaveFits, OkxFits, IdleFits

\* A command that ends leaves nothing to account for.
LEMMA EndFits ==
    ASSUME CommandInv, EndCommand, UNCHANGED <<client, venue, files, changes>>
    PROVE  CommandInv'
<1>1. CommandTypeOK'
    BY DEF CommandInv, CommandTypeOK, EndCommand, AllTrading, Listings
<1> QED
    BY <1>1 DEF EndCommand, CommandInv, WaveFits, OkxFits, IdleFits

LEMMA StartFits ==
    ASSUME CommandInv, StartCommand
    PROVE  CommandInv'
<1> DEFINE chosen == Chosen(venue, asked', removal')
<1>1. /\ asked' \in SUBSET Markets /\ removal' \in BOOLEAN
      /\ seen' = venue /\ had' = files
      /\ todo' = chosen.update /\ doomed' = chosen.remove
      /\ stage' = "updating"
      /\ UNCHANGED <<client, venue, files, updated, failed, changes>>
      /\ updated = {} /\ failed = {}
    BY DEF StartCommand, CommandInv, IdleFits
<1>2. Sound(chosen, venue, removal')
    BY <1>1, ChoiceSound DEF CommandInv
<1>3. CommandTypeOK'
    BY <1>1, <1>2 DEF CommandInv, CommandTypeOK, Sound
<1>4. WaveFits'
    BY <1>1, <1>2 DEF WaveFits, Sound, Removable, FetchedThenDropped
<1>5. OkxFits'
  <2> SUFFICES ASSUME client = "okx", asked' = {}, removal' = FALSE,
                      NEW s \in files \cup Packed
               PROVE  s \in todo' \/ (venue[s] # "absent" /\ s \notin Usdt)
      BY <1>1 DEF OkxFits
  <2> QED
      BY <1>1, OkxKeeps DEF CommandInv
<1> QED
    BY <1>1, <1>3, <1>4, <1>5 DEF CommandInv, IdleFits

LEMMA CommandNextKeeps == CommandInv /\ [CommandNext]_cmdVars => CommandInv'
<1> SUFFICES ASSUME CommandInv, [CommandNext]_cmdVars PROVE CommandInv'
    OBVIOUS
<1>1. CASE StartCommand
    BY <1>1, StartFits
<1>2. CASE CollectAll
  <2>1. CASE failed = {}
    <3>1. /\ stage' = "removing" /\ todo = {}
          /\ UNCHANGED <<client, venue, files, given, wave, doomed, changes>>
          /\ stage = "updating"
        BY <1>2, <2>1 DEF CollectAll
    <3> QED
        BY <2>1, <3>1 DEF CommandInv, CommandTypeOK, WaveFits, OkxFits, IdleFits, given, wave,
                          Removable, FetchedThenDropped
  <2>2. CASE failed # {}
      BY <1>2, <2>2, EndFits DEF CollectAll
  <2> QED
      BY <2>1, <2>2
<1>3. CASE FinishCommand
    BY <1>3, EndFits DEF FinishCommand
<1>4. CASE Abort
    BY <1>4, EndFits DEF Abort
<1>5. CASE Relist
  <2>1. venue' \in Listings /\ changes' \in 0 .. MaxChanges
      BY <1>5, MaxChangesAssumption DEF Relist, CommandInv, CommandTypeOK, Listings
  <2> QED
      BY <1>5, <2>1 DEF Relist, given, wave, CommandInv, CommandTypeOK, WaveFits, OkxFits, IdleFits,
                        Removable, FetchedThenDropped
<1>6. ASSUME NEW s \in Markets, Delivered(s) PROVE CommandInv'
    BY <1>6 DEF Delivered, given, CommandInv, CommandTypeOK, WaveFits, OkxFits, IdleFits,
                Removable, FetchedThenDropped
<1>7. ASSUME NEW s \in Markets, Threw(s) PROVE CommandInv'
    BY <1>7 DEF Threw, given, CommandInv, CommandTypeOK, WaveFits, OkxFits, IdleFits,
                Removable, FetchedThenDropped
<1>8. ASSUME NEW s \in Markets, Remove(s) PROVE CommandInv'
    BY <1>8 DEF Remove, given, wave, CommandInv, CommandTypeOK, WaveFits, OkxFits, IdleFits,
                Removable, FetchedThenDropped
<1>9. CASE UNCHANGED cmdVars
    BY <1>9 DEF cmdVars, given, wave, CommandInv, CommandTypeOK, WaveFits, OkxFits, IdleFits,
                Removable, FetchedThenDropped
<1> QED
    BY <1>1, <1>2, <1>3, <1>4, <1>5, <1>6, <1>7, <1>8, <1>9 DEF CommandNext

\* The invariant of the download command holds over any number of commands.
THEOREM CommandInvariance == CommandSpec => []CommandInv
    BY CommandInitKeeps, CommandNextKeeps, PTL DEF CommandSpec

\* Every variable keeps its type.
THEOREM CommandTypes == CommandSpec => []CommandTypeOK
<1>1. CommandInv => CommandTypeOK
    BY DEF CommandInv
<1> QED
    BY <1>1, CommandInvariance, PTL

\* The only step that takes files away is Remove, and it takes one that the
\* choice, made under the listing read, gave up and that no worker of a
\* complete wave has updated, but for the exceptions (symbolsToDelete).
THEOREM RemovalsJustified == CommandSpec => RemovalJustified
<1> DEFINE Allowed ==
      \A s \in files \ files' :
          /\ removal /\ todo = {} /\ failed = {}
          /\ s \in updated => client = "kraken_funding" /\ seen[s] = "absent"
          /\ seen[s] = "trading" => client \in {"mexc_spot", "mexc_futures"} /\ s \notin Usdt
<1>1. CommandInv /\ [CommandNext]_cmdVars => [Allowed]_cmdVars
  <2> SUFFICES ASSUME CommandInv, CommandNext, NEW s \in files \ files'
               PROVE  /\ removal /\ todo = {} /\ failed = {}
                      /\ s \in updated => client = "kraken_funding" /\ seen[s] = "absent"
                      /\ seen[s] = "trading" =>
                            client \in {"mexc_spot", "mexc_futures"} /\ s \notin Usdt
      OBVIOUS
  <2>1. PICK t \in Markets : Remove(t)
      BY DEF CommandNext, StartCommand, CollectAll, FinishCommand, Abort, Relist,
             Delivered, Threw
  <2>2. s = t /\ stage = "removing" /\ s \in doomed
      BY <2>1 DEF Remove
  <2> QED
      BY <2>2 DEF CommandInv, WaveFits, CommandTypeOK, Removable, FetchedThenDropped
<1> QED
    BY <1>1, CommandInvariance, PTL DEF CommandSpec, RemovalJustified

\* A complete command for all OKX symbols has updated what is on disk.
THEOREM NothingDropsOut == CommandSpec => []DelistedMaintained
<1>1. CommandInv => DelistedMaintained
    BY DEF CommandInv, WaveFits, OkxFits, DelistedMaintained
<1> QED
    BY <1>1, CommandInvariance, PTL

=============================================================================
