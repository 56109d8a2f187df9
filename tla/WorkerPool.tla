----------------------------- MODULE WorkerPool -----------------------------
(***************************************************************************)
(* One download command as the helpers of future_utils.h run it: the list  *)
(* of symbols is cleaned, one worker per symbol is launched behind a       *)
(* semaphore, a worker that meets a transient network fault runs again,    *)
(* and the command waits for all of them before it reports.                *)
(*                                                                         *)
(* The threads are the command itself and the workers it launched, each    *)
(* named by its place in the list of jobs.                                 *)
(***************************************************************************)
EXTENDS Sequences, NumberSets

CONSTANTS
    Symbols,
    SafeSymbols,   \* those isSafeSymbolFileComponent accepts
    Requests,      \* the lists of symbols the command may be given
    Slots,         \* what the semaphore starts with (boundedJobCount)
    Attempts       \* what retryTransient was given; 1 where it is not used

ASSUME SymbolsAssumption == SafeSymbols \subseteq Symbols
ASSUME RequestsAssumption == Requests \subseteq Seq(Symbols)
ASSUME SlotsAssumption == Slots \in Nat \ {0}
ASSUME AttemptsAssumption == Attempts \in Nat \ {0}

VARIABLES
    request,     \* the list as given
    jobs,        \* the list the workers are launched from
    main,        \* where the command is
    free,        \* permits of the semaphore
    launched,    \* futures there are
    collected,   \* futures waitAllOrThrow has consumed
    phase,       \* per launched job: where its worker is
    outcome,     \* per launched job: what its future will deliver
    tries,       \* per launched job: attempts so far
    reported,    \* jobs whose success callback returned
    errors       \* jobs waitAllOrThrow recorded a failure for

command == <<request, jobs, main>>
waiting == <<collected, reported, errors>>
workers == <<phase, outcome, tries>>
vars == <<command, free, launched, waiting, workers>>

\* deduplicatePreserveOrder: the first occurrence of each value stays.
Distinct(list) ==
    Picked(list, {k \in DOMAIN list : \A j \in 1 .. k - 1 : list[j] # list[k]})

\* removeUnsafeSymbolFileComponents, without its refusal.
Safe(list) == Picked(list, {k \in DOMAIN list : list[k] \in SafeSymbols})

Launched == 1 .. launched

TypeOK ==
    /\ request \in Seq(Symbols) /\ jobs \in Seq(Symbols)
    /\ main \in {"preparing", "launching", "spawning", "waiting", "unwinding",
                 "returned", "threw"}
    /\ free \in 0 .. Slots
    /\ launched \in 0 .. Len(jobs) /\ collected \in 0 .. launched
    /\ phase \in [Launched -> {"running", "pausing", "leaving", "released", "ready"}]
    /\ outcome \in [Launched -> {"none", "value", "exception"}]
    /\ tries \in [Launched -> 1 .. Attempts]
    /\ reported \subseteq Launched /\ errors \subseteq Launched

Init ==
    /\ request \in Requests
    /\ jobs = <<>>
    /\ main = "preparing"
    /\ free = Slots
    /\ launched = 0 /\ collected = 0
    /\ phase = <<>> /\ outcome = <<>> /\ tries = <<>>
    /\ reported = {} /\ errors = {}

Goto(label) == main' = label

-----------------------------------------------------------------------------
(* The command. *)

\* A list that loses its last symbol must not become the whole exchange; an
\* empty one, where all is up to -d, launches nothing.
Prepare ==
    /\ main = "preparing"
    /\ jobs' = Safe(Distinct(request))
    /\ Goto(IF request # <<>> /\ jobs' = <<>> THEN "threw" ELSE "launching")
    /\ UNCHANGED <<request, free, launched, waiting, workers>>

\* Mutant: the slot is the worker's business, not the launcher's.
LaunchAtOnce ==
    /\ main = "launching" /\ launched < Len(jobs)
    /\ Goto("spawning")
    /\ UNCHANGED <<request, jobs, free, launched, waiting, workers>>

\* launchSlots.lock() in launchBounded.
TakeSlot ==
    /\ main = "launching" /\ launched < Len(jobs)
    /\ free > 0
    /\ free' = free - 1
    /\ Goto("spawning")
    /\ UNCHANGED <<request, jobs, launched, waiting, workers>>

Spawn ==
    /\ main = "spawning"
    /\ launched' = launched + 1
    /\ phase' = Append(phase, "running")
    /\ outcome' = Append(outcome, "none")
    /\ tries' = Append(tries, 1)
    /\ Goto("launching")
    /\ UNCHANGED <<request, jobs, free, waiting>>

\* std::async cannot start a thread: the slot goes back and the exception
\* leaves the launch loop, through the destructors of the futures.
SpawnFails ==
    /\ main = "spawning"
    /\ free' = free + 1
    /\ Goto("unwinding")
    /\ UNCHANGED <<request, jobs, launched, waiting, workers>>

AllLaunched ==
    /\ main = "launching" /\ launched = Len(jobs)
    /\ Goto("waiting")
    /\ UNCHANGED <<request, jobs, free, launched, waiting, workers>>

Next1 == collected + 1

\* Mutant: an exception of the callback is swallowed.
CollectQuietly ==
    /\ main = "waiting" /\ collected < launched
    /\ phase[Next1] = "ready"
    /\ collected' = Next1
    /\ \/ /\ outcome[Next1] = "value"
          /\ reported' \in {reported, reported \cup {Next1}}
          /\ UNCHANGED errors
       \/ /\ outcome[Next1] = "exception"
          /\ errors' = errors \cup {Next1}
          /\ UNCHANGED reported
    /\ UNCHANGED <<command, free, launched, workers>>

\* future.get() and the callback, in launch order.
Collect ==
    /\ main = "waiting" /\ collected < launched
    /\ phase[Next1] = "ready"
    /\ collected' = Next1
    /\ \/ /\ outcome[Next1] = "value"
          /\ reported' = reported \cup {Next1}
          /\ UNCHANGED errors
       \/ /\ errors' = errors \cup {Next1}   \* the worker's or the callback's
          /\ UNCHANGED reported
    /\ UNCHANGED <<command, free, launched, workers>>

Report ==
    /\ main = "waiting" /\ collected = launched
    /\ Goto(IF errors = {} THEN "returned" ELSE "threw")
    /\ UNCHANGED <<request, jobs, free, launched, waiting, workers>>

\* Mutant: futures whose destructor does not wait.
ThrowAtOnce ==
    /\ main = "unwinding"
    /\ Goto("threw")
    /\ UNCHANGED <<request, jobs, free, launched, waiting, workers>>

\* The destructor of a std::async future blocks until its worker is done.
Unwound ==
    /\ main = "unwinding"
    /\ \A j \in Launched : phase[j] = "ready"
    /\ Goto("threw")
    /\ UNCHANGED <<request, jobs, free, launched, waiting, workers>>

-----------------------------------------------------------------------------
(* A worker. *)

Finish(j, result) ==
    /\ phase' = [phase EXCEPT ![j] = "leaving"]
    /\ outcome' = [outcome EXCEPT ![j] = result]

\* One attempt of the download ends.
Work(j) ==
    /\ phase[j] = "running"
    /\ \/ Finish(j, "value")
       \/ Finish(j, "exception")             \* permanent, or the last attempt
       \/ /\ tries[j] < Attempts             \* transient
          /\ phase' = [phase EXCEPT ![j] = "pausing"]
          /\ UNCHANGED outcome
    /\ UNCHANGED <<command, free, launched, waiting, tries>>

\* The pause is spent holding the slot.
Retry(j) ==
    /\ phase[j] = "pausing"
    /\ phase' = [phase EXCEPT ![j] = "running"]
    /\ tries' = [tries EXCEPT ![j] = @ + 1]
    /\ UNCHANGED <<command, free, launched, waiting, outcome>>

\* Mutant: only a worker that succeeds gives its slot back.
UnlockOnSuccess(j) ==
    /\ phase[j] = "leaving"
    /\ free' = IF outcome[j] = "value" THEN free + 1 ELSE free
    /\ phase' = [phase EXCEPT ![j] = "released"]
    /\ UNCHANGED <<command, launched, waiting, outcome, tries>>

\* ~SlotGuard, on return as on an exception, still inside the thread.
Unlock(j) ==
    /\ phase[j] = "leaving"
    /\ free' = free + 1
    /\ phase' = [phase EXCEPT ![j] = "released"]
    /\ UNCHANGED <<command, launched, waiting, outcome, tries>>

\* The future becomes ready and the thread ends.
Leave(j) ==
    /\ phase[j] = "released"
    /\ phase' = [phase EXCEPT ![j] = "ready"]
    /\ UNCHANGED <<command, free, launched, waiting, outcome, tries>>

Worker(j) == Work(j) \/ Retry(j) \/ Unlock(j) \/ Leave(j)

Command ==
    \/ Prepare \/ TakeSlot \/ Spawn \/ SpawnFails \/ AllLaunched
    \/ Collect \/ Report \/ Unwound

Next == Command \/ \E j \in Launched : Worker(j)

Spec == Init /\ [][Next]_vars

JobIds == UNION {DOMAIN list : list \in Requests}

\* The command is a thread of its own and so is every worker; a worker's
\* requests end because the REST clients have timeouts.
FairSpec ==
    /\ Spec
    /\ WF_vars(Command)
    /\ \A j \in JobIds : WF_vars(j \in Launched /\ Worker(j))

-----------------------------------------------------------------------------
\* The threads that have not ended, and those of them that hold a slot.
Busy == {j \in Launched : phase[j] # "ready"}
Holding == {j \in Busy : phase[j] # "released"}

Ended == main \in {"returned", "threw"}

(* launchBounded: at most Slots workers do their work or pause before a    *)
(* retry, and a permit is free, a worker's, or the launcher's, whichever   *)
(* way workers and launches fail.  It is the workers that hold a slot that *)
(* are counted, not the threads: one that gave its slot back may still be  *)
(* ending while the next has started.                                      *)
WorkersBounded ==
    /\ free >= 0
    /\ free + Cardinality(Holding) + (IF main = "spawning" THEN 1 ELSE 0) = Slots

(* A command that has ended, also through the exception of a launch that   *)
(* failed, leaves no worker behind that still writes files, and gives the  *)
(* next command the whole semaphore.                                       *)
EndedAlone == Ended => Busy = {} /\ free = Slots

(* waitAllOrThrow: "Wait for every task, retain all failures, then fail    *)
(* the enclosing command".  A command reports success only if every usable *)
(* symbol it was given has a worker that delivered and a callback that     *)
(* returned, and a list without usable symbols is not a success; and once  *)
(* all were launched, one failure keeps no other job's result from being   *)
(* delivered or its failure from being told.                               *)
NoResultLost ==
    /\ main = "returned" =>
         /\ \A k \in DOMAIN request : request[k] \in SafeSymbols =>
               \E j \in reported : jobs[j] = request[k] /\ outcome[j] = "value"
         /\ reported # {} \/ request = <<>>
         /\ errors = {}
    /\ main = "threw" /\ launched = Len(jobs) => reported \cup errors = Launched

(* Every command ends: retries are bounded, no slot leaks, and the         *)
(* launcher never waits for a slot only it could give back.                *)
CommandEnds == <>Ended

=============================================================================
