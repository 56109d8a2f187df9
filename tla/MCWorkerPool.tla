---------------------------- MODULE MCWorkerPool ----------------------------
(* The two sides of a download command, for TLC: one command's workers one  *)
(* by one (WorkerPool), with repeated symbols, an unusable name and more    *)
(* jobs than slots; and commands one after another with their choice of     *)
(* symbols (DownloadCommand), whose workers are what WorkerPool promises.   *)
EXTENDS WorkerPool, DownloadCommand

VARIABLE side

CONSTANTS a, b, c, bad

Lists == {<<a, b, a, c>>, <<a, bad, a>>, <<bad>>, <<bad, b, c, b>>, <<>>}

\* A pool that has ended, for the behaviours that are not about it.
Refused ==
    /\ request = <<bad>> /\ jobs = <<>> /\ main = "threw" /\ free = Slots
    /\ launched = 0 /\ collected = 0
    /\ phase = <<>> /\ outcome = <<>> /\ tries = <<>>
    /\ reported = {} /\ errors = {}

MCInit ==
    /\ CommandInit
    /\ \/ side = "workers" /\ Init
       \/ side = "commands" /\ Refused

MCVars == <<vars, cmdVars, side>>

OnWorkers == side = "workers" /\ UNCHANGED <<cmdVars, side>>
OnCommands == side = "commands" /\ UNCHANGED <<vars, side>>

MCNext == (OnWorkers /\ Next) \/ (OnCommands /\ CommandNext)

\* FairSpec or CommandSpec, whichever side the behaviour is about.
MCSpec ==
    /\ MCInit /\ [][MCNext]_MCVars
    /\ WF_MCVars(OnWorkers /\ Command)
    /\ \A j \in JobIds : WF_MCVars(OnWorkers /\ j \in Launched /\ Worker(j))

=============================================================================
