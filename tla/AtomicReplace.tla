--------------------------- MODULE AtomicReplace ---------------------------
(***************************************************************************)
(* What AtomicFileWriter promises to whoever reads the target: its         *)
(* content is one writer's whole image or the previous one, it changes in  *)
(* one step, and a writer that fails changes nothing.                      *)
(***************************************************************************)
CONSTANTS Writers, None

VARIABLES
    value,   \* whose image the target holds, or None before the first
    phase    \* how far each writer's replacement has got

avars == <<value, phase>>

Init == value = None /\ phase = [w \in Writers |-> "idle"]

Step(w, from, to) == phase[w] = from /\ phase' = [phase EXCEPT ![w] = to]

Begin(w) == Step(w, "idle", "trying") /\ UNCHANGED value

Save(w) == Step(w, "trying", "saved") /\ value' = w

Fail(w) == Step(w, "trying", "failed") /\ UNCHANGED value

Refuse(w) == Step(w, "idle", "failed") /\ UNCHANGED value

\* The writer is destroyed, or its process dies.
End(w) == phase[w] # "idle" /\ Step(w, phase[w], "idle") /\ UNCHANGED value

Next == \E w \in Writers : Begin(w) \/ Save(w) \/ Fail(w) \/ Refuse(w) \/ End(w)

Spec == Init /\ [][Next]_avars

=============================================================================
