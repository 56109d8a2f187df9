--------------------------- MODULE CandleHistory ---------------------------
(***************************************************************************)
(* What a reader of the data directory is promised about one candle file:  *)
(* the stored rows and the flag saying that older rows may still be        *)
(* missing appear together, rows are only added at the two ends, and older *)
(* rows are only added while the flag is up.                               *)
(***************************************************************************)
EXTENDS Integers

CONSTANT Slot

VARIABLES
    rows,        \* the slots a reader finds
    incomplete   \* the flag beside them

hvars == <<rows, incomplete>>

Init == rows \in SUBSET Slot /\ incomplete = FALSE

\* The first rows of a file, with the flag they need.
Publish ==
    /\ rows = {}
    /\ rows' \in SUBSET Slot
    /\ incomplete' \in BOOLEAN
    /\ rows' = {} => ~incomplete'

Append ==
    /\ rows # {} /\ rows \subseteq rows'
    /\ \A new \in rows' \ rows, old \in rows : old < new
    /\ UNCHANGED incomplete

Prepend ==
    /\ rows # {} /\ rows \subseteq rows' /\ incomplete
    /\ \A new \in rows' \ rows, old \in rows : new < old
    /\ UNCHANGED incomplete

Resolve == incomplete /\ incomplete' = FALSE /\ UNCHANGED rows

\* Archiving, restoring, deleting or repairing keeps a contiguous part.
Trim ==
    /\ rows' \subseteq rows
    /\ \A a, c \in rows', b \in rows : a <= b /\ b <= c => b \in rows'
    /\ incomplete' = (incomplete /\ rows' # {})

Next == Publish \/ Append \/ Prepend \/ Resolve \/ Trim

Spec == Init /\ [][Next]_hvars

=============================================================================
