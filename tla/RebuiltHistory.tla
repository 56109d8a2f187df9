--------------------------- MODULE RebuiltHistory ---------------------------
(***************************************************************************)
(* CandleHistory for a file whose missing prefix is recovered by loading   *)
(* the whole history again: while the flag is up, one step may fill holes  *)
(* and extend both ends, and it keeps every stored row.                    *)
(***************************************************************************)
EXTENDS CandleHistory

Rebuild ==
    /\ rows # {} /\ rows \subseteq rows' /\ incomplete
    /\ \E new \in rows' : \A old \in rows : new < old
    /\ UNCHANGED incomplete

RebuiltSpec == Init /\ [][Next \/ Rebuild]_hvars

=============================================================================
