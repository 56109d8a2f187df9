-------------------------- MODULE MCMexcSpotUpdate --------------------------
(* MexcSpotUpdate for TLC: the constants of the safety and liveness runs. *)
EXTENDS MexcSpotUpdate

\* A gap at slot 2, candles at the floor, and one that closes during the run.
GappyVenue == {0, 1, 3, 4, 5}

\* Nothing at the floor, and a gap longer than a page above the first candle.
LateListing == {1, 4}

=============================================================================
