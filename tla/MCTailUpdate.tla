---------------------------- MODULE MCTailUpdate ----------------------------
EXTENDS TailUpdate

\* Candles missing on the venue, and quiet ones before and between the trades.
Gappy == {0, 1, 2, 4, 5}
Traded == {1, 4, 5}
=============================================================================
