---------------------------- MODULE MCOkxUpdate ----------------------------
(* OkxUpdate for TLC: what the venue has of five instruments. *)
EXTENDS OkxUpdate

Instrument(archived, traded, rest) ==
    [funding |-> FALSE, archived |-> archived, traded |-> traded, rest |-> rest,
     depth |-> Horizon]

\* Delisted; the candle archive begins in the middle of its second month.
Delisted == Instrument(6 .. 10, {1, 2, 4, 5, 7, 10}, {})

\* Delisted before the candle archive began.
TradesOnly == Instrument({}, {1, 3, 4, 8, 9}, {})

\* Relisted after two months without candles.
Relisted == Instrument({0, 1, 2, 3, 12, 13}, {1, 3, 5, 8, 9, 12}, {12, 13})

\* Listed all the time.
Live == Instrument(0 .. 14, {1, 4, 7}, 0 .. 14)

Funding ==
    [funding |-> TRUE, archived |-> 0 .. 14, traded |-> {}, rest |-> 0 .. 14, depth |-> 6]

AllVenues == {Delisted, TradesOnly, Relisted, Live, Funding}

=============================================================================
