--------------------------- MODULE MCMexcFutures ---------------------------
(* The two data types a MEXC Futures command downloads, for TLC: a history  *)
(* of commands is about candles or about funding rates (-t), which share    *)
(* neither files nor requests.                                              *)
EXTENDS MexcFuturesUpdate, MexcFunding

VARIABLE dataType

\* A gap at slot 2, where a run with --since may begin.
GappyVenue == {0, 1, 3, 4}

\* The state that does not matter is held at one value.
MCInit ==
    /\ Init /\ FundingInit
    /\ \/ dataType = "candles"
       \/ dataType = "funding" /\ csv = {}

MCVars == <<vars, fundingVars, dataType>>

OnCandles == dataType = "candles" /\ UNCHANGED <<fundingVars, dataType>>
OnFunding == dataType = "funding" /\ UNCHANGED <<vars, dataType>>

MCNext == (OnCandles /\ Next) \/ (OnFunding /\ FundingNext)

\* FairSpec or FundingSpec with its fairness, whichever the commands are about.
MCSpec ==
    /\ MCInit /\ [][MCNext]_MCVars
    /\ WF_MCVars(OnCandles /\ Worker)
    /\ WF_MCVars(OnCandles /\ DeleteMarker)
    /\ WF_MCVars(OnCandles /\ DeleteStaging)
    /\ WF_MCVars(OnCandles /\ Tick)
    /\ WF_MCVars(OnCandles /\ Heal)
    /\ WF_MCVars(OnFunding /\ FundingWorker)
    /\ WF_MCVars(OnFunding /\ Settle)
    /\ WF_MCVars(OnFunding /\ ShowAll)

=============================================================================
