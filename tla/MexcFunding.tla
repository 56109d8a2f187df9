---------------------------- MODULE MexcFunding ----------------------------
(***************************************************************************)
(* The funding-rate file of one MEXC Futures contract over any number of   *)
(* runs: MEXCFuturesDownloader::updateFundingRateData with its page scan   *)
(* (mexc_funding_pagination.h) and its merge (mexc_funding_csv.h).         *)
(*                                                                         *)
(* Settlement n is the n-th of the contract.  A record <<n, v>> is the     *)
(* rate v stored for it; the venue serves pages newest first, and while a  *)
(* scan runs a settlement may land and shift them.                         *)
(***************************************************************************)
EXTENDS Integers, FiniteSetsExt

CONSTANTS
    LastSettlement,   \* settlements land until this one
    FirstSettled,     \* how many have landed at the start
    RatesPerPage,     \* records on a full page
    OldestRate,       \* the venue default floor (2020-01-01)
    RateFloors,       \* the settlements a run may be given with --since
    MaxAttempts,      \* RetryPolicy::maxAttempts for an empty first page
    MaxRescans,       \* scans started over because the metadata changed
    MaxFundingFaults, \* bound on crashes
    MaxFundingEdits,  \* bound on -d and on corrections by the venue
    NoScan            \* no scan is running, no metadata seen yet

Settlement == 1 .. LastSettlement

ASSUME SettlementAssumption ==
    /\ LastSettlement \in Nat
    /\ FirstSettled \in 0 .. LastSettlement
    /\ RatesPerPage \in Nat \ {0}
    /\ OldestRate \in Settlement
    /\ RateFloors \subseteq Settlement
ASSUME PolicyAssumption == MaxAttempts \in Nat \ {0} /\ MaxRescans \in Nat
ASSUME FundingBoundAssumption == MaxFundingFaults \in Nat /\ MaxFundingEdits \in Nat

Rates == Settlement \X {"first", "corrected"}
Scan == [cutoff : Settlement, page : Nat \ {0}, got : SUBSET Rates, prev : Nat,
         total : Nat, attempt : Nat, rescans : Nat, honest : BOOLEAN]

ASSUME NoScanAssumption == NoScan \notin Scan

VARIABLES
    rates,      \* on disk: the records of <SYMBOL>_fr.csv
    step,       \* "idle", "page" or "merge"
    scan,       \* the worker's scan, or NoScan
    settled,    \* how many settlements have landed
    corrected,  \* settlements whose rate the venue has corrected
    whole,      \* the venue has stopped hiding records for good
    fundingFaults, fundingEdits

fundingVars ==
    <<rates, step, scan, settled, corrected, whole, fundingFaults, fundingEdits>>
venueVars == <<settled, corrected, whole, fundingFaults, fundingEdits>>

FundingTypeOK ==
    /\ rates \subseteq Rates
    /\ step \in {"idle", "page", "merge"}
    /\ scan \in Scan \cup {NoScan}
    /\ settled \in 0 .. LastSettlement
    /\ corrected \subseteq Settlement
    /\ whole \in BOOLEAN
    /\ fundingFaults \in 0 .. MaxFundingFaults
    /\ fundingEdits \in 0 .. MaxFundingEdits

FundingInit ==
    /\ rates = {} /\ step = "idle" /\ scan = NoScan
    /\ settled = FirstSettled /\ corrected = {} /\ whole = FALSE
    /\ fundingFaults = 0 /\ fundingEdits = 0

-----------------------------------------------------------------------------
(* The venue (mexc-cpp-api, not in this repository) *)

\* The settlements an answer is made of: all that have landed, or what is left
\* of them while the venue hides some behind consistent metadata.
Shown == IF whole THEN {1 .. settled} ELSE SUBSET (1 .. settled)

Newer(t, shown) == Cardinality({u \in shown : u > t})

\* The page-th page of an answer, newest first.
OnPage(page, shown) ==
    {t \in shown : /\ (page - 1) * RatesPerPage <= Newer(t, shown)
                   /\ Newer(t, shown) < page * RatesPerPage}

Record(t) == <<t, IF t \in corrected THEN "corrected" ELSE "first">>

-----------------------------------------------------------------------------
(* The file (mexc_funding_csv.h) *)

StoredTimes == {r[1] : r \in rates}

\* Mutant: an existing file is continued from its tail.
DownloadCutoff_FromTail(floor) ==
    IF rates # {} THEN Max(StoredTimes) ELSE Max({OldestRate, floor})

\* downloadCutoff: --since counts for a fresh file only.
DownloadCutoff(floor) ==
    IF rates # {} THEN Min({OldestRate, Max(StoredTimes)})
    ELSE Max({OldestRate, floor})

Conflicting(downloaded) ==
    \E old \in rates, new \in downloaded : old[1] = new[1] /\ old[2] # new[2]

-----------------------------------------------------------------------------
(* The worker *)

GiveUpScan == step' = "idle" /\ scan' = NoScan

\* What a scan starts with, and what it starts over with.
FreshScan(cutoff, rescans, honest) ==
    [cutoff |-> cutoff, page |-> 1, got |-> {}, prev |-> LastSettlement + 1,
     total |-> 0, attempt |-> 1, rescans |-> rescans, honest |-> honest]

StartFunding ==
    /\ step = "idle"
    /\ \E floor \in RateFloors \cup {OldestRate} :
         scan' = FreshScan(DownloadCutoff(floor), 0, TRUE)
    /\ step' = "page"
    /\ UNCHANGED <<rates, venueVars>>

\* fetchFirstPage: an empty first page is asked for again, a few times.
EmptyFirstPage ==
    /\ step = "page" /\ scan.page = 1 /\ {} \in Shown
    /\ IF scan.attempt < MaxAttempts
       THEN scan' = [scan EXCEPT !.attempt = @ + 1] /\ UNCHANGED step
       ELSE GiveUpScan
    /\ UNCHANGED <<rates, venueVars>>

\* Inconsistent metadata, the wrong page, an empty later page, or a request
\* that fails: the worker throws.
PageRejected ==
    /\ step = "page"
    /\ ~whole \/ \E shown \in Shown : OnPage(scan.page, shown) = {}
    /\ GiveUpScan
    /\ UNCHANGED <<rates, venueVars>>

\* The metadata differs from that of the pages before.
Changed(shown) == scan.total # 0 /\ Cardinality(shown) # scan.total

\* Mutant: what was read is dropped, but reading goes on at the same page.
PagesShifted_GoesOn ==
    /\ step = "page"
    /\ \E shown \in Shown :
         /\ OnPage(scan.page, shown) # {} /\ Changed(shown)
         /\ IF scan.rescans < MaxRescans
            THEN scan' = [FreshScan(scan.cutoff, scan.rescans + 1, shown = 1 .. settled)
                            EXCEPT !.page = scan.page]
                 /\ UNCHANGED step
            ELSE GiveUpScan
    /\ UNCHANGED <<rates, venueVars>>

\* A settlement landed during the scan: read all pages again, twice at most.
PagesShifted ==
    /\ step = "page"
    /\ \E shown \in Shown :
         /\ OnPage(scan.page, shown) # {} /\ Changed(shown)
         /\ IF scan.rescans < MaxRescans
            THEN scan' = FreshScan(scan.cutoff, scan.rescans + 1, TRUE) /\ UNCHANGED step
            ELSE GiveUpScan
    /\ UNCHANGED <<rates, venueVars>>

\* Rows that are not strictly older than those of the page before.
PagesOverlap ==
    /\ step = "page"
    /\ \E shown \in Shown :
         /\ OnPage(scan.page, shown) # {} /\ ~Changed(shown)
         /\ Max(OnPage(scan.page, shown)) >= scan.prev
    /\ GiveUpScan
    /\ UNCHANGED <<rates, venueVars>>

\* A page is taken; the scan ends below the cutoff or at the last page.
TakePage ==
    /\ step = "page"
    /\ \E shown \in Shown :
         LET rows == OnPage(scan.page, shown)
             done == \/ Min(rows) < scan.cutoff
                     \/ scan.page * RatesPerPage >= Cardinality(shown)
         IN  /\ rows # {} /\ ~Changed(shown)
             /\ Max(rows) < scan.prev
             /\ scan' = [scan EXCEPT
                           !.got = @ \cup {Record(t) : t \in {u \in rows : u >= scan.cutoff}},
                           !.prev = Min(rows),
                           !.total = Cardinality(shown),
                           !.honest = @ /\ shown = 1 .. settled,
                           !.page = IF done THEN @ ELSE @ + 1]
             /\ step' = IF done THEN "merge" ELSE "page"
    /\ UNCHANGED <<rates, venueVars>>

\* Mutant: the downloaded value wins.
MergeRates_NewWins ==
    /\ step = "merge"
    /\ rates' = scan.got \cup {r \in rates : \A new \in scan.got : new[1] # r[1]}
    /\ GiveUpScan
    /\ UNCHANGED venueVars

\* mergeRecords and replaceAtomically: the union, published in one rename.
\* Nothing at or above the cutoff leaves an existing file alone, too.
MergeRates ==
    /\ step = "merge" /\ ~Conflicting(scan.got)
    /\ rates' = rates \cup scan.got
    /\ GiveUpScan
    /\ UNCHANGED venueVars

\* "conflicting MEXC funding values": nothing is published.
MergeRefused ==
    /\ step = "merge" /\ Conflicting(scan.got)
    /\ GiveUpScan
    /\ UNCHANGED <<rates, venueVars>>

\* -d on a contract that is not active.
DeleteRates ==
    /\ step = "idle" /\ fundingEdits < MaxFundingEdits
    /\ fundingEdits' = fundingEdits + 1
    /\ rates' = {}
    /\ UNCHANGED <<step, scan, settled, corrected, whole, fundingFaults>>

-----------------------------------------------------------------------------
(* What the worker does not decide *)

FundingCrash ==
    /\ step # "idle" /\ fundingFaults < MaxFundingFaults
    /\ fundingFaults' = fundingFaults + 1
    /\ GiveUpScan
    /\ UNCHANGED <<rates, settled, corrected, whole, fundingEdits>>

Settle ==
    /\ settled < LastSettlement
    /\ settled' = settled + 1
    /\ UNCHANGED <<rates, step, scan, corrected, whole, fundingFaults, fundingEdits>>

\* The venue corrects a rate it has published.
Correct ==
    /\ fundingEdits < MaxFundingEdits /\ fundingEdits' = fundingEdits + 1
    /\ \E t \in 1 .. settled : corrected' = corrected \cup {t}
    /\ UNCHANGED <<rates, step, scan, settled, whole, fundingFaults>>

ShowAll ==
    /\ ~whole /\ whole' = TRUE
    /\ UNCHANGED <<rates, step, scan, settled, corrected, fundingFaults, fundingEdits>>

FundingWorker ==
    \/ StartFunding \/ EmptyFirstPage \/ PageRejected \/ PagesShifted
    \/ PagesOverlap \/ TakePage \/ MergeRates \/ MergeRefused

FundingNext ==
    \/ FundingWorker
    \/ DeleteRates \/ FundingCrash \/ Settle \/ Correct \/ ShowAll

FundingSpec == FundingInit /\ [][FundingNext]_fundingVars

\* The timer starts runs for ever, requests end, outages end.
FundingFairness ==
    WF_fundingVars(FundingWorker) /\ WF_fundingVars(Settle) /\ WF_fundingVars(ShowAll)

-----------------------------------------------------------------------------

\* As long as a file holds rates, no stored one is lost or replaced, and no
\* settlement gets a second one: whatever the venue hides, corrects or shifts, and
\* wherever a run dies (mexc_funding_csv.h:282).  A step that leaves no rate at
\* all, as the removal by -d does, is not spoken of.
RatesKept ==
    [][rates' # {} =>
         /\ rates \subseteq rates'
         /\ \A a, b \in rates' : a[1] = b[1] => a = b]_fundingVars

\* A scan that is about to be merged and whose answers were all complete has
\* every settlement from the cutoff on that its metadata counts, although
\* settlements landed between its pages (mexc_futures_downloader.cpp:1087).
NothingSkippedMidScan ==
    step = "merge" /\ scan.honest =>
        \A t \in scan.cutoff .. scan.total : \E r \in scan.got : r[1] = t

\* README.md:517: a shortened snapshot cannot hide an older or middle gap for
\* ever: once the venue shows everything, every settlement above the venue
\* default is stored by some later run, unless a stored rate was corrected.
GapsFilled ==
    (whole /\ settled = LastSettlement)
      ~> (OldestRate .. LastSettlement \subseteq StoredTimes
          \/ corrected \cap StoredTimes # {})

=============================================================================
