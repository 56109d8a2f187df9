-------------------------- MODULE DownloadCommand --------------------------
(***************************************************************************)
(* Download commands over one directory, one after another: from the       *)
(* exchange's listing, the files on disk, -s and -d a command chooses what *)
(* to update and what to remove, its workers run, and only when all of     *)
(* them delivered the files are removed (updateMarketData and              *)
(* updateFundingRateData of every downloader).                             *)
(*                                                                         *)
(* A worker is what WorkerPool promises of it: it delivers or fails, in    *)
(* any order, and the command goes on only when all are collected.  The    *)
(* names here are usable as file names; WorkerPool has those that are not. *)
(***************************************************************************)
EXTENDS Naturals

CONSTANTS
    Markets,      \* the symbols there are
    Usdt,         \* those of the universe that "all" stands for
    Packed,       \* those with a compressed file in the OKX directory
    Archived,     \* those Kraken's funding archive has
    Clients,      \* the downloaders the commands are given to
    MaxChanges    \* bound on changes of the listing

ASSUME MarketsAssumption ==
    Usdt \subseteq Markets /\ Packed \subseteq Markets /\ Archived \subseteq Markets
ASSUME ClientsAssumption ==
    Clients \subseteq {"binance", "bybit_spot", "bybit_linear", "okx", "hyperliquid",
                       "kraken", "kraken_funding", "mexc_spot", "mexc_futures"}
ASSUME MaxChangesAssumption == MaxChanges \in Nat

VARIABLES
    client,     \* the downloader the commands are for
    venue,      \* per symbol: what the exchange lists now
    files,      \* symbols with a plain CSV file
    stage,      \* "idle", "updating" or "removing"
    asked,      \* symbols given with -s; none stands for all
    removal,    \* -d
    seen,       \* the listing as the command read it
    had,        \* the files as the command found them
    todo,       \* symbols whose worker has not ended
    updated,    \* symbols whose worker delivered
    failed,     \* symbols whose worker threw
    doomed,     \* symbolsToDelete
    changes

given == <<asked, removal, seen, had>>
wave == <<todo, updated, failed>>
cmdVars == <<client, venue, files, stage, given, wave, doomed, changes>>

Listings == [Markets -> {"trading", "stopped", "absent"}]

AllTrading == [s \in Markets |-> "trading"]

CommandTypeOK ==
    /\ client \in Clients
    /\ venue \in Listings /\ seen \in Listings
    /\ files \subseteq Markets /\ had \subseteq Markets
    /\ stage \in {"idle", "updating", "removing"}
    /\ asked \subseteq Markets /\ removal \in BOOLEAN
    /\ todo \subseteq Markets /\ updated \subseteq Markets
    /\ failed \subseteq Markets /\ doomed \subseteq Markets
    /\ changes \in 0 .. MaxChanges

CommandInit ==
    /\ client \in Clients
    /\ venue = AllTrading /\ files = {}
    /\ stage = "idle"
    /\ asked = {} /\ removal = FALSE /\ seen = AllTrading /\ had = {}
    /\ todo = {} /\ updated = {} /\ failed = {} /\ doomed = {}
    /\ changes = 0

-----------------------------------------------------------------------------
(* What is updated and what is removed.  listing is the one just read,     *)
(* names what -s gave; each choice is for the whole universe or by name.   *)

Choice(update, remove) == [update |-> update, remove |-> remove]

Absent(listing) == {s \in Markets : listing[s] = "absent"}
Live(listing) == {s \in Markets : listing[s] = "trading"}

\* Mutant: a file whose symbol is not about to be updated is a delisted one.
ByFile_NotInUniverse(listing) == files \ (Usdt \cap Live(listing))

\* The scan of the directory for symbols no longer on the exchange.
ByFile(listing) == files \cap Absent(listing)

\* The universe is what is listed in it; with -d without what stopped.
Universe(listing, within, del) ==
    LET listed == within \ Absent(listing)
    IN  IF del THEN Choice(listed \cap Live(listing),
                           (listed \ Live(listing)) \cup ByFile(listing))
        ELSE Choice(listed, {})

\* By name: with -d what does not trade is removed, else downloaded.
ByName(listing, names, del) ==
    IF del THEN Choice(names \cap Live(listing), names \ Live(listing))
    ELSE Choice(names, {})

\* By name where an unknown symbol is never downloaded.
ByKnownName(listing, names, del) ==
    LET chosen == ByName(listing, names, del)
    IN  [chosen EXCEPT !.update = @ \ Absent(listing)]

BinanceChoice(listing, names, del) ==
    IF names = {} THEN Universe(listing, Usdt, del) ELSE ByName(listing, names, del)

\* A closed spot pair may be missing from the listing and is tried.
BybitSpotChoice(listing, names, del) ==
    IF names = {} THEN Universe(listing, Usdt, del) ELSE ByName(listing, names, del)

BybitLinearChoice(listing, names, del) ==
    IF names = {} THEN Universe(listing, Usdt, del) ELSE ByKnownName(listing, names, del)

HyperliquidChoice(listing, names, del) ==
    IF names = {} THEN Universe(listing, Markets, del) ELSE ByKnownName(listing, names, del)

\* Mutant: compressed files are not looked at.
OkxOnDisk_PlainOnly == files

\* csvStemFromArchivePath: the symbols with a plain or a compressed file.
OkxOnDisk == files \cup Packed

\* Without -d what is on disk and no longer listed is maintained.
OkxChoice(listing, names, del) ==
    LET all == Universe(listing, Usdt, del)
    IN  IF names # {} THEN ByName(listing, names, del)
        ELSE IF del THEN all
        ELSE [all EXCEPT !.update = @ \cup (OkxOnDisk \cap Absent(listing))]

KrakenChoice(listing, names, del) ==
    IF names = {} THEN Universe(listing, Markets, del) ELSE ByKnownName(listing, names, del)

\* The archive is read if a file has no record or a name is unknown; what
\* only it has is updated whatever is being removed.
KrakenFundingChoice(listing, names, del) ==
    LET chosen == KrakenChoice(listing, names, del)
        unknown == names \cap Absent(listing)
        wanted == IF names = {} THEN Absent(listing) ELSE unknown
    IN  IF chosen.update \subseteq files /\ unknown = {} THEN chosen
        ELSE [chosen EXCEPT !.update = @ \cup (wanted \cap Archived)]

\* MEXC knows no symbol outside the universe; Spot has no stopped ones.
MexcSpotChoice(listing, names, del) ==
    LET active == Usdt \ Absent(listing)
    IN  IF names = {} THEN Choice(active, IF del THEN files \ active ELSE {})
        ELSE IF del THEN Choice(names \cap active, names \ active)
        ELSE Choice(names, {})

MexcFuturesChoice(listing, names, del) ==
    LET all == Usdt \ Absent(listing)
        active == Usdt \cap Live(listing)
    IN  IF names # {} /\ del THEN Choice(names \cap active, names \ active)
        ELSE IF names # {} THEN Choice(names, {})
        ELSE IF del THEN Choice(active, files \ active)
        ELSE Choice(all, {})

Chosen(listing, names, del) ==
    CASE client = "binance"        -> BinanceChoice(listing, names, del)
      [] client = "bybit_spot"     -> BybitSpotChoice(listing, names, del)
      [] client = "bybit_linear"   -> BybitLinearChoice(listing, names, del)
      [] client = "okx"            -> OkxChoice(listing, names, del)
      [] client = "hyperliquid"    -> HyperliquidChoice(listing, names, del)
      [] client = "kraken"         -> KrakenChoice(listing, names, del)
      [] client = "kraken_funding" -> KrakenFundingChoice(listing, names, del)
      [] client = "mexc_spot"      -> MexcSpotChoice(listing, names, del)
      [] client = "mexc_futures"   -> MexcFuturesChoice(listing, names, del)

-----------------------------------------------------------------------------
(* A command *)

\* The process exits and forgets.
EndCommand ==
    /\ stage' = "idle"
    /\ asked' = {} /\ removal' = FALSE /\ seen' = AllTrading /\ had' = {}
    /\ todo' = {} /\ updated' = {} /\ failed' = {} /\ doomed' = {}

StartCommand ==
    /\ stage = "idle"
    /\ asked' \in SUBSET Markets /\ removal' \in BOOLEAN
    /\ seen' = venue /\ had' = files
    /\ LET chosen == Chosen(venue, asked', removal')
       IN  todo' = chosen.update /\ doomed' = chosen.remove
    /\ stage' = "updating"
    /\ UNCHANGED <<client, venue, files, updated, failed, changes>>

\* A worker delivers; there may be nothing to write a first file from.
Delivered(s) ==
    /\ stage = "updating" /\ s \in todo
    /\ todo' = todo \ {s} /\ updated' = updated \cup {s}
    /\ files' \in {files, files \cup {s}}
    /\ UNCHANGED <<client, venue, stage, given, failed, doomed, changes>>

\* A worker throws, perhaps after it has written.
Threw(s) ==
    /\ stage = "updating" /\ s \in todo
    /\ todo' = todo \ {s} /\ failed' = failed \cup {s}
    /\ files' \in {files, files \cup {s}}
    /\ UNCHANGED <<client, venue, stage, given, updated, doomed, changes>>

\* waitAllOrThrow: one failure ends the command behind the last worker.
CollectAll ==
    /\ stage = "updating" /\ todo = {}
    /\ IF failed = {} THEN stage' = "removing" /\ UNCHANGED <<given, wave, doomed>>
       ELSE EndCommand
    /\ UNCHANGED <<client, venue, files, changes>>

\* The files of one delisted symbol; its CSV may not exist.
Remove(s) ==
    /\ stage = "removing" /\ s \in doomed
    /\ files' = files \ {s}
    /\ doomed' = doomed \ {s}
    /\ UNCHANGED <<client, venue, stage, given, wave, changes>>

FinishCommand ==
    /\ stage = "removing" /\ doomed = {}
    /\ EndCommand
    /\ UNCHANGED <<client, venue, files, changes>>

\* The process is killed, or a launch or a removal throws.
Abort ==
    /\ stage # "idle"
    /\ EndCommand
    /\ UNCHANGED <<client, venue, files, changes>>

\* The exchange stops, drops or lists a symbol again, also during a command.
Relist ==
    /\ changes < MaxChanges
    /\ \E s \in Markets, status \in {"trading", "stopped", "absent"} :
         /\ status # venue[s]
         /\ venue' = [venue EXCEPT ![s] = status]
    /\ changes' = changes + 1
    /\ UNCHANGED <<client, files, stage, given, wave, doomed>>

CommandNext ==
    \/ StartCommand \/ CollectAll \/ FinishCommand \/ Abort \/ Relist
    \/ \E s \in Markets : Delivered(s) \/ Threw(s) \/ Remove(s)

CommandSpec == CommandInit /\ [][CommandNext]_cmdVars

-----------------------------------------------------------------------------
(* "-d: Delete delisted symbols data files, if not specified delisted      *)
(* files will be preserved": a file disappears only in a command that was  *)
(* given -d, whose workers all delivered, and that did not itself update   *)
(* it; and its symbol did not trade when the command read the listing,     *)
(* whatever the listing says by now.  Two downloaders have exceptions: to  *)
(* MEXC a symbol outside its USDT universe counts as delisted, and Kraken  *)
(* funding removes a contract it has just updated from the archive.        *)
RemovalJustified ==
    [][\A s \in files \ files' :
          /\ removal /\ todo = {} /\ failed = {}
          /\ s \in updated => client = "kraken_funding" /\ seen[s] = "absent"
          /\ seen[s] = "trading" => client \in {"mexc_spot", "mexc_futures"} /\ s \notin Usdt]_cmdVars

(* okx_downloader.cpp: "a delisted symbol dropped here would stop being    *)
(* maintained and would vanish from a rebuilt dataset": when a command for *)
(* all symbols without -d has collected its workers, every symbol there    *)
(* was data of, plain or compressed, has been updated, unless it is listed *)
(* outside the universe.                                                   *)
DelistedMaintained ==
    stage = "removing" /\ client = "okx" /\ asked = {} /\ ~removal =>
        \A s \in had \cup Packed : s \in updated \/ (seen[s] # "absent" /\ s \notin Usdt)

=============================================================================
