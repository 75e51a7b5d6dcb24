---------------------------- MODULE MC_Ingestion ----------------------------
(***************************************************************************)
(* Small instances of Ingestion: the API's scheduler and cron overlap on   *)
(* one ticker, which is on no watchlist, so that it is asked for because   *)
(* it is held, and on one series.                                          *)
(***************************************************************************)
EXTENDS Ingestion

CONSTANTS api, cron, KNRI11, selic, lastDividend

TwoProcesses == {api, cron}
OneTicker == {KNRI11}
NoSeed == {}
OneIndicator == <<selic>>
LastDividend == {lastDividend}
NothingOptional == {}
=============================================================================
