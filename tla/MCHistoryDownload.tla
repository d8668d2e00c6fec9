------------------------- MODULE MCHistoryDownload -------------------------
(* Two symbols, four days in chunks of two; the last chunk is partly in     *)
(* the future when the download is begun.                                   *)
EXTENDS HistoryDownload

CONSTANTS infy, tcs
MCSymbolList == <<infy, tcs>>
=============================================================================
