--------------------------- MODULE MCDownloadFeed ---------------------------
(***************************************************************************)
(* Small instances of DownloadFeed.                                        *)
(***************************************************************************)
EXTENDS DownloadFeed

CONSTANTS b1, b2
=============================================================================
