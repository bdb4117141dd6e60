--------------------------- MODULE MCSegmentDownload ---------------------------
(* Small instances of SegmentDownload for TLC.                             *)
EXTENDS SegmentDownload

CONSTANTS r1, r2
===============================================================================
