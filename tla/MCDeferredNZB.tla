----------------------------- MODULE MCDeferredNZB -----------------------------
(* Small instances of DeferredNZB for TLC.                                 *)
EXTENDS DeferredNZB

CONSTANTS c1, c2, c3, c4
===============================================================================
