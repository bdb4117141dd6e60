-------------------------------- MODULE MCProxy --------------------------------
(* Small instances of Proxy for TLC.                                       *)
EXTENDS Proxy

CONSTANTS s1, s2, p1, p2, b1
===============================================================================
