---------------------------- MODULE MCLongLived ----------------------------
(* LongLived for TLC.  The PDH collector has its builder with a slice of its *)
(* own, and two scrapes that pass the same field perfDataObject.             *)
EXTENDS MCCollectorState, LongLived

CONSTANTS new, s1, s2, initial, shared

MCDstOf == [c \in Callers |-> IF c = new THEN initial ELSE shared]
=============================================================================
