------------------------------ MODULE MCScrape ------------------------------
(* Scrape instantiated for TLC: one collector that writes more metrics than bufCh  *)
(* holds, and one that writes none.                                                *)
EXTENDS Scrape

Metrics == [cpu |-> 2, time |-> 0]
=============================================================================
