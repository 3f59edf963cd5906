-------------------------- MODULE MCStockRoundTrip --------------------------
(* Small instances of the stock round trip for TLC.                        *)
EXTENDS StockRoundTrip, TLC

CONSTANTS r1, r2, b1, b2, main

(* Every request is typed in the same room.                                *)
OneRoom == [r \in Requests |-> main]

(* Bots are interchangeable, and so are the requests of one room.          *)
Symmetric == Permutations(Bots) \cup Permutations(Requests)
=============================================================================
