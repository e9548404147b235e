------------------------ MODULE MCStockMarketService ------------------------
(* Instances of StockMarketService for TLC: two instruments of different    *)
(* start prices and periods.                                                *)
EXTENDS StockMarketService, TLC

CONSTANTS a, b

BaseTwo   == (a :> 1) @@ (b :> 2)
PeriodTwo == (a :> 1) @@ (b :> 2)
=============================================================================
