----------------------------- MODULE PriceTable -----------------------------
(***************************************************************************)
(* What the listeners of OrderService are promised of the price table: it  *)
(* starts empty, an instrument's price appears and then only changes, one  *)
(* at a time, and the entry of an instrument is its own.                   *)
(***************************************************************************)
CONSTANTS Instruments, Prices, None

VARIABLE currentPrices

Init == currentPrices = [i \in Instruments |-> None]

SetPrice(i, p) ==
  /\ currentPrices[i] # p
  /\ currentPrices' = [currentPrices EXCEPT ![i] = p]

Next == \E i \in Instruments, p \in Prices : SetPrice(i, p)

Spec == Init /\ [][Next]_currentPrices
=============================================================================
