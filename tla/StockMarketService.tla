------------------------- MODULE StockMarketService -------------------------
(***************************************************************************)
(* The stock market service: one price per instrument, kept by a scheduled *)
(* method each (InstrumentPriceServiceImpl), and the endpoint that answers *)
(* orders (OrderController).                                               *)
(*                                                                         *)
(* A scheduled method counts its runs.  On run Period it adds a random     *)
(* difference to its price, on the next it takes it away again; both times *)
(* it broadcasts all prices.  The methods run on different threads, and a  *)
(* Price is two plain fields, so a broadcast and an order read the prices  *)
(* of other threads in the middle of their updates.                        *)
(*                                                                         *)
(* Readers are modelled by which change of a price they have seen, and a   *)
(* time is the number of the change it was taken at (the clock of the      *)
(* service is taken not to run backwards).  The plain fields are taken to  *)
(* be sequentially consistent: what a thread reads is the latest value.    *)
(***************************************************************************)
EXTENDS Integers

CONSTANTS
  Instruments,  \* the instruments, each with a price and a scheduled method
  Base,         \* the price each starts with
  MaxDiff,      \* largest random difference (10.0 in the code)
  Period,       \* the run that changes the price (CDP_TICK, ...)
  Requests,     \* orders the endpoint is sent
  MaxChanges,   \* bound: changes of a price in a behaviour
  None          \* not read yet

VARIABLES
  value,        \* Price.value
  updateTime,   \* Price.updateTime, as the number of a change
  changes,      \* how often the value has been set
  difference,   \* cdpDifference, ...: the last random difference
  counter,      \* cdpCounter, ...: runs of the scheduled method
  step,         \* where the scheduled method is
  message,      \* the broadcast it serializes: the change it saw of each price
  announced,    \* the latest change of each price in any broadcast so far
  asked,        \* the instrument each order asks for, None before it arrives
  answer        \* what the endpoint has read for it

ticker   == <<value, updateTime, changes, difference, counter, step, message>>
endpoint == <<asked, answer>>
vars     == <<ticker, announced, endpoint>>

ASSUME ServiceAssumption ==
  /\ Base \in [Instruments -> Nat]
  /\ MaxDiff \in Nat
  /\ Period \in [Instruments -> Nat \ {0}]
  /\ MaxChanges \in Nat
  /\ None \notin Nat \cup Instruments

Diffs == -MaxDiff .. MaxDiff

Unread  == [change |-> None, time |-> None]
Unsent  == [j \in Instruments |-> None]

-----------------------------------------------------------------------------
(* Faulty variants of definitions below, for putting properties to the test. *)

\* a refused difference is taken away at once, and once more by the next run
RaisedBack(price, diff) ==
  IF price + diff < 0 THEN price - diff ELSE price + diff

\* setValue follows the broadcast
SentEarly(i, j) == IF i = j THEN changes[j] - 1 ELSE changes[j]

\* the endpoint reads the value before the time
ValueFirst(reading) ==
  IF reading.change = None THEN "value"
  ELSE IF reading.time = None THEN "time" ELSE "done"

\* the counter is not reset
CountOn(i, n) == n + 1

-----------------------------------------------------------------------------
\* The price after a random difference, which is taken back if it would make the
\* price negative - but stays the difference that the next run takes away.
Raised(price, diff) == IF price + diff < 0 THEN price ELSE price + diff

\* The price after the next run.
Lowered(price, diff) == price - diff

\* What the broadcast of i sees of price j.
Seen(i, j) == changes[j]

\* getOrderResultDTO reads the time first and the value later.
NextRead(reading) ==
  IF reading.time = None THEN "time"
  ELSE IF reading.change = None THEN "value" ELSE "done"

\* The counter at the end of a run: after run Period + 1 it restarts at 0 and is
\* incremented at once.
NextCount(i, n) == IF n = Period[i] + 1 THEN 1 ELSE n + 1

Init ==
  /\ value = Base
  /\ updateTime = [i \in Instruments |-> 0]
  /\ changes = [i \in Instruments |-> 0]
  /\ difference = [i \in Instruments |-> 0]
  /\ counter = [i \in Instruments |-> 0]
  /\ step = [i \in Instruments |-> "wait"]
  /\ message = [i \in Instruments |-> Unsent]
  /\ announced = [i \in Instruments |-> 0]
  /\ asked = [r \in Requests |-> None]
  /\ answer = [r \in Requests |-> Unread]

-----------------------------------------------------------------------------
(* The scheduled method of instrument i; its runs do not overlap.          *)

\* A run that only counts.
Count(i) ==
  /\ step[i] = "wait"
  /\ counter[i] \notin {Period[i], Period[i] + 1}
  /\ counter' = [counter EXCEPT ![i] = NextCount(i, @)]
  /\ UNCHANGED <<value, updateTime, changes, difference, step, message,
                 announced, endpoint>>

SetValue(i, price) ==
  /\ value' = [value EXCEPT ![i] = price]
  /\ changes' = [changes EXCEPT ![i] = @ + 1]
  /\ step' = [step EXCEPT ![i] = "stamp"]
  /\ UNCHANGED <<updateTime, counter, message, announced, endpoint>>

\* Run Period: draw a difference.  (The bound leaves room for taking it back.)
Jump(i, diff) ==
  /\ step[i] = "wait"
  /\ counter[i] = Period[i]
  /\ changes[i] + 2 <= MaxChanges
  /\ difference' = [difference EXCEPT ![i] = diff]
  /\ SetValue(i, Raised(value[i], diff))

\* Run Period + 1: take the difference away.
TakeBack(i) ==
  /\ step[i] = "wait"
  /\ counter[i] = Period[i] + 1
  /\ SetValue(i, Lowered(value[i], difference[i]))
  /\ UNCHANGED difference

\* setUpdateTime, a step of its own.
Stamp(i) ==
  /\ step[i] = "stamp"
  /\ updateTime' = [updateTime EXCEPT ![i] = changes[i]]
  /\ step' = [step EXCEPT ![i] = "send"]
  /\ UNCHANGED <<value, changes, difference, counter, message, announced,
                 endpoint>>

\* broadcastCurrentPrices serializes price j.
Serialize(i, j) ==
  /\ step[i] = "send"
  /\ message[i][j] = None
  /\ message' = [message EXCEPT ![i][j] = Seen(i, j)]
  /\ UNCHANGED <<value, updateTime, changes, difference, counter, step,
                 announced, endpoint>>

\* The message is handed to the broker, and the run ends.
Send(i) ==
  /\ step[i] = "send"
  /\ \A j \in Instruments : message[i][j] # None
  /\ announced' = [j \in Instruments |->
       IF message[i][j] > announced[j] THEN message[i][j] ELSE announced[j]]
  /\ message' = [message EXCEPT ![i] = Unsent]
  /\ counter' = [counter EXCEPT ![i] = NextCount(i, @)]
  /\ step' = [step EXCEPT ![i] = "wait"]
  /\ UNCHANGED <<value, updateTime, changes, difference, endpoint>>

-----------------------------------------------------------------------------
(* The endpoint; purchase and sell answer alike.                           *)

Ask(r, i) ==
  /\ asked[r] = None
  /\ asked' = [asked EXCEPT ![r] = i]
  /\ UNCHANGED <<ticker, announced, answer>>

ReadTime(r) ==
  /\ asked[r] # None
  /\ NextRead(answer[r]) = "time"
  /\ answer' = [answer EXCEPT ![r].time = updateTime[asked[r]]]
  /\ UNCHANGED <<ticker, announced, asked>>

ReadValue(r) ==
  /\ asked[r] # None
  /\ NextRead(answer[r]) = "value"
  /\ answer' = [answer EXCEPT ![r].change = changes[asked[r]]]
  /\ UNCHANGED <<ticker, announced, asked>>

-----------------------------------------------------------------------------
Run(i) ==
  \/ Count(i)
  \/ \E diff \in Diffs : Jump(i, diff)
  \/ TakeBack(i)
  \/ Stamp(i)
  \/ \E j \in Instruments : Serialize(i, j)
  \/ Send(i)

Endpoint(r) ==
  \/ \E i \in Instruments : Ask(r, i)
  \/ ReadTime(r)
  \/ ReadValue(r)

Next ==
  \/ \E i \in Instruments : Run(i)
  \/ \E r \in Requests : Endpoint(r)

Spec == Init /\ [][Next]_vars

-----------------------------------------------------------------------------
(* Properties.                                                             *)

TypeOK ==
  /\ value \in [Instruments -> Int]
  /\ updateTime \in [Instruments -> 0..MaxChanges]
  /\ changes \in [Instruments -> 0..MaxChanges]
  /\ difference \in [Instruments -> Diffs]
  /\ counter \in [Instruments -> Nat]
  /\ \A i \in Instruments : counter[i] <= Period[i] + 1
  /\ step \in [Instruments -> {"wait", "stamp", "send"}]
  /\ message \in [Instruments -> [Instruments -> Nat \cup {None}]]
  /\ announced \in [Instruments -> 0..MaxChanges]
  /\ asked \in [Requests -> Instruments \cup {None}]
  /\ answer \in [Requests -> [change : Nat \cup {None}, time : Nat \cup {None}]]

\* Between the run that takes a jump away and the next jump.
Resting(i) ==
  \/ counter[i] < Period[i]
  \/ counter[i] = Period[i] /\ step[i] = "wait"
  \/ counter[i] = Period[i] + 1 /\ step[i] # "wait"

\* Jumps are undone: a price that starts at MaxDiff or more, as all three do, is
\* back at its start whenever it rests.  Only then is no jump ever refused: one that
\* starts lower may drift, because taking away a refused jump raises it, but only
\* upwards and only below twice the largest jump.  And no price becomes negative,
\* neither by a jump nor when one is taken away that had been refused.
BackToBase ==
  \A i \in Instruments :
    /\ value[i] >= 0
    /\ Resting(i) =>
         IF Base[i] >= MaxDiff THEN value[i] = Base[i]
         ELSE value[i] >= Base[i] /\ value[i] < 2 * MaxDiff

\* An order is never answered with a price older than the time the answer gives
\* for it, though the price may change between the two reads.
AnswerFresh ==
  \A r \in Requests :
    NextRead(answer[r]) = "done" => answer[r].change >= answer[r].time

\* Once a run is over, some broadcast has had the price it set, whatever the
\* other threads did to the message.
ChangeAnnounced ==
  \A i \in Instruments : step[i] = "wait" => announced[i] = changes[i]

=============================================================================
