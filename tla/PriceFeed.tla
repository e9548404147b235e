----------------------------- MODULE PriceFeed ------------------------------
(***************************************************************************)
(* The trading application's end of the price feed.  One websocket session *)
(* hands each broadcast of the stock market service, a frame with all      *)
(* prices, to InstrumentServiceImpl.setCurrentPrices, which compares it    *)
(* with the price table and saves what differs, every save a transaction   *)
(* of its own.  An exception drops the rest of the frame and is logged.    *)
(*                                                                         *)
(* The table is read and compared by row id, as if that were the           *)
(* instrument; but the id of a new row comes from a sequence.              *)
(***************************************************************************)
EXTENDS Integers

CONSTANTS
  N,        \* the instruments are 1..N
  Prices,   \* the prices a frame may bring
  MayFail,  \* calls that may throw: "save" and "consume" (a save of a new row
            \* that throws before or after it drew an id) and "record"
  MaxRow,   \* bound on the ids drawn
  None      \* no row, no price

VARIABLES
  rows,     \* table instrument_price: id -> instrument and price, or None
  nextId,   \* the sequence of its ids
  history,  \* table instrument_price_history: the last price of each instrument
  topic,    \* the prices last sent to the browsers
  phase,    \* where setCurrentPrices is
  frame,    \* the prices of the frame at hand, or of the last one
  known,    \* the map getCurrentPrices() returned for it, by row id
  at,       \* how many of its entries have been visited, plus one
  isChange, \* the flag of the same name
  handled,  \* whether the last frame was handled to its end
  dropped   \* history: whether a frame was dropped since browsers were last told

vars == <<rows, nextId, history, topic, phase, frame, known, at, isChange, handled,
          dropped>>

Instruments == 1..N
RowIds      == 1..MaxRow

ASSUME FeedAssumption ==
  /\ N \in Nat \ {0}
  /\ MaxRow \in Nat /\ MaxRow >= N
  /\ MayFail \subseteq {"save", "consume", "record"}
  /\ None \notin Prices
  /\ None \notin [instrument : Instruments, price : Prices]

Row == [instrument : Instruments, price : Prices]

-----------------------------------------------------------------------------
(* Faulty variants of definitions below, for putting properties to the test. *)

\* the entries are visited from the last to the first
KeyFromEnd(n) == N + 1 - n

\* a price is saved only when there is none yet
ChangedFirst(k) == known[k] = None

\* the new row has no price, or all rows are written together
SavedUnpriced(table, id, k) ==
  [table EXCEPT ![id] = [instrument |-> k, price |-> None]]
SavedTogether(table, id, k) ==
  [i \in RowIds |-> IF i \in Instruments
                    THEN [instrument |-> i, price |-> frame[i]] ELSE table[i]]

\* the history gets the price there was before
RecordedOld(k) == IF known[k] = None THEN frame[k] ELSE known[k]

\* only first prices are announced
ToldFirst(old) == IF isChange /\ old[1] = None THEN frame ELSE old

-----------------------------------------------------------------------------
\* getCurrentPrices: the prices in the table, keyed by row id.
PricesById(table) ==
  [id \in RowIds |-> IF table[id] = None THEN None ELSE table[id].price]

\* The key of the n-th entry of a frame: a HashMap of small Longs is traversed in
\* their order.
KeyAt(n) == n

Changed(k) == known[k] # frame[k]

\* repository.save(instrumentPrice) with id k: a merge, which updates row k if
\* there is one and otherwise inserts a row with an id of its own.
IdFor(k) == IF rows[k] # None THEN k ELSE nextId

Saved(table, id, k) ==
  [table EXCEPT ![id] = [instrument |-> k, price |-> frame[k]]]

Recorded(k) == frame[k]

Told(old) == IF isChange THEN frame ELSE old

Init ==
  /\ rows = [id \in RowIds |-> None]
  /\ nextId = 1
  /\ history = [k \in Instruments |-> None]
  /\ topic = [k \in Instruments |-> None]
  /\ phase = "idle"
  /\ frame = [k \in Instruments |-> None]
  /\ known = PricesById(rows)
  /\ at = 1
  /\ isChange = FALSE
  /\ handled = TRUE
  /\ dropped = FALSE

\* handleFrame and the beginning of setCurrentPrices.  Frames come one by one, as
\* the session's thread calls the handler, but with any prices: broadcasts may
\* overtake each other.
Receive(f) ==
  /\ phase = "idle"
  /\ frame' = f
  /\ known' = PricesById(rows)
  /\ at' = 1
  /\ isChange' = FALSE
  /\ handled' = FALSE
  /\ phase' = "visit"
  /\ UNCHANGED <<rows, nextId, history, topic, dropped>>

Advance ==
  /\ at' = at + 1
  /\ phase' = IF at = N THEN "end" ELSE "visit"

Keep ==
  /\ phase = "visit"
  /\ ~Changed(KeyAt(at))
  /\ Advance
  /\ UNCHANGED <<rows, nextId, history, topic, frame, known, isChange, handled,
                 dropped>>

SavePrice ==
  /\ phase = "visit"
  /\ LET k == KeyAt(at)
     IN  /\ Changed(k)
         /\ IdFor(k) \in RowIds
         /\ rows' = Saved(rows, IdFor(k), k)
         /\ nextId' = IF rows[k] # None THEN nextId ELSE nextId + 1
  /\ phase' = "record"
  /\ UNCHANGED <<history, topic, frame, known, at, isChange, handled, dropped>>

RecordHistory ==
  /\ phase = "record"
  /\ history' = [history EXCEPT ![KeyAt(at)] = Recorded(KeyAt(at))]
  /\ isChange' = TRUE
  /\ Advance
  /\ UNCHANGED <<rows, nextId, topic, frame, known, handled, dropped>>

Finish ==
  /\ phase = "end"
  /\ topic' = Told(topic)
  /\ dropped' = (dropped /\ ~isChange)
  /\ handled' = TRUE
  /\ phase' = "idle"
  /\ UNCHANGED <<rows, nextId, history, frame, known, at, isChange>>

\* An exception on the way: what is saved stays, the rest is dropped.
Drop ==
  /\ \/ /\ phase = "visit" /\ Changed(KeyAt(at)) /\ "save" \in MayFail
        /\ UNCHANGED nextId
     \/ /\ phase = "visit" /\ Changed(KeyAt(at)) /\ "consume" \in MayFail
        /\ rows[KeyAt(at)] = None
        /\ nextId \in RowIds /\ nextId' = nextId + 1
     \/ /\ phase = "record" /\ "record" \in MayFail
        /\ UNCHANGED nextId
  /\ phase' = "idle"
  /\ dropped' = TRUE
  /\ UNCHANGED <<rows, history, topic, frame, known, at, isChange, handled>>

Next ==
  \/ \E f \in [Instruments -> Prices] : Receive(f)
  \/ Keep \/ SavePrice \/ RecordHistory \/ Finish
  \/ Drop

Spec == Init /\ [][Next]_vars

-----------------------------------------------------------------------------
(* Properties.                                                             *)

TypeOK ==
  /\ rows \in [RowIds -> Row \cup {None}]
  /\ nextId \in 1..(MaxRow + 1)
  /\ history \in [Instruments -> Prices \cup {None}]
  /\ topic \in [Instruments -> Prices \cup {None}]
  /\ phase \in {"idle", "visit", "record", "end"}
  /\ frame \in [Instruments -> Prices \cup {None}]
  /\ known \in [RowIds -> Prices \cup {None}]
  /\ at \in 1..(N + 1)
  /\ isChange \in BOOLEAN
  /\ handled \in BOOLEAN
  /\ dropped \in BOOLEAN

\* The row with id i is the row of instrument i, which the whole application
\* takes for granted: the first frames fill an empty table in the order of the
\* ids.  It needs a save that fails to leave the sequence alone.
RowIsInstrument ==
  \A id \in RowIds : rows[id] # None => rows[id].instrument = id

\* Once a frame has been handled to its end the table holds its prices, whatever
\* happened to the frames before.
TableHoldsFrame ==
  (phase = "idle" /\ handled) =>
    \A k \in Instruments :
      frame[k] # None => rows[k] # None /\ rows[k].price = frame[k]

\* Between frames the last price in the history is the price in the table.  A
\* history save that fails would break this until the price changes again.
HistoryEndsWithTable ==
  (phase = "idle" /\ handled) =>
    \A k \in Instruments : rows[k] # None => history[k] = rows[k].price

\* Between frames the browsers have been told what the table holds, though most
\* frames are not announced at all.  What was saved of a frame that was dropped is
\* not announced by the frames that repeat it, only with the next change.
BrowsersToldTable ==
  (phase = "idle" /\ handled /\ ~dropped) =>
    \A k \in Instruments : rows[k] # None => topic[k] = rows[k].price

Table == INSTANCE PriceTable
           WITH currentPrices <- [i \in Instruments |-> PricesById(rows)[i]]

\* The table is the one OrderService is specified with.
ImplementsPriceTable == Table!Spec

=============================================================================
