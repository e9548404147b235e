--------------------------- MODULE PriceFeedProofs --------------------------
(***************************************************************************)
(* Proofs about PriceFeed, for any number of instruments and any prices,   *)
(* as long as a save that fails draws no id.                               *)
(***************************************************************************)
EXTENDS PriceFeed, TLAPS

\* The price of instrument k is in its row.
Done(k) == rows[k] # None /\ rows[k].price = frame[k]

Pending == CASE phase = "visit"  -> at..N
             [] phase = "record" -> (at + 1)..N
             [] OTHER            -> {}

\* The inductive invariant.  Ids were drawn in the order of the instruments, the
\* entries already visited are in the table, and for those to come the map read
\* at the beginning is still true of the table.
FeedInv ==
  /\ TypeOK
  /\ nextId <= N + 1
  /\ \A id \in RowIds : rows[id] # None <=> id < nextId
  /\ \A id \in RowIds : rows[id] # None => rows[id].instrument = id
  /\ phase # "idle" => frame \in [Instruments -> Prices] /\ ~handled
  /\ phase \in {"visit", "record"} => at \in 1..N
  /\ phase \in {"visit", "record", "end"} =>
       \A k \in Instruments :
         IF k \in Pending THEN known[k] = PricesById(rows)[k] ELSE Done(k)
  /\ (phase = "idle" /\ handled) => \A k \in Instruments : frame[k] # None => Done(k)

LEMMA IdsAreRows == Instruments \subseteq RowIds
  BY FeedAssumption DEF Instruments, RowIds

LEMMA PricesByIdType ==
  ASSUME TypeOK PROVE PricesById(rows) \in [RowIds -> Prices \cup {None}]
  BY DEF TypeOK, PricesById, Row

LEMMA FeedInit == Init => FeedInv
<1> SUFFICES ASSUME Init PROVE FeedInv
  OBVIOUS
<1>1. TypeOK
  <2>1. /\ N \in Nat /\ N > 0 /\ MaxRow \in Nat
        /\ 1 \in 1..(MaxRow + 1) /\ 1 \in 1..(N + 1)
    BY FeedAssumption
  <2>2. known = [id \in RowIds |-> None]
    BY DEF Init, PricesById
  <2>3. QED
    BY <2>1, <2>2 DEF Init, TypeOK
<1>2. QED
  BY <1>1, FeedAssumption DEF Init, FeedInv, RowIds

\* What SavePrice does to the table: the row it writes is row at, new or not.
LEMMA SaveWritesOwnRow ==
  ASSUME FeedInv, SavePrice
  PROVE  /\ at \in Instruments /\ at \in RowIds
         /\ frame[at] \in Prices
         /\ rows' = [rows EXCEPT ![at] = [instrument |-> at, price |-> frame[at]]]
         /\ nextId' = IF at < nextId THEN nextId ELSE at + 1
         /\ nextId >= at
<1>1. /\ phase = "visit" /\ at \in Instruments /\ at \in RowIds
      /\ frame[at] \in Prices
  BY IdsAreRows DEF SavePrice, FeedInv, Instruments
<1>2. nextId \in Int /\ at \in Int
  BY <1>1 DEF FeedInv, TypeOK, Instruments
<1>3. nextId >= at
  <2>1. CASE at = 1
    BY <1>2, <2>1 DEF FeedInv, TypeOK
  <2>2. CASE at # 1
    <3>1. at - 1 \in Instruments /\ at - 1 \in RowIds /\ at - 1 \notin Pending
      <4>1. at - 1 \in Instruments
        BY <1>1, <1>2, <2>2, FeedAssumption DEF Instruments
      <4>2. Pending = at..N
        BY <1>1 DEF Pending
      <4>3. at - 1 \notin at..N
        BY <1>2
      <4>4. QED
        BY <4>1, <4>2, <4>3, IdsAreRows
    <3>2. rows[at - 1] # None
      BY <1>1, <3>1 DEF FeedInv, Done
    <3>3. at - 1 < nextId
      BY <3>1, <3>2 DEF FeedInv
    <3>4. QED
      BY <1>2, <3>3
  <2>3. QED
    BY <2>1, <2>2
<1>4. rows[at] # None <=> at < nextId
  BY <1>1 DEF FeedInv
<1>5. IdFor(at) = at
  BY <1>2, <1>3, <1>4 DEF IdFor
<1>6. /\ rows' = Saved(rows, at, at)
      /\ nextId' = IF rows[at] # None THEN nextId ELSE nextId + 1
  BY <1>5 DEF SavePrice, KeyAt
<1>7. QED
  BY <1>1, <1>2, <1>3, <1>4, <1>6 DEF Saved

LEMMA FeedStep ==
  ASSUME "consume" \notin MayFail
  PROVE  FeedInv /\ [Next]_vars => FeedInv'
<1> SUFFICES ASSUME FeedInv, [Next]_vars PROVE FeedInv'
  OBVIOUS
<1> USE FeedAssumption, IdsAreRows
<1>0. N \in Nat /\ N > 0 /\ TypeOK
  BY DEF FeedInv
<1>1. ASSUME NEW f \in [Instruments -> Prices], Receive(f) PROVE FeedInv'
  <2>1. TypeOK'
    <3>1. /\ PricesById(rows) \in [RowIds -> Prices \cup {None}]
          /\ 1 \in 1..(N + 1)
      BY <1>0, PricesByIdType
    <3>2. QED
      BY <1>0, <1>1, <3>1 DEF Receive, TypeOK
  <2>2. /\ UNCHANGED <<rows, nextId>> /\ phase' = "visit" /\ at' = 1 /\ frame' = f
        /\ known' = PricesById(rows) /\ ~handled'
    BY <1>1 DEF Receive
  <2>3. \A k \in Instruments : k \in Pending' /\ known'[k] = PricesById(rows)'[k]
    BY <2>2 DEF Pending, PricesById, Instruments
  <2>4. QED
    BY <1>0, <2>1, <2>2, <2>3 DEF FeedInv
<1>2. CASE Keep
  <2>1. /\ phase = "visit" /\ at \in Instruments /\ at \in Int
        /\ known[at] = frame[at] /\ at' = at + 1
        /\ phase' = IF at = N THEN "end" ELSE "visit"
        /\ UNCHANGED <<rows, nextId, frame, known, handled, history, topic, isChange,
                       dropped>>
    BY <1>2 DEF Keep, Changed, KeyAt, Advance, FeedInv, Instruments
  <2>2. known[at] = PricesById(rows)[at] /\ frame[at] \in Prices
    BY <1>0, <2>1 DEF FeedInv, Pending, Instruments
  <2>3. Done(at)
    BY <2>1, <2>2 DEF PricesById, Done
  <2>4. Pending' = Pending \ {at}
    BY <1>0, <2>1 DEF Pending, Instruments
  <2>5. TypeOK'
    BY <1>0, <2>1 DEF TypeOK, Instruments
  <2>6. \A k \in Instruments :
          IF k \in Pending' THEN known'[k] = PricesById(rows)'[k] ELSE Done(k)'
    BY <2>1, <2>3, <2>4 DEF FeedInv, Done, PricesById
  <2>7. phase' = "visit" => at' \in 1..N
    BY <1>0, <2>1 DEF Instruments
  <2>8. phase' # "idle" /\ phase' # "record" /\ frame' \in [Instruments -> Prices]
    BY <2>1 DEF FeedInv
  <2>9. QED
    BY <2>1, <2>5, <2>6, <2>7, <2>8 DEF FeedInv
<1>3. CASE SavePrice
  <2>1. /\ at \in Instruments /\ at \in RowIds /\ at \in Int
        /\ frame[at] \in Prices
        /\ rows' = [rows EXCEPT ![at] = [instrument |-> at, price |-> frame[at]]]
        /\ nextId' = IF at < nextId THEN nextId ELSE at + 1
        /\ nextId >= at /\ nextId \in Int /\ nextId <= N + 1
    BY <1>0, <1>3, SaveWritesOwnRow DEF Instruments, FeedInv, TypeOK
  <2>2. /\ phase = "visit" /\ phase' = "record"
        /\ UNCHANGED <<history, topic, frame, known, at, isChange, handled, dropped>>
    BY <1>3 DEF SavePrice
  <2>3. [instrument |-> at, price |-> frame[at]] \in Row
    BY <2>1 DEF Row
  <2>4. /\ rows'[at] = [instrument |-> at, price |-> frame[at]]
        /\ \A id \in RowIds \ {at} : rows'[id] = rows[id]
        /\ rows' \in [RowIds -> Row \cup {None}]
    BY <1>0, <2>1, <2>3 DEF TypeOK
  <2>5. rows'[at] # None /\ rows'[at].instrument = at /\ rows'[at].price = frame[at]
    BY <2>3, <2>4 DEF Row
  <2>6. nextId' \in 1..(MaxRow + 1) /\ nextId' <= N + 1
    BY <1>0, <2>1 DEF TypeOK, Instruments
  <2>7. TypeOK'
    BY <1>0, <2>2, <2>4, <2>6 DEF TypeOK
  <2>8. \A id \in RowIds : rows'[id] # None <=> id < nextId'
    <3> TAKE id \in RowIds
    <3>1. id \in Int /\ (rows[id] # None <=> id < nextId)
      BY DEF RowIds, FeedInv
    <3>2. CASE id = at
      BY <2>1, <2>5, <3>2
    <3>3. CASE id # at
      BY <2>1, <2>4, <3>1, <3>3
    <3>4. QED
      BY <3>2, <3>3
  <2>9. \A id \in RowIds : rows'[id] # None => rows'[id].instrument = id
    BY <2>4, <2>5 DEF FeedInv
  <2>10. Pending' = Pending \ {at}
    BY <1>0, <2>1, <2>2 DEF Pending, Instruments
  <2>11. \A k \in Instruments :
           IF k \in Pending' THEN known'[k] = PricesById(rows)'[k] ELSE Done(k)'
    <3> TAKE k \in Instruments
    <3>1. CASE k = at
      BY <2>2, <2>5, <2>10, <3>1 DEF Done
    <3>2. CASE k # at
      <4>1. rows'[k] = rows[k] /\ k \in RowIds
        BY <2>4, <3>2
      <4>2. PricesById(rows)'[k] = PricesById(rows)[k]
        BY <4>1 DEF PricesById
      <4>3. QED
        BY <2>2, <2>10, <3>2, <4>1, <4>2 DEF FeedInv, Done
    <3>3. QED
      BY <3>1, <3>2
  <2>12. QED
    BY <2>1, <2>2, <2>6, <2>7, <2>8, <2>9, <2>11 DEF FeedInv, Instruments
<1>4. CASE RecordHistory
  <2>1. /\ phase = "record" /\ at \in Instruments /\ at \in Int
        /\ at' = at + 1 /\ phase' = IF at = N THEN "end" ELSE "visit"
        /\ UNCHANGED <<rows, nextId, topic, frame, known, handled, dropped>>
        /\ isChange' = TRUE
        /\ history' = [history EXCEPT ![at] = frame[at]]
    BY <1>4 DEF RecordHistory, Recorded, KeyAt, Advance, FeedInv, Instruments
  <2>2. Pending' = Pending
    BY <1>0, <2>1 DEF Pending, Instruments
  <2>3. TypeOK'
    BY <1>0, <2>1 DEF TypeOK, Instruments
  <2>4. \A k \in Instruments :
          IF k \in Pending' THEN known'[k] = PricesById(rows)'[k] ELSE Done(k)'
    BY <2>1, <2>2 DEF FeedInv, Done, PricesById
  <2>5. phase' = "visit" => at' \in 1..N
    BY <1>0, <2>1 DEF Instruments
  <2>6. phase' # "idle" /\ phase' # "record" /\ frame' \in [Instruments -> Prices]
    BY <2>1 DEF FeedInv
  <2>7. QED
    BY <2>1, <2>3, <2>4, <2>5, <2>6 DEF FeedInv
<1>5. CASE Finish
  <2>1. \A k \in Instruments : Done(k)
    BY <1>5 DEF Finish, FeedInv, Pending
  <2>2. Told(topic) \in [Instruments -> Prices \cup {None}]
    BY <1>0 DEF Told, TypeOK
  <2>3. TypeOK'
    BY <1>0, <1>5, <2>2 DEF Finish, TypeOK
  <2>4. QED
    BY <1>5, <2>1, <2>3 DEF Finish, FeedInv, Done
<1>6. CASE Drop
  <2>1. /\ UNCHANGED <<rows, nextId, history, topic, frame, known, at, isChange, handled>>
        /\ dropped' = TRUE
    BY <1>6 DEF Drop
  <2>2. phase' = "idle" /\ phase \in {"visit", "record"}
    BY <1>6 DEF Drop
  <2>3. ~handled
    BY <2>2 DEF FeedInv
  <2>4. QED
    BY <1>0, <2>1, <2>2, <2>3 DEF FeedInv, TypeOK
<1>7. CASE UNCHANGED vars
  BY <1>0, <1>7 DEF vars, FeedInv, TypeOK, Pending, Done, PricesById
<1>8. QED
  BY <1>1, <1>2, <1>3, <1>4, <1>5, <1>6, <1>7 DEF Next

-----------------------------------------------------------------------------
(* Type correctness, whatever fails and whatever it costs the sequence.    *)

FeedTypes ==
  /\ TypeOK
  /\ phase # "idle" => frame \in [Instruments -> Prices]
  /\ phase \in {"visit", "record"} => at \in 1..N

LEMMA FeedTypesInit == Init => FeedTypes
  BY FeedInit DEF Init, FeedInv, FeedTypes

LEMMA FeedTypesStep == FeedTypes /\ [Next]_vars => FeedTypes'
<1> SUFFICES ASSUME FeedTypes, [Next]_vars PROVE FeedTypes'
  OBVIOUS
<1> USE FeedAssumption, IdsAreRows DEF FeedTypes
<1>0. /\ N \in Nat /\ N > 0 /\ MaxRow \in Nat /\ TypeOK
      /\ 1 \in 1..N /\ 1 \in 1..(N + 1)
      /\ nextId \in 1..(MaxRow + 1) /\ at \in 1..(N + 1)
  BY DEF TypeOK
<1>1. ASSUME NEW f \in [Instruments -> Prices], Receive(f) PROVE FeedTypes'
  <2>1. PricesById(rows) \in [RowIds -> Prices \cup {None}]
    BY <1>0, PricesByIdType
  <2>2. QED
    BY <1>0, <1>1, <2>1 DEF Receive, TypeOK
<1>2. ASSUME Advance, phase \in {"visit", "record"}
      PROVE  /\ at' \in 1..(N + 1)
             /\ phase' \in {"visit", "end"}
             /\ phase' = "visit" => at' \in 1..N
  BY <1>0, <1>2 DEF Advance
<1>3. CASE Keep
  <2>1. /\ phase = "visit" /\ Advance
        /\ UNCHANGED <<rows, nextId, history, topic, frame, known, isChange, handled, dropped>>
    BY <1>3 DEF Keep
  <2>2. /\ at' \in 1..(N + 1) /\ phase' \in {"visit", "end"}
        /\ phase' = "visit" => at' \in 1..N
    BY <1>2, <2>1
  <2>3. QED
    BY <1>0, <2>1, <2>2 DEF TypeOK
<1>4. CASE SavePrice
  <2>1. /\ phase = "visit" /\ phase' = "record" /\ at \in Instruments
        /\ IdFor(at) \in RowIds
        /\ rows' = [rows EXCEPT ![IdFor(at)] = [instrument |-> at, price |-> frame[at]]]
        /\ nextId' = IF rows[at] # None THEN nextId ELSE nextId + 1
        /\ UNCHANGED <<history, topic, frame, known, at, isChange, handled, dropped>>
    BY <1>0, <1>4 DEF SavePrice, KeyAt, Saved, Instruments
  <2>2. [instrument |-> at, price |-> frame[at]] \in Row
    BY <2>1 DEF Row
  <2>3. rows' \in [RowIds -> Row \cup {None}]
    BY <1>0, <2>1, <2>2 DEF TypeOK
  <2>4. nextId' \in 1..(MaxRow + 1)
    BY <1>0, <2>1 DEF IdFor, RowIds
  <2>5. QED
    BY <1>0, <2>1, <2>3, <2>4 DEF TypeOK
<1>5. CASE RecordHistory
  <2>1. history' \in [Instruments -> Prices \cup {None}]
    BY <1>0, <1>5 DEF RecordHistory, Recorded, KeyAt, TypeOK, Instruments
  <2>2. /\ phase = "record" /\ Advance /\ isChange' = TRUE
        /\ UNCHANGED <<rows, nextId, topic, frame, known, handled, dropped>>
    BY <1>5 DEF RecordHistory
  <2>3. /\ at' \in 1..(N + 1) /\ phase' \in {"visit", "end"}
        /\ phase' = "visit" => at' \in 1..N
    BY <1>2, <2>2
  <2>4. QED
    BY <1>0, <2>1, <2>2, <2>3 DEF TypeOK
<1>6. CASE Finish
  <2>1. Told(topic) \in [Instruments -> Prices \cup {None}]
    BY <1>0 DEF Told, TypeOK
  <2>2. QED
    BY <1>0, <1>6, <2>1 DEF Finish, TypeOK
<1>7. CASE Drop
  <2>1. nextId' \in 1..(MaxRow + 1)
    BY <1>0, <1>7 DEF Drop, RowIds
  <2>2. QED
    BY <1>0, <1>7, <2>1 DEF Drop, TypeOK
<1>8. CASE UNCHANGED vars
  BY <1>0, <1>8 DEF vars, TypeOK
<1>9. QED
  BY <1>1, <1>3, <1>4, <1>5, <1>6, <1>7, <1>8 DEF Next

\* Also a save that fails and has drawn an id leaves the table in shape: the price rows
\* then no longer carry the numbers of their instruments, which is all that is lost.
THEOREM FeedTypesKept == Spec => []TypeOK
<1>1. FeedTypes => TypeOK
  BY DEF FeedTypes
<1>2. QED
  BY <1>1, FeedTypesInit, FeedTypesStep, PTL DEF Spec

-----------------------------------------------------------------------------
LEMMA FeedInvariance ==
  ASSUME "consume" \notin MayFail PROVE Spec => []FeedInv
  BY FeedInit, FeedStep, PTL DEF Spec

\* No frame, repeated, partial or late, puts a price into another instrument's row.
THEOREM RowsAreInstruments ==
  ASSUME "consume" \notin MayFail PROVE Spec => []RowIsInstrument
<1>1. FeedInv => RowIsInstrument
  BY DEF FeedInv, RowIsInstrument
<1>2. QED
  BY <1>1, FeedInvariance, PTL

\* A frame that is handled to its end is in the table, whatever failed before it.
THEOREM TableFollowsFrames ==
  ASSUME "consume" \notin MayFail PROVE Spec => []TableHoldsFrame
<1>1. FeedInv => TableHoldsFrame
  BY DEF FeedInv, TableHoldsFrame, Done
<1>2. QED
  BY <1>1, FeedInvariance, PTL

-----------------------------------------------------------------------------
\* The table behaves as OrderService supposes: SavePrice changes one price, and
\* every other step none.
THEOREM FeedImplementsTable ==
  ASSUME "consume" \notin MayFail PROVE Spec => ImplementsPriceTable
<1> DEFINE prices == [i \in Instruments |-> PricesById(rows)[i]]
<1>1. Init => Table!Init
  BY IdsAreRows DEF Init, Table!Init, PricesById
<1>2. FeedInv /\ [Next]_vars => [Table!Next]_prices
  <2> SUFFICES ASSUME FeedInv, [Next]_vars PROVE Table!Next \/ UNCHANGED prices
    OBVIOUS
  <2>1. CASE SavePrice
    <3>1. /\ at \in Instruments /\ at \in RowIds /\ frame[at] \in Prices
          /\ rows' = [rows EXCEPT ![at] = [instrument |-> at, price |-> frame[at]]]
      BY <2>1, SaveWritesOwnRow
    <3>2. PricesById(rows)[at] # frame[at]
      BY <2>1, <3>1 DEF SavePrice, Changed, KeyAt, FeedInv, Pending, Instruments
    <3>3. frame[at] # None /\ [instrument |-> at, price |-> frame[at]] # None
      BY <3>1, FeedAssumption
    <3>4. \A i \in Instruments :
            PricesById(rows)'[i] = IF i = at THEN frame[at] ELSE PricesById(rows)[i]
      BY <3>1, <3>3, IdsAreRows DEF PricesById, FeedInv, TypeOK
    <3>5. prices' = [prices EXCEPT ![at] = frame[at]]
      BY <3>1, <3>4
    <3>6. QED
      BY <3>1, <3>2, <3>5 DEF Table!Next, Table!SetPrice
  <2>2. CASE ~SavePrice
    <3>1. rows' = rows
      BY <2>2 DEF Next, Receive, Keep, RecordHistory, Finish, Drop, vars
    <3>2. QED
      BY <3>1 DEF PricesById
  <2>3. QED
    BY <2>1, <2>2
<1>3. QED
  BY <1>1, <1>2, FeedInvariance, PTL DEF Spec, ImplementsPriceTable, Table!Spec

-----------------------------------------------------------------------------
(* History and browsers, when the history can be written.                  *)

\* The inductive invariant: the history lags the table only between the two saves
\* of an entry, and the browsers only from the first change of a frame to its end.
TellInv ==
  /\ \A k \in Instruments :
       rows[k] # None /\ ~(phase = "record" /\ k = at) => history[k] = rows[k].price
  /\ ~dropped /\ (phase = "idle" \/ (phase # "record" /\ ~isChange)) =>
       \A k \in Instruments : rows[k] # None => topic[k] = rows[k].price

LEMMA TellStep ==
  ASSUME "consume" \notin MayFail, "record" \notin MayFail
  PROVE  FeedInv /\ TellInv /\ [Next]_vars => TellInv'
<1> SUFFICES ASSUME FeedInv, TellInv, [Next]_vars PROVE TellInv'
  OBVIOUS
<1>0. TypeOK
  BY DEF FeedInv
<1>1. ASSUME NEW f \in [Instruments -> Prices], Receive(f) PROVE TellInv'
  BY <1>1 DEF Receive, TellInv
<1>2. CASE Keep
  BY <1>2 DEF Keep, Advance, TellInv
<1>3. CASE SavePrice
  <2>1. /\ at \in RowIds
        /\ rows' = [rows EXCEPT ![at] = [instrument |-> at, price |-> frame[at]]]
    BY <1>3, SaveWritesOwnRow
  <2>2. \A k \in Instruments : k # at => rows'[k] = rows[k]
    BY <2>1, IdsAreRows
  <2>3. /\ phase = "visit" /\ phase' = "record" /\ at' = at /\ history' = history
    BY <1>3 DEF SavePrice
  <2>4. QED
    BY <2>2, <2>3 DEF TellInv
<1>4. CASE RecordHistory
  <2>1. /\ phase = "record" /\ at \in Instruments /\ at \notin Pending
    BY <1>4 DEF RecordHistory, FeedInv, Instruments, Pending
  <2>2. rows[at].price = frame[at]
    BY <2>1 DEF FeedInv, Done
  <2>3. /\ history' = [history EXCEPT ![at] = frame[at]] /\ rows' = rows
        /\ phase' \in {"visit", "end"} /\ isChange' = TRUE
    BY <1>4 DEF RecordHistory, Recorded, KeyAt, Advance
  <2>4. QED
    BY <1>0, <2>1, <2>2, <2>3 DEF TellInv, TypeOK
<1>5. CASE Finish
  <2>1. \A k \in Instruments : Done(k)
    BY <1>5 DEF Finish, FeedInv, Pending
  <2>2. QED
    BY <1>5, <2>1 DEF Finish, TellInv, Told, Done
<1>6. CASE Drop
  BY <1>6 DEF Drop, TellInv
<1>7. CASE UNCHANGED vars
  BY <1>7 DEF vars, TellInv
<1>8. QED
  BY <1>1, <1>2, <1>3, <1>4, <1>5, <1>6, <1>7 DEF Next

LEMMA TellInvariance ==
  ASSUME "consume" \notin MayFail, "record" \notin MayFail PROVE Spec => []TellInv
<1>1. Init => TellInv
  BY IdsAreRows DEF Init, TellInv
<1>2. QED
  BY <1>1, TellStep, FeedInvariance, PTL DEF Spec

\* Between frames the history ends with what the table holds.
THEOREM HistoryFollowsTable ==
  ASSUME "consume" \notin MayFail, "record" \notin MayFail
  PROVE  Spec => []HistoryEndsWithTable
<1>1. TellInv => HistoryEndsWithTable
  BY DEF TellInv, HistoryEndsWithTable
<1>2. QED
  BY <1>1, TellInvariance, PTL

\* Between frames the browsers have been told what the table holds.
THEOREM BrowsersFollowTable ==
  ASSUME "consume" \notin MayFail, "record" \notin MayFail
  PROVE  Spec => []BrowsersToldTable
<1>1. TellInv => BrowsersToldTable
  BY DEF TellInv, BrowsersToldTable
<1>2. QED
  BY <1>1, TellInvariance, PTL

=============================================================================
