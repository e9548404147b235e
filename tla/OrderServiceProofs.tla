------------------------- MODULE OrderServiceProofs -------------------------
(***************************************************************************)
(* Proofs about OrderService, for every set of tasks, users, instruments,  *)
(* prices and lots.                                                        *)
(***************************************************************************)
EXTENDS OrderService, TLAPS

-----------------------------------------------------------------------------
(* Type correctness.                                                       *)

LEMMA IntProduct == \A a, b \in Int : a * b \in Int
  OBVIOUS

\* The numbers in lots and in answered orders.
LEMMA LotInt == \A lot \in Lots : lot \in Int /\ lot > 0
  BY ConstantsAssumption

LEMMA PriceInt == ASSUME NEW o \in Order, o.price # None PROVE o.price \in Int
<1>1. o.price \in Prices
  BY DEF Order
<1>2. \A p \in Prices : p \in Int
  BY ConstantsAssumption
<1>3. QED
  BY <1>1, <1>2

\* A position keeps its shape through a trade, whatever its sign.
LEMMA TradedType ==
  ASSUME NEW e \in Entity, NEW o \in Order, o.price # None
  PROVE  /\ Traded(e, o) \in Entity
         /\ Traded(e, o).id = e.id
         /\ Written(Traded(e, o)) \in Position
<1>1. e.id \in Tasks /\ e.lot \in Lots /\ e.amount \in Int /\ e.balance \in Int
  BY DEF Entity
<1>2. e.lot \in Int /\ o.price \in Int
  BY <1>1, PriceInt, LotInt
<1>3. e.lot * o.price \in Int
  BY <1>2, IntProduct
<1>4. /\ e.amount + e.lot \in Int /\ e.amount - e.lot \in Int
      /\ e.balance + e.lot * o.price \in Int
      /\ e.balance - e.lot * o.price \in Int
  BY <1>1, <1>2, <1>3
<1>5. /\ Traded(e, o).id = e.id
      /\ Traded(e, o).lot = e.lot
      /\ Traded(e, o).amount \in Int
      /\ Traded(e, o).balance \in Int
      /\ Traded(e, o) \in Entity
  BY <1>1, <1>4 DEF Traded, Entity
<1>6. QED
  BY <1>1, <1>5 DEF Written, Position

LEMMA BookedType ==
  ASSUME NEW total \in Total, NEW lot \in Lots, NEW o \in Order, o.price # None
  PROVE  Booked(total, lot, o) \in Total
<1>1. lot \in Int /\ o.price \in Int /\ total.units \in Int /\ total.cash \in Int
  BY PriceInt, LotInt DEF Total
<1>2. lot * o.price \in Int
  BY <1>1, IntProduct
<1>3. QED
  BY <1>1, <1>2 DEF Booked, Total

LEMMA FreshType == ASSUME NEW lot \in Lots PROVE Fresh(lot) \in Position
  BY ConstantsAssumption DEF Fresh, Position

\* What the locals of a thread hold: a key while a price is being handled, an
\* entity and an order while a trade is being made, and the real price once the
\* service has answered.
LocalsOK ==
  \A t \in Tasks :
    /\ pc[t] \in {"read", "torn"} \cup TradeSteps => key[t] \in Instruments
    /\ pc[t] \in {"torn"} \cup TradeSteps =>
         entity[t] \in Entity /\ order[t] \in Order
    /\ pc[t] \in {"store", "apply", "torn", "publish"} => order[t].price # None

TypeInv == TypeOK /\ LocalsOK

LEMMA TypeInit == Init => TypeInv
<1> SUFFICES ASSUME Init PROVE TypeInv
  OBVIOUS
<1>1. TypeOK
  BY ConstantsAssumption DEF Init, TypeOK, NoPrices, PriceMap, Total, Steps
<1>2. LocalsOK
  BY DEF Init, LocalsOK, TradeSteps
<1>3. QED
  BY <1>1, <1>2 DEF TypeInv

\* One step per action of the specification.
LEMMA TypeStep == TypeInv /\ [Next]_vars => TypeInv'
<1> SUFFICES ASSUME TypeInv, [Next]_vars PROVE TypeInv'
  OBVIOUS
<1> USE DEF TypeInv, TypeOK, LocalsOK, Steps, SaveSteps, ListenSteps, TradeSteps,
            DeadSteps, save, locals, Goto
<1>1. ASSUME NEW i \in Instruments, NEW p \in Prices, SetPrice(i, p)
      PROVE  TypeInv'
  BY <1>1, ConstantsAssumption DEF SetPrice, PriceMap
<1>2. ASSUME NEW t \in Tasks, SaveRequest(t) PROVE TypeInv'
  BY <1>2 DEF SaveRequest
<1>3. ASSUME NEW t \in Tasks, NEW i \in Instruments, FindRow(t, i)
      PROVE  TypeInv'
  <2>1. ids' \in [Tasks -> [Instruments -> Tasks \cup {None}]]
    <3>1. CASE UNCHANGED ids
      BY <3>1
    <3>2. CASE \E s \in Matches(Owner[t], i) : ids' = [ids EXCEPT ![t][i] = s]
      BY <3>2 DEF Matches
    <3>3. QED
      BY <1>3, <3>1, <3>2 DEF FindRow
  <2>2. QED
    BY <1>3, <2>1 DEF FindRow
<1>4. ASSUME NEW t \in Tasks, CommitSave(t) PROVE TypeInv'
  <2>1. \A i \in Instruments :
          request[t][i] # None => Fresh(request[t][i]) \in Position
    BY FreshType
  <2>2. userInstruments' \in [Tasks -> [Instruments -> Position \cup {None}]]
    BY <1>4, <2>1 DEF CommitSave
  <2>3. QED
    BY <1>4, <2>2 DEF CommitSave
<1>5. ASSUME NEW t \in Tasks, Reply(t) PROVE TypeInv'
  <2>1. \A i \in Instruments :
          request[t][i] # None => Fresh(request[t][i]) \in Position
    BY FreshType
  <2>2. shown' \in [Tasks -> [Instruments -> Position \cup {None}]]
    BY <1>5, <2>1 DEF Reply
  <2>3. QED
    BY <1>5, <2>2 DEF Reply
<1>6. ASSUME NEW t \in Tasks, LoadReference(t) PROVE TypeInv'
  BY <1>6 DEF LoadReference
<1>7. ASSUME NEW t \in Tasks, AssignReference(t) PROVE TypeInv'
  BY <1>7 DEF AssignReference, NoPrices, PriceMap
<1>8. ASSUME NEW t \in Tasks, Poll(t) PROVE TypeInv'
  BY <1>8 DEF Poll
<1>9. ASSUME NEW t \in Tasks, NEW i \in Instruments, ReadReference(t, i)
      PROVE  TypeInv'
  BY <1>9 DEF ReadReference, PriceMap
<1>10. ASSUME NEW t \in Tasks, SkipUnowned(t) PROVE TypeInv'
  BY <1>10 DEF SkipUnowned, Return, NoPrices, PriceMap
<1>11. ASSUME NEW t \in Tasks, NEW s \in Tasks, StartTrade(t, s) PROVE TypeInv'
  <2>1. userInstruments[s][key[t]] \in Position
    BY <1>11 DEF StartTrade, Matches
  <2>2. Detached(s, userInstruments[s][key[t]]) \in Entity
    BY <2>1 DEF Detached, Entity, Position
  <2>3. [side |-> Decision(t, s), price |-> None] \in Order
    BY <1>11 DEF StartTrade, Decision, Order
  <2>4. QED
    BY <1>11, <2>2, <2>3 DEF StartTrade
<1>12. ASSUME NEW t \in Tasks, NEW s \in Tasks, SkipUnmoved(t, s) PROVE TypeInv'
  BY <1>12 DEF SkipUnmoved, Return, NoPrices, PriceMap
<1>13. ASSUME NEW t \in Tasks, NEW real \in Prices, AskService(t, real)
       PROVE  TypeInv'
  <2>1. /\ pc[t] = "ask" /\ order[t] \in Order /\ real # None
        /\ order' = [order EXCEPT ![t] = [order[t] EXCEPT !.price = real]]
        /\ pc' = [pc EXCEPT ![t] = "store"]
        /\ UNCHANGED <<currentPrices, moves, lastPrices, userInstruments, orders,
                       shown, replied, save, todo, snapshot, key, lastPrice, entity>>
    BY <1>13, NoneAssumption DEF AskService
  <2>2. /\ [order[t] EXCEPT !.price = real] \in Order
        /\ [order[t] EXCEPT !.price = real].price = real
    BY <2>1 DEF Order
  <2>3. TypeOK'
    BY <2>1, <2>2
  <2>4. LocalsOK'
    BY <2>1, <2>2
  <2>5. QED
    BY <2>3, <2>4
<1>14. ASSUME NEW t \in Tasks, StoreOrder(t) PROVE TypeInv'
  <2>1. Booked(orders[Owner[t]][key[t]], entity[t].lot, order[t]) \in Total
    <3>1. /\ pc[t] = "store" /\ Owner[t] \in Users /\ key[t] \in Instruments
          /\ entity[t] \in Entity /\ order[t] \in Order /\ order[t].price # None
      BY <1>14, ConstantsAssumption DEF StoreOrder
    <3>2. entity[t].lot \in Lots /\ orders[Owner[t]][key[t]] \in Total
      BY <3>1 DEF Entity
    <3>3. QED
      BY <3>1, <3>2, BookedType
  <2>2. orders' \in [Users -> [Instruments -> Total]]
    BY <1>14, <2>1 DEF StoreOrder
  <2>3. /\ pc[t] = "store" /\ pc' = [pc EXCEPT ![t] = "apply"]
        /\ UNCHANGED <<currentPrices, moves, lastPrices, userInstruments, shown,
                       replied, save, locals>>
    BY <1>14 DEF StoreOrder
  <2>4. QED
    BY <2>2, <2>3
<1>15. ASSUME NEW t \in Tasks, ApplyOrder(t) PROVE TypeInv'
  BY <1>15, TradedType DEF ApplyOrder, Stored, Entity
<1>16. ASSUME NEW t \in Tasks, Publish(t) PROVE TypeInv'
  BY <1>16 DEF Publish, Return, NoPrices, PriceMap, Written, Entity, Position
<1>17. ASSUME NEW t \in Tasks, Fail(t) PROVE TypeInv'
  BY <1>17 DEF Fail, FailAmbiguous, FailNoReference
<1>18. ASSUME NEW t \in Tasks, FailCall(t) PROVE TypeInv'
  BY <1>18 DEF FailCall
<1>19. CASE UNCHANGED vars
  BY <1>19 DEF vars
<1>20. QED
  BY <1>1, <1>2, <1>3, <1>4, <1>5, <1>6, <1>7, <1>8, <1>9, <1>10, <1>11, <1>12,
     <1>13, <1>14, <1>15, <1>16, <1>17, <1>18, <1>19 DEF Next, Save, Listen

LEMMA TypeInvariance == Spec => []TypeInv
  BY TypeInit, TypeStep, PTL DEF Spec

\* Every variable keeps its type, whatever the threads do to the position and
\* order tables and whichever call throws.
THEOREM TypeCorrect == Spec => []TypeOK
<1>1. TypeInv => TypeOK
  BY DEF TypeInv
<1>2. QED
  BY <1>1, TypeInvariance, PTL

-----------------------------------------------------------------------------
(* No short position.                                                      *)

\* A whole number of lots, as every pair of amount and lot in the table is.
Whole(lot, amount) == \E n \in Nat : amount = n * lot

\* The inductive invariant: all rows, and all entities on their way to a trade,
\* hold whole lots, and at least one lot when the trade is a sale.
WholeLots ==
  /\ \A t \in Tasks, i \in Instruments :
       userInstruments[t][i] # None =>
         Whole(userInstruments[t][i].lot, userInstruments[t][i].amount)
  /\ \A t \in Tasks :
       pc[t] \in {"ask", "store", "apply", "torn"} =>
         /\ Whole(entity[t].lot, entity[t].amount)
         /\ order[t].side = "SELL" => entity[t].amount # 0

LEMMA NextMultiple == \A n \in Int, lot \in Int : (n + 1) * lot = n * lot + lot
  OBVIOUS

LEMMA WholeNotNegative ==
  ASSUME NEW lot \in Lots, NEW amount \in Int, Whole(lot, amount)
  PROVE  amount >= 0
<1>1. PICK n \in Nat : amount = n * lot
  BY DEF Whole
<1>2. lot \in Nat
  BY LotInt
<1>3. \A a, b \in Nat : a * b >= 0
  OBVIOUS
<1>4. QED
  BY <1>1, <1>2, <1>3

\* A purchase adds a lot, and a sale takes one that is there.
LEMMA TradedWhole ==
  ASSUME NEW e \in Entity, NEW o \in Order, o.price # None,
         Whole(e.lot, e.amount),
         o.side = "SELL" => e.amount # 0
  PROVE  Whole(Traded(e, o).lot, Traded(e, o).amount)
<1>1. e.lot \in Int /\ e.amount \in Int
  BY LotInt DEF Entity
<1>2. PICK n \in Nat : e.amount = n * e.lot
  BY DEF Whole
<1>3. /\ Traded(e, o).lot = e.lot
      /\ Traded(e, o).amount = IF o.side = "BUY" THEN e.amount + e.lot
                               ELSE e.amount - e.lot
  BY DEF Traded, Entity
<1>4. CASE o.side = "BUY"
  <2>1. (n + 1) * e.lot = n * e.lot + e.lot
    BY <1>1, NextMultiple
  <2>2. QED
    BY <1>2, <1>3, <1>4, <2>1 DEF Whole
<1>5. CASE o.side = "SELL"
  <2>1. e.amount # 0
    BY <1>5
  <2>2. n # 0
    BY <1>1, <1>2, <2>1
  <2>3. n - 1 \in Nat
    BY <2>2
  <2>4. ((n - 1) + 1) * e.lot = (n - 1) * e.lot + e.lot
    BY <1>1, <2>3, NextMultiple
  <2>5. (n - 1) * e.lot \in Int
    BY <1>1, <2>3, IntProduct
  <2>6. e.amount - e.lot = (n - 1) * e.lot
    BY <1>1, <1>2, <2>3, <2>4, <2>5
  <2>7. QED
    BY <1>3, <1>5, <2>3, <2>6 DEF Whole
<1>6. QED
  BY <1>4, <1>5 DEF Order

LEMMA FreshWhole ==
  ASSUME LotsDivide, NEW lot \in Lots
  PROVE  Whole(Fresh(lot).lot, Fresh(lot).amount)
  BY DEF LotsDivide, Fresh, Whole

LEMMA WholeInit == Init => WholeLots
  BY DEF Init, WholeLots

LEMMA WholeStep ==
  ASSUME LotsDivide
  PROVE  TypeInv /\ TypeInv' /\ WholeLots /\ [Next]_vars => WholeLots'
<1> SUFFICES ASSUME TypeInv, TypeInv', WholeLots, [Next]_vars PROVE WholeLots'
  OBVIOUS
<1> USE DEF TypeInv, TypeOK, WholeLots, Goto, locals
<1>1. ASSUME NEW i \in Instruments, NEW p \in Prices, SetPrice(i, p)
      PROVE  WholeLots'
  BY <1>1 DEF SetPrice
<1>2. ASSUME NEW t \in Tasks, SaveRequest(t) PROVE WholeLots'
  BY <1>2 DEF SaveRequest
<1>3. ASSUME NEW t \in Tasks, NEW i \in Instruments, FindRow(t, i)
      PROVE  WholeLots'
  BY <1>3 DEF FindRow
<1>4. ASSUME NEW t \in Tasks, CommitSave(t) PROVE WholeLots'
  <2>1. \A i \in Instruments :
          request[t][i] # None =>
            Whole(Fresh(request[t][i]).lot, Fresh(request[t][i]).amount)
    BY FreshWhole
  <2>2. \A s \in Tasks, i \in Instruments :
          userInstruments'[s][i] =
            IF request[t][i] # None /\ s = TargetRow(t, i)
            THEN Fresh(request[t][i]) ELSE userInstruments[s][i]
    BY <1>4 DEF CommitSave
  <2>3. \A s \in Tasks, i \in Instruments :
          userInstruments'[s][i] # None =>
            Whole(userInstruments'[s][i].lot, userInstruments'[s][i].amount)
    BY <2>1, <2>2
  <2>4. QED
    BY <1>4, <2>3 DEF CommitSave
<1>5. ASSUME NEW t \in Tasks, Reply(t) PROVE WholeLots'
  BY <1>5 DEF Reply
<1>6. ASSUME NEW t \in Tasks, LoadReference(t) PROVE WholeLots'
  BY <1>6 DEF LoadReference
<1>7. ASSUME NEW t \in Tasks, AssignReference(t) PROVE WholeLots'
  BY <1>7 DEF AssignReference
<1>8. ASSUME NEW t \in Tasks, Poll(t) PROVE WholeLots'
  BY <1>8 DEF Poll
<1>9. ASSUME NEW t \in Tasks, NEW i \in Instruments, ReadReference(t, i)
      PROVE  WholeLots'
  BY <1>9 DEF ReadReference
<1>10. ASSUME NEW t \in Tasks, SkipUnowned(t) PROVE WholeLots'
  BY <1>10 DEF SkipUnowned, Return
<1>11. ASSUME NEW t \in Tasks, NEW s \in Tasks, StartTrade(t, s)
       PROVE  WholeLots'
  <2> DEFINE row == userInstruments[s][key[t]]
  <2>1. row \in Position
    BY <1>11 DEF StartTrade, Matches, LocalsOK
  <2>2. Whole(row.lot, row.amount)
    BY <1>11, <2>1, NoneAssumption DEF StartTrade, LocalsOK
  <2>3. /\ entity'[t] = Detached(s, row)
        /\ order'[t].side = Decision(t, s)
    BY <1>11 DEF StartTrade
  <2>4. Decision(t, s) = "SELL" => row.amount # 0
    BY <1>11 DEF StartTrade, Decision, ShouldSell
  <2>5. Whole(entity'[t].lot, entity'[t].amount)
    BY <2>2, <2>3 DEF Detached
  <2>6. order'[t].side = "SELL" => entity'[t].amount # 0
    BY <2>3, <2>4 DEF Detached
  <2>7. \A r \in Tasks \ {t} : /\ pc'[r] = pc[r]
                               /\ entity'[r] = entity[r]
                               /\ order'[r] = order[r]
    BY <1>11 DEF StartTrade
  <2>8. QED
    BY <1>11, <2>5, <2>6, <2>7 DEF StartTrade
<1>12. ASSUME NEW t \in Tasks, NEW s \in Tasks, SkipUnmoved(t, s)
       PROVE  WholeLots'
  BY <1>12 DEF SkipUnmoved, Return
<1>13. ASSUME NEW t \in Tasks, NEW real \in Prices, AskService(t, real)
       PROVE  WholeLots'
  BY <1>13 DEF AskService, LocalsOK, TradeSteps, Order
<1>14. ASSUME NEW t \in Tasks, StoreOrder(t) PROVE WholeLots'
  BY <1>14 DEF StoreOrder
<1>15. ASSUME NEW t \in Tasks, ApplyOrder(t) PROVE WholeLots'
  <2> DEFINE e == Traded(entity[t], order[t])
  <2>1. /\ entity[t] \in Entity /\ order[t] \in Order
        /\ order[t].price # None
    BY <1>15 DEF ApplyOrder, LocalsOK, TradeSteps
  <2>2. Whole(e.lot, e.amount)
    BY <1>15, <2>1, TradedWhole DEF ApplyOrder
  <2>3. \A s \in Tasks, i \in Instruments :
          \/ userInstruments'[s][i] = userInstruments[s][i]
          \/ userInstruments'[s][i] = Written(e)
    BY <1>15 DEF ApplyOrder, Stored
  <2>4. Written(e).lot = e.lot /\ Written(e).amount = e.amount
    BY DEF Written
  <2>5. \A s \in Tasks, i \in Instruments :
          userInstruments'[s][i] # None =>
            Whole(userInstruments'[s][i].lot, userInstruments'[s][i].amount)
    <3> HIDE DEF e
    <3>1. QED
      BY <2>2, <2>3, <2>4
  <2>6. QED
    BY <1>15, <2>5 DEF ApplyOrder
<1>16. ASSUME NEW t \in Tasks, Publish(t) PROVE WholeLots'
  BY <1>16 DEF Publish, Return
<1>17. ASSUME NEW t \in Tasks, Fail(t) PROVE WholeLots'
  BY <1>17 DEF Fail, FailAmbiguous, FailNoReference
<1>18. ASSUME NEW t \in Tasks, FailCall(t) PROVE WholeLots'
  BY <1>18 DEF FailCall, SaveSteps
<1>19. CASE UNCHANGED vars
  BY <1>19 DEF vars
<1>20. QED
  BY <1>1, <1>2, <1>3, <1>4, <1>5, <1>6, <1>7, <1>8, <1>9, <1>10, <1>11, <1>12,
     <1>13, <1>14, <1>15, <1>16, <1>17, <1>18, <1>19 DEF Next, Save, Listen

LEMMA WholeInvariance == ASSUME LotsDivide PROVE Spec => []WholeLots
  BY WholeInit, WholeStep, TypeInvariance, PTL DEF Spec

\* When every lot divides the amount a position starts with, no position is ever
\* stored short, however many listeners work on it.
THEOREM NeverShort == ASSUME LotsDivide PROVE Spec => []NoShortPosition
<1>1. TypeInv /\ WholeLots => NoShortPosition
  BY WholeNotNegative DEF TypeInv, TypeOK, WholeLots, NoShortPosition, Position
<1>2. QED
  BY <1>1, TypeInvariance, WholeInvariance, PTL

-----------------------------------------------------------------------------
(* The shipped schema.                                                     *)

\* Where the table refuses every order, no listener gets past its insert, and the rows
\* are as saves have left them.
Untraded ==
  ~OrderInsertable =>
    /\ \A t \in Tasks : pc[t] # "apply"
    /\ \A t \in Tasks, i \in Instruments :
         userInstruments[t][i] # None =>
           \E lot \in Lots : userInstruments[t][i] = Fresh(lot)

LEMMA UntradedInit == Init => Untraded
  BY DEF Init, Untraded

LEMMA UntradedStep == TypeInv /\ TypeInv' /\ Untraded /\ [Next]_vars => Untraded'
<1> SUFFICES ASSUME TypeInv, TypeInv', Untraded, [Next]_vars PROVE Untraded'
  OBVIOUS
<1> USE DEF TypeInv, TypeOK, Untraded, Goto, locals
<1>1. ASSUME NEW i \in Instruments, NEW p \in Prices, SetPrice(i, p)
      PROVE  Untraded'
  BY <1>1 DEF SetPrice
<1>2. ASSUME NEW t \in Tasks, SaveRequest(t) PROVE Untraded'
  BY <1>2 DEF SaveRequest
<1>3. ASSUME NEW t \in Tasks, NEW i \in Instruments, FindRow(t, i)
      PROVE  Untraded'
  BY <1>3 DEF FindRow
<1>4. ASSUME NEW t \in Tasks, CommitSave(t) PROVE Untraded'
  <2>1. \A i \in Instruments : request[t][i] # None => request[t][i] \in Lots
    BY <1>4
  <2>2. \A s \in Tasks, i \in Instruments :
          userInstruments'[s][i] =
            IF request[t][i] # None /\ s = TargetRow(t, i)
            THEN Fresh(request[t][i]) ELSE userInstruments[s][i]
    BY <1>4 DEF CommitSave
  <2>3. ASSUME ~OrderInsertable, NEW s \in Tasks, NEW i \in Instruments,
               userInstruments'[s][i] # None
        PROVE  \E lot \in Lots : userInstruments'[s][i] = Fresh(lot)
    <3>1. CASE request[t][i] # None /\ s = TargetRow(t, i)
      <4>1. request[t][i] \in Lots /\ userInstruments'[s][i] = Fresh(request[t][i])
        BY <2>1, <2>2, <3>1
      <4>2. QED
        BY <4>1, Zenon
    <3>2. CASE ~(request[t][i] # None /\ s = TargetRow(t, i))
      <4>1. userInstruments'[s][i] = userInstruments[s][i]
        BY <2>2, <3>2
      <4>2. QED
        BY <2>3, <4>1, Zenon
    <3>3. QED
      BY <3>1, <3>2
  <2>4. ASSUME ~OrderInsertable PROVE \A s \in Tasks : pc'[s] # "apply"
    BY <1>4, <2>4 DEF CommitSave
  <2>5. QED
    <3> HIDE DEF TypeInv, TypeOK
    <3>1. QED
      BY <2>3, <2>4
<1>5. ASSUME NEW t \in Tasks, Reply(t) PROVE Untraded'
  BY <1>5 DEF Reply
<1>6. ASSUME NEW t \in Tasks, LoadReference(t) PROVE Untraded'
  BY <1>6 DEF LoadReference
<1>7. ASSUME NEW t \in Tasks, AssignReference(t) PROVE Untraded'
  BY <1>7 DEF AssignReference
<1>8. ASSUME NEW t \in Tasks, Poll(t) PROVE Untraded'
  BY <1>8 DEF Poll
<1>9. ASSUME NEW t \in Tasks, NEW i \in Instruments, ReadReference(t, i)
      PROVE  Untraded'
  BY <1>9 DEF ReadReference
<1>10. ASSUME NEW t \in Tasks, SkipUnowned(t) PROVE Untraded'
  BY <1>10 DEF SkipUnowned, Return
<1>11. ASSUME NEW t \in Tasks, NEW s \in Tasks, StartTrade(t, s)
       PROVE  Untraded'
  BY <1>11 DEF StartTrade
<1>12. ASSUME NEW t \in Tasks, NEW s \in Tasks, SkipUnmoved(t, s)
       PROVE  Untraded'
  BY <1>12 DEF SkipUnmoved, Return
<1>13. ASSUME NEW t \in Tasks, NEW real \in Prices, AskService(t, real)
       PROVE  Untraded'
  BY <1>13 DEF AskService
<1>14. ASSUME NEW t \in Tasks, StoreOrder(t) PROVE Untraded'
  BY <1>14 DEF StoreOrder
<1>15. ASSUME NEW t \in Tasks, ApplyOrder(t) PROVE Untraded'
  BY <1>15 DEF ApplyOrder
<1>16. ASSUME NEW t \in Tasks, Publish(t) PROVE Untraded'
  BY <1>16 DEF Publish, Return
<1>17. ASSUME NEW t \in Tasks, Fail(t) PROVE Untraded'
  BY <1>17 DEF Fail, FailAmbiguous, FailNoReference
<1>18. ASSUME NEW t \in Tasks, FailCall(t) PROVE Untraded'
  BY <1>18 DEF FailCall, SaveSteps
<1>19. CASE UNCHANGED vars
  BY <1>19 DEF vars
<1>20. QED
  BY <1>1, <1>2, <1>3, <1>4, <1>5, <1>6, <1>7, <1>8, <1>9, <1>10, <1>11, <1>12,
     <1>13, <1>14, <1>15, <1>16, <1>17, <1>18, <1>19 DEF Next, Save, Listen

\* With a table that refuses every order, as the shipped one does, whatever listeners
\* try leaves every position at the amount it was saved with.
THEOREM RefusalsLeaveNoTrace == Spec => []RefusedOrderLeavesPosition
<1>1. Untraded => RefusedOrderLeavesPosition
  <2>1. \A lot \in Lots : Fresh(Fresh(lot).lot) = Fresh(lot)
    BY DEF Fresh
  <2>2. QED
    BY <2>1 DEF Untraded, RefusedOrderLeavesPosition
<1>2. Spec => []Untraded
  BY UntradedInit, UntradedStep, TypeInvariance, PTL DEF Spec
<1>3. QED
  BY <1>1, <1>2, PTL

-----------------------------------------------------------------------------
(* Users who wait for one save before the next.                            *)

Disciplined == Serial /\ PricesFirst /\ MayFail = {} /\ OrderInsertable

\* Of the saves of one user at most one is pending.
SavesApart ==
  \A s, t \in Tasks :
    (Owner[s] = Owner[t] /\ pc[s] \in SaveSteps /\ pc[t] \in SaveSteps) => s = t

\* A user has one row for an instrument.  A pending save has looked up the positions
\* it no longer has to visit, and what it found is still so: nobody else writes rows
\* of this user.  A listener that trades holds the entity of a row that exists.
RowsUnique == \A u \in Users, i \in Instruments : ~Ambiguous(u, i)

LookedUp(t, i) ==
  IF Matches(Owner[t], i) = {} THEN ids[t][i] = None
  ELSE ids[t][i] \in Matches(Owner[t], i)

RowsFound ==
  \A t \in Tasks, i \in Instruments :
    /\ pc[t] = "idle" \/ (pc[t] = "find" /\ i \in todo[t]) => ids[t][i] = None
    /\ pc[t] = "commit" => todo[t] = {}
    /\ (pc[t] \in SaveSteps /\ i \notin todo[t] /\ request[t][i] # None) => LookedUp(t, i)

RowsHeld ==
  \A t \in Tasks :
    pc[t] \in TradeSteps => userInstruments[entity[t].id][key[t]] # None

\* Once somebody has saved every price is known, and so is every reference once a
\* listener has got past its start.
PricesKnown ==
  /\ \A t \in Tasks : pc[t] # "idle" => \A i \in Instruments : currentPrices[i] # None
  /\ \A t \in Tasks :
       pc[t] \in ListenSteps \ {"load", "poll"} => \A i \in Instruments : snapshot[t][i] # None
  /\ \A t \in Tasks :
       pc[t] \in ListenSteps \ {"load", "assign"} =>
         \A i \in Instruments : lastPrices[i] # None
  /\ \A t \in Tasks : pc[t] = "read" => lastPrice[t] # None

Alive == \A t \in Tasks : pc[t] \notin DeadSteps

\* The inductive invariant.
SurvivalInv == SavesApart /\ RowsUnique /\ RowsFound /\ RowsHeld /\ PricesKnown /\ Alive

LEMMA SurvivalInit == Init => SurvivalInv
<1> SUFFICES ASSUME Init PROVE SurvivalInv
  OBVIOUS
<1>1. SavesApart /\ RowsFound /\ RowsHeld /\ PricesKnown /\ Alive
  BY DEF Init, SavesApart, RowsFound, RowsHeld, PricesKnown, Alive, SaveSteps, TradeSteps,
         ListenSteps, DeadSteps
<1>2. RowsUnique
  BY DEF Init, RowsUnique, Ambiguous, Matches
<1>3. QED
  BY <1>1, <1>2 DEF SurvivalInv

\* There is nothing to fail of.
LEMMA NothingFails ==
  ASSUME Disciplined, TypeInv, SurvivalInv, NEW t \in Tasks
  PROVE  ~Fail(t) /\ ~FailCall(t)
<1>1. Owner[t] \in Users
  BY ConstantsAssumption
<1>2. ~FailAmbiguous(t)
  <2>1. pc[t] = "read" => key[t] \in Instruments
    BY DEF TypeInv, LocalsOK
  <2>2. todo[t] \subseteq Instruments
    BY DEF TypeInv, TypeOK
  <2>3. QED
    BY <1>1, <2>1, <2>2 DEF FailAmbiguous, SurvivalInv, RowsUnique
<1>3. ~FailNoReference(t)
  BY DEF FailNoReference, SurvivalInv, PricesKnown
<1>4. ~FailCall(t)
  BY DEF FailCall, Disciplined
<1>5. QED
  BY <1>2, <1>3, <1>4 DEF Fail

\* A step that leaves the rows and what saves know of them alone.
LEMMA RowsFrame ==
  ASSUME RowsUnique, RowsFound, userInstruments' = userInstruments,
         ids' = ids, request' = request,
         \A t \in Tasks : \/ pc'[t] = pc[t] /\ todo'[t] = todo[t]
                          \/ pc'[t] \notin {"idle", "find", "commit"}
  PROVE  RowsUnique' /\ RowsFound'
<1>1. \A u, i : Matches(u, i)' = Matches(u, i)
  BY DEF Matches
<1>2. RowsUnique'
  BY <1>1 DEF RowsUnique, Ambiguous
<1>3. RowsFound'
  BY <1>1 DEF RowsFound, LookedUp, SaveSteps
<1>4. QED
  BY <1>2, <1>3

\* A step of a listener that writes no row.
LEMMA ListenFrame ==
  ASSUME TypeInv, SurvivalInv, NEW t \in Tasks, NEW step \in ListenSteps,
         pc[t] \in ListenSteps, pc' = [pc EXCEPT ![t] = step],
         \A s \in Tasks : s # t => todo'[s] = todo[s],
         UNCHANGED <<userInstruments, ids, request>>
  PROVE  SavesApart' /\ RowsUnique' /\ RowsFound' /\ Alive'
<1> USE DEF TypeInv, TypeOK, SurvivalInv
<1>1. SavesApart'
  BY DEF SavesApart, SaveSteps, ListenSteps
<1>2. Alive'
  BY DEF Alive, DeadSteps, ListenSteps
<1>3. \A s \in Tasks : \/ pc'[s] = pc[s] /\ todo'[s] = todo[s]
                       \/ pc'[s] \notin {"idle", "find", "commit"}
  BY DEF ListenSteps
<1>4. QED
  BY <1>1, <1>2, <1>3, RowsFrame

\* Saves and what they know.
LEMMA SavesStep ==
  ASSUME Disciplined, TypeInv, TypeInv', SurvivalInv, NEW t \in Tasks,
         SaveRequest(t) \/ Save(t)
  PROVE  SurvivalInv'
<1> USE DEF TypeInv, TypeOK, SurvivalInv, Goto, locals, save, SaveSteps, ListenSteps,
            TradeSteps, DeadSteps
<1>1. CASE SaveRequest(t)
  <2>1. SavesApart' /\ Alive' /\ RowsHeld' /\ PricesKnown'
    BY <1>1 DEF SaveRequest, Disciplined, SavesApart, Alive, RowsHeld, PricesKnown
  <2>2. \A u, i : Matches(u, i)' = Matches(u, i)
    BY <1>1 DEF SaveRequest, Matches
  <2>3. RowsUnique'
    BY <2>2 DEF RowsUnique, Ambiguous
  <2>4. RowsFound'
    <3>1. /\ pc[t] = "idle" /\ pc' = [pc EXCEPT ![t] = "find"] /\ ids' = ids
          /\ \A s \in Tasks \ {t} : todo'[s] = todo[s] /\ request'[s] = request[s]
          /\ \A i \in Instruments : i \notin todo'[t] => request'[t][i] = None
      BY <1>1 DEF SaveRequest
    <3>2. \A s \in Tasks, i \in Instruments : LookedUp(s, i)' = LookedUp(s, i)
      BY <2>2, <3>1 DEF LookedUp
    <3>3. QED
      BY <3>1, <3>2 DEF RowsFound
  <2>5. QED
    BY <2>1, <2>3, <2>4
<1>2. ASSUME NEW i \in Instruments, FindRow(t, i) PROVE SurvivalInv'
  <2>1. SavesApart' /\ Alive' /\ RowsHeld' /\ PricesKnown'
    BY <1>2 DEF FindRow, SavesApart, Alive, RowsHeld, PricesKnown
  <2>2. \A u, j : Matches(u, j)' = Matches(u, j)
    BY <1>2 DEF FindRow, Matches
  <2>3. RowsUnique'
    BY <2>2 DEF RowsUnique, Ambiguous
  <2>4. LookedUp(t, i)' /\ \A s \in Tasks, j \in Instruments :
          (s # t \/ j # i) => LookedUp(s, j)' = LookedUp(s, j) /\ ids'[s][j] = ids[s][j]
    <3>1. pc[t] = "find" /\ i \in todo[t] /\ ids[t][i] = None
      BY <1>2 DEF FindRow, RowsFound
    <3>2. CASE Matches(Owner[t], i) = {} /\ ids' = ids
      BY <2>2, <3>1, <3>2 DEF LookedUp
    <3>3. ASSUME NEW s \in Matches(Owner[t], i), ids' = [ids EXCEPT ![t][i] = s]
          PROVE  <2>4!1 /\ <2>4!2
      BY <2>2, <3>1, <3>3 DEF LookedUp
    <3>4. QED
      BY <1>2, <3>2, <3>3 DEF FindRow
  <2>5. RowsFound'
    BY <1>2, <2>4 DEF FindRow, RowsFound
  <2>6. QED
    BY <2>1, <2>3, <2>5
<1>3. CASE CommitSave(t)
  <2>1. SavesApart' /\ Alive' /\ PricesKnown'
    BY <1>3 DEF CommitSave, SavesApart, Alive, PricesKnown
  <2>2. \A s \in Tasks, i \in Instruments :
          userInstruments'[s][i] = IF request[t][i] # None /\ s = TargetRow(t, i)
                                   THEN Fresh(request[t][i]) ELSE userInstruments[s][i]
    BY <1>3 DEF CommitSave
  <2>3. \A i \in Instruments : request[t][i] # None => LookedUp(t, i)
    BY <1>3 DEF CommitSave, RowsFound
  <2>4. \A i \in Instruments : request[t][i] # None => Fresh(request[t][i]) # None
    BY FreshType, NoneAssumption
  <2>5. \A u \in Users, i \in Instruments :
          \/ Matches(u, i)' = Matches(u, i)
          \/ u = Owner[t] /\ Matches(u, i) = {} /\ Matches(u, i)' = {t}
    <3> SUFFICES ASSUME NEW u \in Users, NEW i \in Instruments
                 PROVE  \/ Matches(u, i)' = Matches(u, i)
                        \/ u = Owner[t] /\ Matches(u, i) = {} /\ Matches(u, i)' = {t}
      OBVIOUS
    <3>1. CASE request[t][i] = None
      BY <2>2, <3>1 DEF Matches
    <3>2. CASE request[t][i] # None /\ Matches(Owner[t], i) = {}
      <4>1. TargetRow(t, i) = t
        BY <2>3, <3>2 DEF LookedUp, TargetRow
      <4>2. \A s \in Tasks : userInstruments'[s][i] # None
                              <=> s = t \/ userInstruments[s][i] # None
        BY <2>2, <2>4, <3>2, <4>1
      <4>3. QED
        BY <3>2, <4>2 DEF Matches
    <3>3. CASE request[t][i] # None /\ Matches(Owner[t], i) # {}
      <4>1. TargetRow(t, i) \in Matches(Owner[t], i)
        BY <2>3, <3>3, NoneAssumption DEF LookedUp, TargetRow, Matches
      <4>2. \A s \in Tasks : userInstruments'[s][i] # None <=> userInstruments[s][i] # None
        BY <2>2, <2>4, <3>3, <4>1 DEF Matches
      <4>3. QED
        BY <4>2 DEF Matches
    <3>4. QED
      BY <3>1, <3>2, <3>3
  <2>6. RowsUnique'
    <3>1. \A u \in Users, i \in Instruments :
            \A r, s \in Matches(u, i) : r = s
      BY DEF RowsUnique, Ambiguous
    <3>2. ASSUME NEW u \in Users, NEW i \in Instruments
          PROVE  \A r, s \in Matches(u, i)' : r = s
      <4>1. CASE Matches(u, i)' = Matches(u, i)
        BY <3>1, <4>1
      <4>2. CASE Matches(u, i)' = {t}
        BY <4>2
      <4>3. QED
        BY <2>5, <4>1, <4>2
    <3>3. QED
      BY <3>2 DEF RowsUnique, Ambiguous
  <2>7. RowsFound'
    <3>1. /\ pc[t] = "commit" /\ pc' = [pc EXCEPT ![t] = "load"]
          /\ UNCHANGED <<ids, request, todo>>
      BY <1>3 DEF CommitSave
    <3>2. ASSUME NEW s \in Tasks, NEW i \in Instruments, pc'[s] \in SaveSteps,
                 LookedUp(s, i)
          PROVE  LookedUp(s, i)'
      <4>1. Owner[s] # Owner[t] /\ Owner[s] \in Users
        BY <3>1, <3>2, ConstantsAssumption DEF SavesApart
      <4>2. Matches(Owner[s], i)' = Matches(Owner[s], i)
        BY <2>5, <4>1
      <4>3. QED
        BY <3>1, <3>2, <4>2 DEF LookedUp
    <3>3. \A s \in Tasks : pc'[s] \in SaveSteps \cup {"idle"} => pc'[s] = pc[s]
      BY <3>1
    <3>4. QED
      BY <3>1, <3>2, <3>3 DEF RowsFound
  <2>8. RowsHeld'
    BY <1>3, <2>2, <2>4 DEF CommitSave, RowsHeld, LocalsOK, Entity
  <2>9. QED
    BY <2>1, <2>6, <2>7, <2>8
<1>4. CASE Reply(t)
  <2>1. SavesApart' /\ Alive' /\ RowsHeld' /\ PricesKnown'
    BY <1>4 DEF Reply, SavesApart, Alive, RowsHeld, PricesKnown
  <2>2. QED
    BY <1>4, <2>1, RowsFrame DEF Reply
<1>5. QED
  BY <1>1, <1>2, <1>3, <1>4 DEF Save

\* A listener finds every price and every reference, and rows stay.
LEMMA ListenStep ==
  ASSUME Disciplined, TypeInv, TypeInv', SurvivalInv, NEW t \in Tasks, Listen(t)
  PROVE  SurvivalInv'
<1> USE DEF TypeInv, TypeOK, Goto, locals, save, ListenSteps, TradeSteps
<1>0. /\ SavesApart /\ RowsUnique /\ RowsFound /\ RowsHeld /\ PricesKnown /\ Alive
      /\ Owner[t] \in Users
  BY ConstantsAssumption DEF SurvivalInv
<1>1. CASE LoadReference(t)
  <2>1. RowsHeld' /\ PricesKnown'
    <3>1. /\ pc[t] = "load" /\ pc' = [pc EXCEPT ![t] = "assign"]
          /\ snapshot' = [snapshot EXCEPT ![t] = currentPrices]
          /\ UNCHANGED <<currentPrices, lastPrices, lastPrice, userInstruments, entity, key>>
      BY <1>1 DEF LoadReference
    <3>2. \A s \in Tasks : /\ pc'[s] = IF s = t THEN "assign" ELSE pc[s]
                           /\ snapshot'[s] = IF s = t THEN currentPrices ELSE snapshot[s]
      BY <3>1
    <3>3. RowsHeld'
      BY <1>0, <3>1, <3>2 DEF RowsHeld
    <3>4. PricesKnown'
      BY <1>0, <3>1, <3>2 DEF PricesKnown
    <3>5. QED
      BY <3>3, <3>4
  <2>2. QED
    BY <1>1, <2>1, ListenFrame DEF LoadReference, SurvivalInv
<1>2. CASE AssignReference(t)
  <2>1. RowsHeld' /\ PricesKnown'
    <3>1. /\ pc[t] = "assign" /\ pc' = [pc EXCEPT ![t] = "poll"]
          /\ lastPrices' = snapshot[t]
          /\ \A s \in Tasks \ {t} : snapshot'[s] = snapshot[s]
          /\ UNCHANGED <<currentPrices, lastPrice, userInstruments, entity, key>>
      BY <1>2 DEF AssignReference
    <3>2. RowsHeld'
      BY <1>0, <3>1 DEF RowsHeld
    <3>3. PricesKnown'
      <4>1. \A i \in Instruments : snapshot[t][i] # None
        BY <1>0, <3>1 DEF PricesKnown
      <4>2. \A s \in Tasks : pc'[s] = IF s = t THEN "poll" ELSE pc[s]
        BY <3>1
      <4>3. QED
        BY <1>0, <3>1, <4>1, <4>2 DEF PricesKnown
    <3>4. QED
      BY <3>2, <3>3
  <2>2. QED
    BY <1>2, <2>1, ListenFrame DEF AssignReference, SurvivalInv
<1>3. CASE Poll(t)
  <2>9. PICK p \in {"poll", "next"} : pc' = [pc EXCEPT ![t] = p]
    BY <1>3 DEF Poll
  <2>0. /\ pc[t] = "poll" /\ p \in ListenSteps
        /\ \A s \in Tasks : s # t => todo'[s] = todo[s]
        /\ UNCHANGED <<userInstruments, ids, request>>
    BY <1>3 DEF Poll
  <2>1. RowsHeld' /\ PricesKnown'
    <3>1. /\ snapshot' = [snapshot EXCEPT ![t] = currentPrices]
          /\ UNCHANGED <<currentPrices, lastPrices, lastPrice, userInstruments, entity, key>>
      BY <1>3 DEF Poll
    <3>5. \A s \in Tasks : /\ pc'[s] = IF s = t THEN p ELSE pc[s]
                           /\ snapshot'[s] = IF s = t THEN currentPrices ELSE snapshot[s]
      BY <2>9, <3>1
    <3>2. RowsHeld'
      BY <1>0, <2>0, <3>1, <3>5 DEF RowsHeld
    <3>3. PricesKnown'
      <4>1. \A i \in Instruments : currentPrices[i] # None /\ lastPrices[i] # None
        BY <1>0, <2>0 DEF PricesKnown
      <4>2. p # "read" /\ p # "idle"
        OBVIOUS
      <4>3. QED
        BY <1>0, <3>1, <3>5, <4>1, <4>2 DEF PricesKnown
    <3>4. QED
      BY <3>2, <3>3
  <2>2. QED
    <3>1. pc[t] \in ListenSteps
      BY <2>0
    <3>2. SavesApart' /\ RowsUnique' /\ RowsFound' /\ Alive'
      BY ONLY TypeInv, SurvivalInv, <2>9, <2>0, <3>1, ListenFrame
    <3>3. QED
      BY <2>1, <3>2 DEF SurvivalInv
<1>4. ASSUME NEW i \in Instruments, ReadReference(t, i) PROVE SurvivalInv'
  <2>1. RowsHeld' /\ PricesKnown'
    <3>1. /\ pc[t] = "next" /\ pc' = [pc EXCEPT ![t] = "read"]
          /\ lastPrice' = [lastPrice EXCEPT ![t] = lastPrices[i]]
          /\ key' = [key EXCEPT ![t] = i]
          /\ UNCHANGED <<currentPrices, lastPrices, snapshot, userInstruments, entity>>
      BY <1>4 DEF ReadReference
    <3>2. RowsHeld'
      BY <1>0, <3>1 DEF RowsHeld
    <3>3. PricesKnown'
      <4>1. lastPrice'[t] # None
        BY <1>0, <3>1 DEF PricesKnown
      <4>2. \A s \in Tasks : /\ pc'[s] = IF s = t THEN "read" ELSE pc[s]
                             /\ s # t => lastPrice'[s] = lastPrice[s]
        BY <3>1
      <4>3. QED
        BY <1>0, <3>1, <4>1, <4>2 DEF PricesKnown
    <3>4. QED
      BY <3>2, <3>3
  <2>2. QED
    BY <1>4, <2>1, ListenFrame DEF ReadReference, SurvivalInv
<1>5. ASSUME Return(t), pc[t] \in {"read", "publish"},
             UNCHANGED <<currentPrices, lastPrices, userInstruments, ids, request, todo>>
      PROVE  SurvivalInv'
  <2>1. RowsHeld' /\ PricesKnown'
    BY <1>0, <1>5 DEF Return, RowsHeld, PricesKnown
  <2>2. QED
    BY <1>5, <2>1, ListenFrame DEF Return, SurvivalInv
<1>6. CASE SkipUnowned(t)
  BY <1>5, <1>6 DEF SkipUnowned
<1>7. ASSUME NEW s \in Tasks, StartTrade(t, s) PROVE SurvivalInv'
  <2>1. RowsHeld' /\ PricesKnown'
    BY <1>0, <1>7 DEF StartTrade, RowsHeld, PricesKnown, Matches, Detached
  <2>2. QED
    BY <1>7, <2>1, ListenFrame DEF StartTrade, SurvivalInv
<1>8. ASSUME NEW s \in Tasks, SkipUnmoved(t, s) PROVE SurvivalInv'
  BY <1>5, <1>8 DEF SkipUnmoved
<1>9. ASSUME NEW real \in Prices, AskService(t, real) PROVE SurvivalInv'
  <2>1. RowsHeld' /\ PricesKnown'
    BY <1>0, <1>9 DEF AskService, RowsHeld, PricesKnown
  <2>2. QED
    BY <1>9, <2>1, ListenFrame DEF AskService, SurvivalInv
<1>10. CASE StoreOrder(t)
  <2>1. RowsHeld' /\ PricesKnown'
    BY <1>0, <1>10 DEF StoreOrder, RowsHeld, PricesKnown
  <2>2. QED
    BY <1>10, <2>1, ListenFrame DEF StoreOrder, SurvivalInv
<1>11. CASE ApplyOrder(t)
  <2> DEFINE e == Traded(entity[t], order[t])
  <2>1. /\ pc[t] = "apply" /\ key[t] \in Instruments
        /\ e \in Entity /\ e.id = entity[t].id /\ Written(e) \in Position
    BY <1>11, TradedType DEF ApplyOrder, LocalsOK
  <2>2. /\ pc' = [pc EXCEPT ![t] = "publish"]
        /\ entity' = [entity EXCEPT ![t] = e]
        /\ userInstruments' = [userInstruments EXCEPT ![e.id][key[t]] = Written(e)]
        /\ UNCHANGED <<currentPrices, lastPrices, ids, request, todo, snapshot, key,
                       lastPrice>>
    BY <1>11 DEF ApplyOrder, Stored
  <2> HIDE DEF e
  <2>3. userInstruments[e.id][key[t]] # None /\ e.id \in Tasks
    BY <1>0, <2>1 DEF RowsHeld, Entity
  <2>4. \A s \in Tasks, i \in Instruments :
          userInstruments'[s][i] # None <=> userInstruments[s][i] # None
    BY <2>1, <2>2, <2>3, NoneAssumption
  <2>5. \A u, i : i \in Instruments => Matches(u, i)' = Matches(u, i)
    BY <2>4 DEF Matches
  <2>6. RowsUnique'
    BY <1>0, <2>5 DEF RowsUnique, Ambiguous
  <2>7. RowsFound'
    <3>1. \A s \in Tasks, i \in Instruments : LookedUp(s, i)' = LookedUp(s, i)
      BY <2>2, <2>5 DEF LookedUp
    <3>2. \A s \in Tasks : pc'[s] = pc[s] \/ pc'[s] \notin {"idle"} \cup SaveSteps
      BY <2>2 DEF SaveSteps
    <3>3. QED
      BY <1>0, <2>2, <3>1, <3>2 DEF RowsFound, SaveSteps
  <2>8. RowsHeld'
    BY <1>0, <2>1, <2>2, <2>4 DEF RowsHeld, LocalsOK, Entity
  <2>9. SavesApart' /\ PricesKnown' /\ Alive'
    BY <1>0, <2>1, <2>2 DEF SavesApart, PricesKnown, Alive, SaveSteps, DeadSteps
  <2>10. QED
    BY <2>6, <2>7, <2>8, <2>9 DEF SurvivalInv
<1>12. CASE Publish(t)
  <2>1. RowsHeld' /\ PricesKnown'
    BY <1>0, <1>12 DEF Publish, Return, RowsHeld, PricesKnown
  <2>2. QED
    BY <1>12, <2>1, ListenFrame DEF Publish, Return, SurvivalInv
<1>13. QED
  BY <1>1, <1>2, <1>3, <1>4, <1>6, <1>7, <1>8, <1>9, <1>10, <1>11, <1>12 DEF Listen

LEMMA SurvivalStep ==
  ASSUME Disciplined
  PROVE  TypeInv /\ TypeInv' /\ SurvivalInv /\ [Next]_vars => SurvivalInv'
<1> SUFFICES ASSUME TypeInv, TypeInv', SurvivalInv, [Next]_vars PROVE SurvivalInv'
  OBVIOUS
<1>1. ASSUME NEW i \in Instruments, NEW p \in Prices, SetPrice(i, p)
      PROVE  SurvivalInv'
  <2>1. PricesKnown'
    BY <1>1, NoneAssumption DEF SetPrice, locals, SurvivalInv, PricesKnown, TypeInv, TypeOK,
                                PriceMap
  <2>2. SavesApart' /\ RowsHeld' /\ Alive'
    BY <1>1 DEF SetPrice, locals, SurvivalInv, SavesApart, RowsHeld, Alive
  <2>3. RowsUnique' /\ RowsFound'
    BY <1>1, RowsFrame DEF SetPrice, locals, save, SurvivalInv
  <2>4. QED
    BY <2>1, <2>2, <2>3 DEF SurvivalInv
<1>2. CASE UNCHANGED vars
  <2>1. SavesApart' /\ RowsHeld' /\ Alive' /\ PricesKnown'
    BY <1>2 DEF vars, locals, SurvivalInv, SavesApart, RowsHeld, Alive, PricesKnown
  <2>2. RowsUnique' /\ RowsFound'
    BY <1>2, RowsFrame DEF vars, locals, save, SurvivalInv
  <2>3. QED
    BY <2>1, <2>2 DEF SurvivalInv
<1>3. QED
  BY <1>1, <1>2, SavesStep, ListenStep, NothingFails DEF Next

\* Without a unique key the table keeps one row for each user and instrument, no save
\* is refused and no listener dies, if users wait for one save before the next, nobody
\* saves before all prices are known and no call fails.
THEOREM NobodyDies == ASSUME Disciplined PROVE Spec => []ListenersSurvive
<1>1. SurvivalInv => ListenersSurvive
  BY DEF SurvivalInv, Alive, RowsUnique, ListenersSurvive
<1>2. QED
  BY <1>1, SurvivalInit, SurvivalStep, TypeInvariance, PTL DEF Spec

-----------------------------------------------------------------------------
(* Trades and the reference.                                               *)

\* The order under way is the one the price read asks for, against the reference that
\* was looked up; and the reference is still that one if nobody else listens.
TradeHeld(t) ==
  pc[t] \in TradeSteps =>
    IF order[t].side = "SELL" THEN snapshot[t][key[t]] > lastPrice[t]
    ELSE snapshot[t][key[t]] < lastPrice[t]

ReferenceHeld(t) ==
  pc[t] \in {"read"} \cup TradeSteps => lastPrices[key[t]] = lastPrice[t]

ReferenceInv == \A t \in Tasks : TradeHeld(t) /\ (Tasks = {t} => ReferenceHeld(t))

LEMMA ReferenceInit == Init => ReferenceInv
  BY DEF Init, ReferenceInv, ReferenceHeld, TradeHeld, TradeSteps

\* What a task does.
Acts(t) == SaveRequest(t) \/ Save(t) \/ Listen(t) \/ Fail(t) \/ FailCall(t)

\* A step leaves the locals of every other task alone.
LEMMA OthersKeep ==
  ASSUME TypeInv, NEW s \in Tasks, Acts(s), NEW t \in Tasks, t # s
  PROVE  /\ pc'[t] = pc[t] /\ snapshot'[t] = snapshot[t] /\ key'[t] = key[t]
         /\ lastPrice'[t] = lastPrice[t] /\ order'[t] = order[t]
<1> USE DEF TypeInv, TypeOK, Goto, locals
<1>1. CASE SaveRequest(s)
  BY <1>1 DEF SaveRequest
<1>2. CASE Save(s)
  BY <1>2 DEF Save, FindRow, CommitSave, Reply
<1>3. CASE LoadReference(s) \/ AssignReference(s) \/ Poll(s)
  BY <1>3 DEF LoadReference, AssignReference, Poll
<1>4. CASE \E i \in Instruments : ReadReference(s, i)
  BY <1>4 DEF ReadReference
<1>5. CASE SkipUnowned(s) \/ (\E r \in Tasks : SkipUnmoved(s, r)) \/ Publish(s)
  BY <1>5 DEF SkipUnowned, SkipUnmoved, Publish, Return
<1>6. CASE \E r \in Tasks : StartTrade(s, r)
  BY <1>6 DEF StartTrade
<1>7. CASE (\E real \in Prices : AskService(s, real)) \/ StoreOrder(s) \/ ApplyOrder(s)
  BY <1>7 DEF AskService, StoreOrder, ApplyOrder
<1>8. CASE Fail(s) \/ FailCall(s)
  BY <1>8 DEF Fail, FailAmbiguous, FailNoReference, FailCall
<1>9. QED
  BY <1>1, <1>2, <1>3, <1>4, <1>5, <1>6, <1>7, <1>8 DEF Acts, Listen

\* A task holds on to its trade, and alone also to the reference.
LEMMA OwnReferenceStep ==
  ASSUME TypeInv, NEW t \in Tasks, TradeHeld(t), Tasks = {t} => ReferenceHeld(t), Acts(t)
  PROVE  TradeHeld(t)' /\ (Tasks = {t} => ReferenceHeld(t)')
<1> USE DEF TypeInv, TypeOK, TradeHeld, ReferenceHeld, TradeSteps, Goto, locals
<1>2. CASE SaveRequest(t)
  BY <1>2 DEF SaveRequest
<1>3. CASE Save(t)
  BY <1>3 DEF Save, FindRow, CommitSave, Reply, ListenSteps
<1>4. CASE LoadReference(t) \/ AssignReference(t) \/ Poll(t)
  BY <1>4 DEF LoadReference, AssignReference, Poll
<1>5. CASE \E i \in Instruments : ReadReference(t, i)
  BY <1>5 DEF ReadReference
<1>6. CASE SkipUnowned(t) \/ (\E s \in Tasks : SkipUnmoved(t, s)) \/ Publish(t)
  BY <1>6 DEF SkipUnowned, SkipUnmoved, Publish, Return
<1>7. ASSUME NEW s \in Tasks, StartTrade(t, s)
      PROVE  TradeHeld(t)' /\ (Tasks = {t} => ReferenceHeld(t)')
  <2>1. Decision(t, s) # None /\ Decision(t, s) \in {"SELL", "BUY"}
    BY <1>7 DEF StartTrade, Decision
  <2>2. /\ pc[t] = "read" /\ order'[t].side = Decision(t, s)
        /\ UNCHANGED <<lastPrices, snapshot, key, lastPrice>>
    BY <1>7 DEF StartTrade
  <2>3. IF Decision(t, s) = "SELL" THEN snapshot[t][key[t]] > lastPrice[t]
        ELSE snapshot[t][key[t]] < lastPrice[t]
    BY <2>1 DEF Decision, ShouldSell, ShouldBuy
  <2>4. QED
    BY <2>2, <2>3
<1>8. CASE (\E real \in Prices : AskService(t, real)) \/ StoreOrder(t) \/ ApplyOrder(t)
  BY <1>8 DEF AskService, StoreOrder, ApplyOrder, Order, LocalsOK
<1>9. CASE Fail(t) \/ FailCall(t)
  BY <1>9 DEF Fail, FailAmbiguous, FailNoReference, FailCall
<1>10. QED
  BY <1>2, <1>3, <1>4, <1>5, <1>6, <1>7, <1>8, <1>9 DEF Listen, Acts

LEMMA ReferenceStep == TypeInv /\ ReferenceInv /\ [Next]_vars => ReferenceInv'
<1> SUFFICES ASSUME TypeInv, ReferenceInv, [Next]_vars, NEW t \in Tasks
             PROVE  TradeHeld(t)' /\ (Tasks = {t} => ReferenceHeld(t)')
  BY DEF ReferenceInv
<1>0. TradeHeld(t) /\ (Tasks = {t} => ReferenceHeld(t))
  BY DEF ReferenceInv
<1>1. CASE \E i \in Instruments, p \in Prices : SetPrice(i, p)
  BY <1>0, <1>1 DEF SetPrice, locals, TradeHeld, ReferenceHeld
<1>2. CASE Acts(t)
  BY <1>0, <1>2, OwnReferenceStep
<1>3. ASSUME NEW s \in Tasks, Acts(s), s # t
      PROVE  TradeHeld(t)' /\ (Tasks = {t} => ReferenceHeld(t)')
  BY <1>0, <1>3, OthersKeep DEF TradeHeld
<1>4. CASE UNCHANGED vars
  BY <1>0, <1>4 DEF vars, locals, TradeHeld, ReferenceHeld
<1>5. QED
  BY <1>1, <1>2, <1>3, <1>4 DEF Next, Acts

\* Of a task's own steps only Publish ends a trade, and only it and the start of a
\* listener touch the reference.
LEMMA TradeEndsInPublish ==
  ASSUME TypeInv, NEW t \in Tasks, Acts(t)
  PROVE  /\ TradeEnds(t) <=> Publish(t)
         /\ lastPrices' # lastPrices => Publish(t) \/ AssignReference(t)
         /\ AssignReference(t) => ListenerStarts(t)
<1> USE DEF TypeInv, TypeOK, TradeEnds, TradeSteps, DeadSteps, Goto, locals
<1>1. CASE SaveRequest(t)
  BY <1>1 DEF SaveRequest, Publish, AssignReference
<1>2. CASE Save(t)
  BY <1>2 DEF Save, FindRow, CommitSave, Reply, ListenSteps, Publish, Return,
              AssignReference
<1>3. CASE LoadReference(t) \/ Poll(t)
  BY <1>3 DEF LoadReference, Poll, Publish, AssignReference
<1>4. CASE AssignReference(t)
  BY <1>4 DEF AssignReference, ListenerStarts, Publish
<1>5. CASE \E i \in Instruments : ReadReference(t, i)
  BY <1>5 DEF ReadReference, Publish, AssignReference
<1>6. CASE SkipUnowned(t) \/ (\E s \in Tasks : SkipUnmoved(t, s))
  BY <1>6 DEF SkipUnowned, SkipUnmoved, Publish, AssignReference
<1>7. CASE \E s \in Tasks : StartTrade(t, s)
  BY <1>7 DEF StartTrade, Publish, AssignReference
<1>8. CASE (\E real \in Prices : AskService(t, real)) \/ StoreOrder(t) \/ ApplyOrder(t)
  BY <1>8 DEF AskService, StoreOrder, ApplyOrder, Publish, AssignReference
<1>9. CASE Publish(t)
  BY <1>9 DEF Publish, Return, AssignReference
<1>10. CASE Fail(t) \/ FailCall(t)
  BY <1>10 DEF Fail, FailAmbiguous, FailNoReference, FailCall, Publish, Return,
               AssignReference, SaveSteps
<1>11. QED
  BY <1>1, <1>2, <1>3, <1>4, <1>5, <1>6, <1>7, <1>8, <1>9, <1>10 DEF Listen, Acts

\* However many listeners share it, the reference moves only when one of them starts or
\* gets through with a trade in that instrument, and then to a price in the direction
\* of the order, from the reference the trade was decided on; for a listener that is
\* alone that is the one still in place.
THEOREM ReferenceFollows == Spec => ReferenceFollowsTrades
<1> DEFINE
      Cause == \A i \in Instruments :
        lastPrices'[i] # lastPrices[i] =>
          \E t \in Tasks : ListenerStarts(t) \/ (TradeEnds(t) /\ key[t] = i)
      Put(t) ==
        /\ lastPrices'[key[t]] = snapshot[t][key[t]]
        /\ IF order[t].side = "SELL" THEN lastPrices'[key[t]] > lastPrice[t]
           ELSE lastPrices'[key[t]] < lastPrice[t]
        /\ Tasks = {t} => lastPrices[key[t]] = lastPrice[t]
      Effect == \A t \in Tasks : TradeEnds(t) => Put(t)
<1>1. TypeInv /\ ReferenceInv /\ [Next]_vars => [Cause /\ Effect]_vars
  <2> SUFFICES ASSUME TypeInv, ReferenceInv, Next PROVE Cause /\ Effect
    OBVIOUS
  <2>1. ASSUME NEW t \in Tasks, Publish(t)
        PROVE  /\ Put(t)
               /\ \A i \in Instruments : lastPrices'[i] # lastPrices[i] => key[t] = i
    <3>1. /\ pc[t] \in TradeSteps /\ key[t] \in Instruments
          /\ lastPrices' = [lastPrices EXCEPT ![key[t]] = snapshot[t][key[t]]]
      BY <2>1 DEF Publish, TradeSteps, TypeInv, LocalsOK
    <3>2. \A i \in Instruments :
            lastPrices'[i] = IF i = key[t] THEN snapshot[t][i] ELSE lastPrices[i]
      BY <3>1 DEF TypeInv, TypeOK, PriceMap
    <3>3. TradeHeld(t) /\ (Tasks = {t} => ReferenceHeld(t))
      BY DEF ReferenceInv
    <3>4. QED
      BY <3>1, <3>2, <3>3 DEF TradeHeld, ReferenceHeld
  <2>2. CASE \E i \in Instruments, p \in Prices : SetPrice(i, p)
    BY <2>2 DEF SetPrice, TradeEnds
  <2>3. ASSUME NEW s \in Tasks, Acts(s) PROVE Cause /\ Effect
    <3>1. /\ TradeEnds(s) <=> Publish(s)
          /\ lastPrices' # lastPrices => Publish(s) \/ AssignReference(s)
          /\ AssignReference(s) => ListenerStarts(s)
      BY <2>3, TradeEndsInPublish
    <3>2. \A t \in Tasks : TradeEnds(t) => t = s
      BY <2>3, OthersKeep DEF TradeEnds
    <3> HIDE DEF Put
    <3>3. Cause
      BY <2>1, <3>1
    <3>4. Effect
      BY <2>1, <3>1, <3>2
    <3>5. QED
      BY <3>3, <3>4
  <2>4. QED
    BY <2>2, <2>3 DEF Next, Acts
<1>2. QED
  BY <1>1, ReferenceInit, ReferenceStep, TypeInvariance, PTL DEF Spec, ReferenceFollowsTrades
=============================================================================
