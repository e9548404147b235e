------------------------- MODULE OrderLedgerProofs --------------------------
(***************************************************************************)
(* Proofs about OrderService: the positions of a user who saves once agree *)
(* with the orders stored for him, and never sell what he does not have.   *)
(***************************************************************************)
EXTENDS OrderServiceProofs

\* Steps a task passes before its positions are written.
Before == {"idle", "find", "commit", "refused"}

\* Steps at which the thread holds the entity of the row it trades.
Holding == {"ask", "store", "apply", "torn", "publish"}

\* A thread only ever learns the ids of its own user's rows.
OwnIds ==
  /\ \A t \in Tasks, i \in Instruments :
       ids[t][i] # None => Owner[ids[t][i]] = Owner[t]
  /\ \A t \in Tasks :
       pc[t] \in Holding => Owner[entity[t].id] = Owner[t]

\* What is known of the rows of a task that is alone with its user: they do not
\* exist before it commits, they have no orders before they exist, the entity the
\* thread holds is never stale, and they agree with the orders.
Ledger(t) ==
  /\ pc[t] \in Before => \A i \in Instruments : userInstruments[t][i] = None
  /\ \A i \in Instruments :
       IF userInstruments[t][i] = None
       THEN orders[Owner[t]][i] = [units |-> 0, cash |-> 0]
       ELSE Balanced(t, i)
  /\ pc[t] \in Holding =>
       /\ userInstruments[t][key[t]] # None
       /\ userInstruments[t][key[t]] = Written(entity[t])

LedgerInv == OwnIds /\ \A t \in Tasks : Sole(t) => Ledger(t)

-----------------------------------------------------------------------------
\* A trade changes a position and the totals of the orders alike.
LEMMA TradedMatchesBooked ==
  ASSUME NEW e \in Entity, NEW o \in Order, o.price # None, NEW total \in Total,
         e.amount = InitialAmount + total.units, e.balance = total.cash
  PROVE  /\ Traded(e, o).amount = InitialAmount + Booked(total, e.lot, o).units
         /\ Traded(e, o).balance = Booked(total, e.lot, o).cash
<1> DEFINE cost == e.lot * o.price
<1>1. /\ e.lot \in Int /\ e.amount \in Int /\ e.balance \in Int
      /\ total.units \in Int /\ total.cash \in Int /\ InitialAmount \in Int
  <2>1. e.lot \in Lots /\ e.amount \in Int /\ e.balance \in Int
    BY DEF Entity
  <2>2. total.units \in Int /\ total.cash \in Int
    BY DEF Total
  <2>3. e.lot \in Int
    BY <2>1, LotInt
  <2>4. InitialAmount \in Int
    BY ConstantsAssumption
  <2>5. QED
    BY <2>1, <2>2, <2>3, <2>4
<1>2. o.price \in Int
  BY PriceInt
<1>3. cost \in Int
  BY <1>1, <1>2, IntProduct
<1>4. /\ Traded(e, o).amount = IF o.side = "BUY" THEN e.amount + e.lot
                               ELSE e.amount - e.lot
      /\ Traded(e, o).balance = IF o.side = "BUY" THEN e.balance - cost
                                ELSE e.balance + cost
  BY DEF Traded, Entity
<1>5. /\ Booked(total, e.lot, o).units = IF o.side = "BUY" THEN total.units + e.lot
                                         ELSE total.units - e.lot
      /\ Booked(total, e.lot, o).cash = IF o.side = "BUY" THEN total.cash - cost
                                        ELSE total.cash + cost
  BY DEF Booked
<1>6. QED
  <2> HIDE DEF cost
  <2>1. QED
    BY <1>1, <1>3, <1>4, <1>5

\* A step that leaves a task, its rows and its user's orders alone.
LEMMA LedgerFrame ==
  ASSUME NEW t \in Tasks, Ledger(t),
         pc'[t] = pc[t], key'[t] = key[t], entity'[t] = entity[t],
         order'[t] = order[t], userInstruments'[t] = userInstruments[t],
         orders'[Owner[t]] = orders[Owner[t]]
  PROVE  Ledger(t)'
  BY DEF Ledger, Balanced, Unapplied

\* A step of the task itself that trades nothing.
LEMMA LedgerQuiet ==
  ASSUME NEW t \in Tasks, Ledger(t),
         pc[t] \notin {"apply", "torn"}, pc'[t] \notin Holding,
         pc'[t] \in Before => pc[t] \in Before,
         userInstruments'[t] = userInstruments[t],
         orders'[Owner[t]] = orders[Owner[t]]
  PROVE  Ledger(t)'
  BY DEF Ledger, Balanced, Unapplied, Holding

-----------------------------------------------------------------------------
LEMMA LedgerInit == Init => LedgerInv
<1> SUFFICES ASSUME Init PROVE LedgerInv
  OBVIOUS
<1>1. OwnIds
  BY DEF Init, OwnIds, Holding
<1>2. ASSUME NEW t \in Tasks PROVE Ledger(t)
  BY ConstantsAssumption DEF Init, Ledger, Holding
<1>3. QED
  BY <1>1, <1>2 DEF LedgerInv

\* Only FindRow and StartTrade learn ids, both from Matches.
LEMMA OwnIdsStep == TypeInv /\ OwnIds /\ [Next]_vars => OwnIds'
<1> SUFFICES ASSUME TypeInv, OwnIds, [Next]_vars PROVE OwnIds'
  OBVIOUS
<1> USE DEF TypeInv, TypeOK, OwnIds, Holding, Goto, locals, save
<1>1. ASSUME NEW i \in Instruments, NEW p \in Prices, SetPrice(i, p)
      PROVE  OwnIds'
  BY <1>1 DEF SetPrice
<1>2. ASSUME NEW t \in Tasks, SaveRequest(t) PROVE OwnIds'
  BY <1>2 DEF SaveRequest
<1>3. ASSUME NEW t \in Tasks, NEW i \in Instruments, FindRow(t, i)
      PROVE  OwnIds'
  <2>1. \A s \in Tasks, j \in Instruments :
          ids'[s][j] # ids[s][j] => Owner[ids'[s][j]] = Owner[s]
    <3>1. CASE UNCHANGED ids
      BY <3>1
    <3>2. ASSUME NEW r \in Matches(Owner[t], i), ids' = [ids EXCEPT ![t][i] = r]
          PROVE  \A s \in Tasks, j \in Instruments :
                   ids'[s][j] # ids[s][j] => Owner[ids'[s][j]] = Owner[s]
      BY <3>2 DEF Matches
    <3>3. QED
      BY <1>3, <3>1, <3>2 DEF FindRow
  <2>2. QED
    BY <1>3, <2>1 DEF FindRow
<1>4. ASSUME NEW t \in Tasks, CommitSave(t) PROVE OwnIds'
  BY <1>4 DEF CommitSave
<1>5. ASSUME NEW t \in Tasks, Reply(t) PROVE OwnIds'
  BY <1>5 DEF Reply
<1>6. ASSUME NEW t \in Tasks, LoadReference(t) PROVE OwnIds'
  BY <1>6 DEF LoadReference
<1>7. ASSUME NEW t \in Tasks, AssignReference(t) PROVE OwnIds'
  BY <1>7 DEF AssignReference
<1>8. ASSUME NEW t \in Tasks, Poll(t) PROVE OwnIds'
  BY <1>8 DEF Poll
<1>9. ASSUME NEW t \in Tasks, NEW i \in Instruments, ReadReference(t, i)
      PROVE  OwnIds'
  BY <1>9 DEF ReadReference
<1>10. ASSUME NEW t \in Tasks, SkipUnowned(t) PROVE OwnIds'
  BY <1>10 DEF SkipUnowned, Return
<1>11. ASSUME NEW t \in Tasks, NEW s \in Tasks, StartTrade(t, s) PROVE OwnIds'
  <2>1. entity'[t].id = s
    BY <1>11 DEF StartTrade, Detached
  <2>2. Owner[s] = Owner[t]
    BY <1>11 DEF StartTrade, Matches
  <2>3. QED
    BY <1>11, <2>1, <2>2 DEF StartTrade
<1>12. ASSUME NEW t \in Tasks, NEW s \in Tasks, SkipUnmoved(t, s) PROVE OwnIds'
  BY <1>12 DEF SkipUnmoved, Return
<1>13. ASSUME NEW t \in Tasks, NEW real \in Prices, AskService(t, real)
       PROVE  OwnIds'
  BY <1>13 DEF AskService
<1>14. ASSUME NEW t \in Tasks, StoreOrder(t) PROVE OwnIds'
  BY <1>14 DEF StoreOrder
<1>15. ASSUME NEW t \in Tasks, ApplyOrder(t) PROVE OwnIds'
  <2>1. Traded(entity[t], order[t]).id = entity[t].id
    BY <1>15, TradedType DEF ApplyOrder, LocalsOK, TradeSteps
  <2>2. QED
    BY <1>15, <2>1 DEF ApplyOrder
<1>16. ASSUME NEW t \in Tasks, Publish(t) PROVE OwnIds'
  BY <1>16 DEF Publish, Return
<1>17. ASSUME NEW t \in Tasks, Fail(t) PROVE OwnIds'
  <2>1. /\ \E p \in {"refused", "stopped"} : pc' = [pc EXCEPT ![t] = p]
        /\ UNCHANGED <<ids, entity>>
    BY <1>17 DEF Fail, FailAmbiguous, FailNoReference
  <2>2. QED
    BY <2>1
<1>18. ASSUME NEW t \in Tasks, FailCall(t) PROVE OwnIds'
  BY <1>18 DEF FailCall, SaveSteps
<1>19. CASE UNCHANGED vars
  BY <1>19 DEF vars
<1>20. QED
  BY <1>1, <1>2, <1>3, <1>4, <1>5, <1>6, <1>7, <1>8, <1>9, <1>10, <1>11, <1>12,
     <1>13, <1>14, <1>15, <1>16, <1>17, <1>18, <1>19 DEF Next, Save, Listen

\* One step per action.  A step of another task leaves the rows of t and the
\* orders of its user alone, for it knows only ids of its own user.
LEMMA LedgerStep ==
  TypeInv /\ TypeInv' /\ LedgerInv /\ [Next]_vars =>
    \A t \in Tasks : Sole(t) => Ledger(t)'
<1> SUFFICES ASSUME TypeInv, TypeInv', LedgerInv, [Next]_vars,
                    NEW t \in Tasks, Sole(t)
             PROVE  Ledger(t)'
  OBVIOUS
<1> USE DEF TypeInv, TypeOK, Goto, locals, save
<1>0. /\ Ledger(t)
      /\ \A s \in Tasks : Owner[s] = Owner[t] => s = t
  BY DEF LedgerInv, Sole
<1>1. ASSUME NEW i \in Instruments, NEW p \in Prices, SetPrice(i, p)
      PROVE  Ledger(t)'
  BY <1>0, <1>1, LedgerFrame DEF SetPrice
<1>2. ASSUME NEW s \in Tasks, SaveRequest(s) PROVE Ledger(t)'
  BY <1>0, <1>2, LedgerFrame, LedgerQuiet DEF SaveRequest, Before, Holding
<1>3. ASSUME NEW s \in Tasks, NEW i \in Instruments, FindRow(s, i)
      PROVE  Ledger(t)'
  BY <1>0, <1>3, LedgerFrame, LedgerQuiet DEF FindRow, Before, Holding
<1>4. ASSUME NEW s \in Tasks, CommitSave(s) PROVE Ledger(t)'
  <2>1. CASE s # t
    <3>1. \A i \in Instruments : TargetRow(s, i) # t
      <4>1. \A i \in Instruments : ids[s][i] # None => Owner[ids[s][i]] # Owner[t]
        BY <1>0, <2>1 DEF LedgerInv, OwnIds
      <4>2. QED
        BY <2>1, <4>1 DEF TargetRow
    <3>2. userInstruments'[t] = userInstruments[t]
      BY <1>4, <3>1 DEF CommitSave
    <3>3. QED
      BY <1>0, <1>4, <2>1, <3>2, LedgerFrame DEF CommitSave
  <2>2. CASE s = t
    <3>1. pc[t] \in Before /\ pc'[t] = "load"
      BY <1>4, <2>2 DEF CommitSave, Before
    <3>2. \A i \in Instruments :
            /\ userInstruments[t][i] = None
            /\ orders[Owner[t]][i] = [units |-> 0, cash |-> 0]
      BY <1>0, <3>1 DEF Ledger
    <3>3. \A i \in Instruments :
            userInstruments'[t][i] \in {None, Fresh(request[t][i])}
      BY <1>4, <2>2, <3>2 DEF CommitSave
    <3>4. orders' = orders
      BY <1>4 DEF CommitSave
    <3>5. \A i \in Instruments :
            userInstruments'[t][i] = Fresh(request[t][i]) => Balanced(t, i)'
      BY <3>1, <3>2, <3>4, ConstantsAssumption
      DEF Balanced, Unapplied, Fresh
    <3>6. QED
      BY <3>1, <3>2, <3>3, <3>4, <3>5 DEF Ledger, Before, Holding
  <2>3. QED
    BY <2>1, <2>2
<1>5. ASSUME NEW s \in Tasks, Reply(s) PROVE Ledger(t)'
  BY <1>0, <1>5, LedgerFrame DEF Reply
<1>6. ASSUME NEW s \in Tasks, LoadReference(s) PROVE Ledger(t)'
  BY <1>0, <1>6, LedgerFrame, LedgerQuiet DEF LoadReference, Before, Holding
<1>7. ASSUME NEW s \in Tasks, AssignReference(s) PROVE Ledger(t)'
  BY <1>0, <1>7, LedgerFrame, LedgerQuiet DEF AssignReference, Before, Holding
<1>8. ASSUME NEW s \in Tasks, Poll(s) PROVE Ledger(t)'
  <2>1. /\ pc[s] = "poll"
        /\ \E p \in {"poll", "next"} : pc' = [pc EXCEPT ![s] = p]
        /\ UNCHANGED <<key, entity, order, userInstruments, orders>>
    BY <1>8 DEF Poll
  <2>2. CASE s # t
    BY <1>0, <2>1, <2>2, LedgerFrame
  <2>3. CASE s = t
    BY <1>0, <2>1, <2>3, LedgerQuiet DEF Before, Holding
  <2>4. QED
    BY <2>2, <2>3
<1>9. ASSUME NEW s \in Tasks, NEW i \in Instruments, ReadReference(s, i)
      PROVE  Ledger(t)'
  <2>1. /\ pc[s] = "next" /\ pc' = [pc EXCEPT ![s] = "read"]
        /\ key' = [key EXCEPT ![s] = i]
        /\ UNCHANGED <<entity, order, userInstruments, orders>>
    BY <1>9 DEF ReadReference
  <2>2. CASE s # t
    BY <1>0, <2>1, <2>2, LedgerFrame
  <2>3. CASE s = t
    BY <1>0, <2>1, <2>3, LedgerQuiet DEF Before, Holding
  <2>4. QED
    BY <2>2, <2>3
<1>10. ASSUME NEW s \in Tasks, SkipUnowned(s) PROVE Ledger(t)'
  <2>1. /\ pc[s] = "read" /\ pc' = [pc EXCEPT ![s] = IF todo[s] = {} THEN "poll" ELSE "next"]
        /\ userInstruments' = userInstruments /\ orders' = orders
    BY <1>10 DEF SkipUnowned, Return
  <2>2. CASE s # t
    BY <1>0, <1>10, <2>2, LedgerFrame DEF SkipUnowned, Return
  <2>3. CASE s = t
    BY <1>0, <2>1, <2>3, LedgerQuiet DEF Before, Holding
  <2>4. QED
    BY <2>2, <2>3
<1>11. ASSUME NEW s \in Tasks, NEW r \in Tasks, StartTrade(s, r)
       PROVE  Ledger(t)'
  <2>1. CASE s # t
    BY <1>0, <1>11, <2>1, LedgerFrame DEF StartTrade
  <2>2. CASE s = t
    <3>1. r = t /\ userInstruments[t][key[t]] # None /\ key[t] \in Instruments
      BY <1>0, <1>11, <2>2 DEF StartTrade, Matches, LocalsOK
    <3>2. userInstruments[t][key[t]] \in Position
      BY <3>1
    <3>3. /\ entity'[t] = Detached(t, userInstruments[t][key[t]])
          /\ pc[t] = "read" /\ pc'[t] = "ask" /\ key' = key
          /\ userInstruments' = userInstruments /\ orders' = orders
      BY <1>11, <2>2, <3>1 DEF StartTrade
    <3>4. userInstruments'[t][key'[t]] = Written(entity'[t])
      BY <3>2, <3>3 DEF Detached, Written, Position
    <3>5. QED
      BY <1>0, <3>1, <3>3, <3>4 DEF Ledger, Before, Balanced, Unapplied
  <2>3. QED
    BY <2>1, <2>2
<1>12. ASSUME NEW s \in Tasks, NEW r \in Tasks, SkipUnmoved(s, r)
       PROVE  Ledger(t)'
  <2>1. /\ pc[s] = "read" /\ pc' = [pc EXCEPT ![s] = IF todo[s] = {} THEN "poll" ELSE "next"]
        /\ userInstruments' = userInstruments /\ orders' = orders
    BY <1>12 DEF SkipUnmoved, Return
  <2>2. CASE s # t
    BY <1>0, <1>12, <2>2, LedgerFrame DEF SkipUnmoved, Return
  <2>3. CASE s = t
    BY <1>0, <2>1, <2>3, LedgerQuiet DEF Before, Holding
  <2>4. QED
    BY <2>2, <2>3
<1>13. ASSUME NEW s \in Tasks, NEW real \in Prices, AskService(s, real)
       PROVE  Ledger(t)'
  <2>1. CASE s # t
    BY <1>0, <1>13, <2>1, LedgerFrame DEF AskService
  <2>2. CASE s = t
    BY <1>0, <1>13, <2>2
    DEF AskService, Ledger, Before, Holding, Balanced, Unapplied
  <2>3. QED
    BY <2>1, <2>2
<1>14. ASSUME NEW s \in Tasks, StoreOrder(s) PROVE Ledger(t)'
  <2>1. CASE s # t
    <3>1. orders'[Owner[t]] = orders[Owner[t]]
      BY <1>0, <1>14, <2>1, ConstantsAssumption DEF StoreOrder
    <3>2. QED
      BY <1>0, <1>14, <2>1, <3>1, LedgerFrame DEF StoreOrder
  <2>2. CASE s = t
    <3> DEFINE u == Owner[t]
               k == key[t]
    <3>1. /\ k \in Instruments /\ u \in Users
          /\ entity[t] \in Entity /\ order[t] \in Order /\ order[t].price # None
      BY <1>14, <2>2, ConstantsAssumption DEF StoreOrder, LocalsOK, TradeSteps
    <3>2. /\ pc[t] = "store" /\ pc'[t] = "apply"
          /\ userInstruments' = userInstruments
          /\ key' = key /\ entity' = entity /\ order' = order
          /\ orders' = [orders EXCEPT ![u][k] = Booked(@, entity[t].lot, order[t])]
      BY <1>14, <2>2 DEF StoreOrder
    <3>3. /\ orders'[u][k] = Booked(orders[u][k], entity[t].lot, order[t])
          /\ \A i \in Instruments \ {k} : orders'[u][i] = orders[u][i]
      BY <3>1, <3>2
    <3>4. /\ userInstruments[t][k] # None
          /\ userInstruments[t][k] = Written(entity[t])
          /\ Balanced(t, k)
      BY <1>0, <3>1, <3>2 DEF Ledger, Holding
    <3>5. /\ entity[t].amount = InitialAmount + orders[u][k].units
          /\ entity[t].balance = orders[u][k].cash
      BY <3>2, <3>4 DEF Balanced, Unapplied, Written
    <3>6. /\ Traded(entity[t], order[t]).amount
               = InitialAmount + orders'[u][k].units
          /\ Traded(entity[t], order[t]).balance = orders'[u][k].cash
      <4>1. orders[u][k] \in Total
        BY <3>1
      <4>2. /\ Traded(entity[t], order[t]).amount
                 = InitialAmount + Booked(orders[u][k], entity[t].lot, order[t]).units
            /\ Traded(entity[t], order[t]).balance
                 = Booked(orders[u][k], entity[t].lot, order[t]).cash
        <5> DEFINE e == entity[t]
                   o == order[t]
                   total == orders[u][k]
        <5>1. /\ e \in Entity /\ o \in Order /\ o.price # None /\ total \in Total
              /\ e.amount = InitialAmount + total.units /\ e.balance = total.cash
          BY <3>1, <3>5, <4>1
        <5> HIDE DEF e, o, total
        <5>2. /\ Traded(e, o).amount = InitialAmount + Booked(total, e.lot, o).units
              /\ Traded(e, o).balance = Booked(total, e.lot, o).cash
          BY <5>1, TradedMatchesBooked
        <5>3. QED
          BY <5>2 DEF e, o, total
      <4>3. QED
        BY <3>3, <4>2
    <3>7. Balanced(t, k)'
      BY <3>2, <3>6 DEF Balanced, Unapplied, Written
    <3>8. \A i \in Instruments \ {k} : Balanced(t, i) => Balanced(t, i)'
      BY <3>2, <3>3 DEF Balanced, Unapplied
    <3>9. QED
      BY <1>0, <3>1, <3>2, <3>3, <3>4, <3>7, <3>8 DEF Ledger, Before, Holding
  <2>3. QED
    BY <2>1, <2>2
<1>15. ASSUME NEW s \in Tasks, ApplyOrder(s) PROVE Ledger(t)'
  <2> DEFINE e == Traded(entity[s], order[s])
             k == key[s]
  <2>1. /\ k \in Instruments /\ entity[s] \in Entity
        /\ order[s] \in Order /\ order[s].price # None
    BY <1>15 DEF ApplyOrder, LocalsOK, TradeSteps
  <2>2. e \in Entity /\ e.id = entity[s].id /\ Written(e) \in Position
    BY <2>1, TradedType
  <2>3. Owner[e.id] = Owner[s] /\ e.id \in Tasks
    BY <1>15, <2>2 DEF ApplyOrder, LedgerInv, OwnIds, Holding, Entity
  <2>4. /\ pc[s] = "apply" /\ pc' = [pc EXCEPT ![s] = "publish"]
        /\ key' = key /\ order' = order /\ orders' = orders
        /\ entity' = [entity EXCEPT ![s] = e]
        /\ userInstruments' = [userInstruments EXCEPT ![e.id][k] = Written(e)]
    BY <1>15 DEF ApplyOrder, Stored
  <2> HIDE DEF e
  <2>5. CASE s # t
    BY <1>0, <2>3, <2>4, <2>5, LedgerFrame
  <2>6. CASE s = t
    <3>1. e.id = t
      BY <1>0, <2>3, <2>6
    <3>2. /\ userInstruments'[t][k] = Written(e)
          /\ \A i \in Instruments \ {k} :
               userInstruments'[t][i] = userInstruments[t][i]
      BY <2>1, <2>4, <3>1
    <3>3. userInstruments[t][k] # None /\ Balanced(t, k)
      BY <1>0, <2>1, <2>4, <2>6 DEF Ledger, Holding
    <3>4. Balanced(t, k)'
      BY <2>4, <2>6, <3>2, <3>3 DEF Balanced, Unapplied, e
    <3>5. \A i \in Instruments \ {k} : Balanced(t, i) => Balanced(t, i)'
      BY <2>4, <2>6, <3>2 DEF Balanced, Unapplied
    <3>6. /\ Written(e) # None
          /\ pc'[t] = "publish" /\ entity'[t] = e /\ key'[t] = k
      BY <2>2, <2>4, <2>6, NoneAssumption
    <3>7. QED
      BY <1>0, <2>4, <3>2, <3>3, <3>4, <3>5, <3>6 DEF Ledger, Before
  <2>7. QED
    BY <2>5, <2>6
<1>16. ASSUME NEW s \in Tasks, Publish(s) PROVE Ledger(t)'
  <2>1. /\ pc[s] = "publish"
        /\ \E p \in {"poll", "next"} : pc' = [pc EXCEPT ![s] = p]
        /\ key' = [key EXCEPT ![s] = None]
        /\ entity' = [entity EXCEPT ![s] = None]
        /\ order' = [order EXCEPT ![s] = None]
        /\ UNCHANGED <<userInstruments, orders>>
    BY <1>16 DEF Publish, Return
  <2>2. CASE s # t
    BY <1>0, <2>1, <2>2, LedgerFrame
  <2>3. CASE s = t
    BY <1>0, <2>1, <2>3, LedgerQuiet DEF Before, Holding
  <2>4. QED
    BY <2>2, <2>3
<1>17. ASSUME NEW s \in Tasks, Fail(s) PROVE Ledger(t)'
  <2>1. /\ pc[s] \in {"find", "read"}
        /\ \E p \in {"refused", "stopped"} : pc' = [pc EXCEPT ![s] = p]
        /\ UNCHANGED <<key, entity, order, userInstruments, orders>>
    BY <1>17 DEF Fail, FailAmbiguous, FailNoReference, locals
  <2>2. pc[s] = "read" => pc' = [pc EXCEPT ![s] = "stopped"]
    BY <1>17 DEF Fail, FailAmbiguous, FailNoReference
  <2>3. CASE s # t
    BY <1>0, <2>1, <2>3, LedgerFrame
  <2>4. CASE s = t
    BY <1>0, <2>1, <2>2, <2>4, LedgerQuiet DEF Before, Holding
  <2>5. QED
    BY <2>3, <2>4
<1>18. ASSUME NEW s \in Tasks, FailCall(s) PROVE Ledger(t)'
  <2>1. CASE s # t
    BY <1>0, <1>18, <2>1, LedgerFrame DEF FailCall
  <2>2. CASE s = t /\ pc[t] = "apply"
    BY <1>0, <1>18, <2>2
    DEF FailCall, Ledger, Before, Holding, Balanced, Unapplied, SaveSteps
  <2>3. CASE s = t /\ pc[t] # "apply"
    <3>1. /\ pc[t] \in CallSteps \ {"apply"}
          /\ pc'[t] = IF pc[t] \in SaveSteps THEN "refused" ELSE "stopped"
      BY <1>18, <2>3, ConstantsAssumption DEF FailCall, CallSteps
    <3>2. QED
      BY <1>0, <1>18, <2>3, <3>1, LedgerQuiet
      DEF FailCall, Before, Holding, SaveSteps, CallSteps
  <2>4. QED
    BY <2>1, <2>2, <2>3
<1>19. CASE UNCHANGED vars
  BY <1>0, <1>19, LedgerFrame DEF vars
<1>20. QED
  BY <1>1, <1>2, <1>3, <1>4, <1>5, <1>6, <1>7, <1>8, <1>9, <1>10, <1>11, <1>12,
     <1>13, <1>14, <1>15, <1>16, <1>17, <1>18, <1>19 DEF Next, Save, Listen

LEMMA LedgerInvariance == Spec => []LedgerInv
<1>1. TypeInv /\ TypeInv' /\ LedgerInv /\ [Next]_vars => LedgerInv'
  BY OwnIdsStep, LedgerStep DEF LedgerInv, Sole
<1>2. QED
  BY <1>1, LedgerInit, TypeInvariance, PTL DEF Spec

\* The position of a user who saves once is what his stored orders add up to,
\* but for the order between its two transactions.
THEOREM PositionsMatch == Spec => []PositionMatchesOrders
<1>1. LedgerInv => PositionMatchesOrders
  BY DEF LedgerInv, Ledger, PositionMatchesOrders
<1>2. QED
  BY <1>1, LedgerInvariance, PTL

\* With lots that divide the initial amount, his orders never sell more than he
\* started with: neither the stored position nor the one about to be stored is
\* short, and both agree with the orders.
THEOREM NeverOversold == ASSUME LotsDivide PROVE Spec => []NeverOversells
<1>1. TypeInv /\ WholeLots /\ LedgerInv => NeverOversells
  <2> SUFFICES ASSUME TypeInv, WholeLots, LedgerInv,
                      NEW t \in Tasks, NEW i \in Instruments, Sole(t)
               PROVE  InitialAmount + orders[Owner[t]][i].units >= 0
    BY DEF NeverOversells
  <2>1. Ledger(t) /\ InitialAmount \in Nat
    BY ConstantsAssumption DEF LedgerInv
  <2>2. CASE userInstruments[t][i] = None
    BY <2>1, <2>2 DEF Ledger
  <2>3. CASE userInstruments[t][i] # None /\ ~Unapplied(t, i)
    <3>1. userInstruments[t][i] \in Position
      BY <2>3 DEF TypeInv, TypeOK
    <3>2. userInstruments[t][i].amount >= 0
      BY <2>3, <3>1, WholeNotNegative DEF WholeLots, Position
    <3>3. QED
      BY <2>1, <2>3, <3>2 DEF Ledger, Balanced
  <2>4. CASE userInstruments[t][i] # None /\ Unapplied(t, i)
    <3> DEFINE e == Traded(entity[t], order[t])
    <3>1. /\ pc[t] \in {"apply", "torn"}
          /\ entity[t] \in Entity /\ order[t] \in Order /\ order[t].price # None
      BY <2>4 DEF Unapplied, TypeInv, LocalsOK, TradeSteps
    <3>2. Whole(e.lot, e.amount)
      BY <3>1, TradedWhole DEF WholeLots
    <3>3. e \in Entity
      BY <3>1, TradedType
    <3>4. e.lot \in Lots /\ e.amount \in Int
      BY <3>3 DEF Entity
    <3>5. e.amount >= 0
      BY <3>2, <3>4, WholeNotNegative
    <3>6. e.amount = InitialAmount + orders[Owner[t]][i].units
      BY <2>1, <2>4 DEF Ledger, Balanced, Written
    <3>7. QED
      BY <3>5, <3>6
  <2>5. QED
    BY <2>2, <2>3, <2>4
<1>2. QED
  BY <1>1, TypeInvariance, WholeInvariance, LedgerInvariance, PTL

-----------------------------------------------------------------------------
(* What a client is told.                                                  *)

\* Nothing, or what was saved; a session with a principal also what was stored, or, while
\* the thread has stored a trade and not sent it yet, what was stored before.
Told(t, i) ==
  \/ shown[t][i] = None
  \/ shown[t][i] = Fresh(request[t][i])
  \/ /\ t \in Principals
     /\ shown[t][i] = userInstruments[t][i] \/ (pc[t] = "publish" /\ key[t] = i)

ShownInv ==
  \A t \in Tasks : Sole(t) =>
    /\ pc[t] \in Before => \A i \in Instruments : shown[t][i] = None
    /\ \A i \in Instruments : Told(t, i)

LEMMA ShownInit == Init => ShownInv
  BY DEF Init, ShownInv, Told

\* The rows of a task that is alone with its user are written by no other task.
LEMMA OthersLeaveRows ==
  ASSUME TypeInv, OwnIds, NEW t \in Tasks, NEW s \in Tasks, Sole(t), s # t,
         CommitSave(s) \/ ApplyOrder(s)
  PROVE  userInstruments'[t] = userInstruments[t]
<1> USE DEF TypeInv, TypeOK
<1>1. Owner[s] # Owner[t]
  BY DEF Sole
<1>2. CASE CommitSave(s)
  <2>1. \A i \in Instruments : TargetRow(s, i) # t
    BY <1>1 DEF OwnIds, TargetRow
  <2>2. QED
    BY <1>2, <2>1 DEF CommitSave
<1>3. CASE ApplyOrder(s)
  <2> DEFINE e == Traded(entity[s], order[s])
  <2>1. e.id = entity[s].id /\ Owner[entity[s].id] = Owner[s]
    BY <1>3, TradedType DEF ApplyOrder, LocalsOK, TradeSteps, OwnIds, Holding
  <2>2. userInstruments' = [userInstruments EXCEPT ![e.id][key[s]] = Written(e)]
    BY <1>3 DEF ApplyOrder, Stored
  <2>3. e.id # t
    BY <1>1, <2>1
  <2> HIDE DEF e
  <2>4. QED
    BY <2>2, <2>3
<1>4. QED
  BY <1>2, <1>3

\* A step that leaves what the client was told, and what it was told of, alone.
LEMMA ShownFrame ==
  ASSUME NEW t \in Tasks, \A i \in Instruments : Told(t, i),
         pc[t] \in Before => \A i \in Instruments : shown[t][i] = None,
         pc'[t] \in Before => pc[t] \in Before,
         pc[t] = "publish" => pc'[t] = pc[t] /\ key'[t] = key[t],
         pc[t] \in Before \/ request'[t] = request[t],
         shown'[t] = shown[t], userInstruments'[t] = userInstruments[t]
  PROVE  /\ pc'[t] \in Before => \A i \in Instruments : shown'[t][i] = None
         /\ \A i \in Instruments : Told(t, i)'
  BY DEF Told

LEMMA ShownStep ==
  TypeInv /\ TypeInv' /\ LedgerInv /\ ShownInv /\ [Next]_vars => ShownInv'
<1> SUFFICES ASSUME TypeInv, TypeInv', LedgerInv, ShownInv, [Next]_vars,
                    NEW t \in Tasks, Sole(t)
             PROVE  /\ pc'[t] \in Before => \A i \in Instruments : shown'[t][i] = None
                    /\ \A i \in Instruments : Told(t, i)'
  BY DEF ShownInv, Sole
<1> DEFINE Goal == /\ pc'[t] \in Before => \A i \in Instruments : shown'[t][i] = None
                   /\ \A i \in Instruments : Told(t, i)'
<1> USE DEF TypeInv, TypeOK, Goto, locals, save, Before
<1>0. /\ pc[t] \in Before => \A i \in Instruments : shown[t][i] = None
      /\ \A i \in Instruments : Told(t, i)
      /\ Ledger(t) /\ OwnIds
  BY DEF ShownInv, LedgerInv
<1>1. CASE \E i \in Instruments, p \in Prices : SetPrice(i, p)
  BY <1>0, <1>1, ShownFrame DEF SetPrice
<1>2. ASSUME NEW s \in Tasks, SaveRequest(s) PROVE Goal
  BY <1>0, <1>2, ShownFrame DEF SaveRequest
<1>3. ASSUME NEW s \in Tasks, NEW i \in Instruments, FindRow(s, i) PROVE Goal
  <2>1. /\ pc[s] = "find" /\ \E p \in {"find", "commit"} : pc' = [pc EXCEPT ![s] = p]
        /\ UNCHANGED <<shown, userInstruments, request, key>>
    BY <1>3 DEF FindRow
  <2>2. QED
    BY <1>0, <2>1, ShownFrame
<1>4. ASSUME NEW s \in Tasks, CommitSave(s) PROVE Goal
  <2>1. /\ pc[s] = "commit" /\ pc' = [pc EXCEPT ![s] = "load"]
        /\ UNCHANGED <<shown, request, key>>
    BY <1>4 DEF CommitSave
  <2>2. CASE s # t
    BY <1>0, <1>4, <2>1, <2>2, OthersLeaveRows, ShownFrame
  <2>3. CASE s = t
    BY <1>0, <2>1, <2>3 DEF Told
  <2>4. QED
    BY <2>2, <2>3
<1>5. ASSUME NEW s \in Tasks, Reply(s) PROVE Goal
  <2>1. CASE s # t
    BY <1>0, <1>5, <2>1, ShownFrame DEF Reply
  <2>2. CASE s = t
    <3>1. /\ pc[t] \notin Before /\ UNCHANGED <<pc, request, userInstruments, key>>
          /\ shown' = [shown EXCEPT ![t] = [i \in Instruments |->
                         IF request[t][i] # None THEN Fresh(request[t][i]) ELSE @[i]]]
      BY <1>5, <2>2 DEF Reply, ListenSteps
    <3>2. \A i \in Instruments :
            shown'[t][i] = shown[t][i] \/ shown'[t][i] = Fresh(request[t][i])
      BY <3>1
    <3>3. QED
      BY <1>0, <3>1, <3>2 DEF Told
  <2>3. QED
    BY <2>1, <2>2
<1>6. ASSUME NEW s \in Tasks, ApplyOrder(s) PROVE Goal
  <2>1. /\ pc[s] = "apply" /\ pc' = [pc EXCEPT ![s] = "publish"]
        /\ UNCHANGED <<shown, request, key>>
    BY <1>6 DEF ApplyOrder
  <2>2. CASE s # t
    BY <1>0, <1>6, <2>1, <2>2, OthersLeaveRows, ShownFrame
  <2>3. CASE s = t
    <3> DEFINE e == Traded(entity[t], order[t])
    <3>1. e.id \in Tasks /\ userInstruments' = [userInstruments EXCEPT ![e.id][key[t]] = Written(e)]
      BY <1>6, <2>3, TradedType DEF ApplyOrder, Stored, LocalsOK, TradeSteps, Entity
    <3> HIDE DEF e
    <3>2. \A i \in Instruments \ {key[t]} : userInstruments'[t][i] = userInstruments[t][i]
      BY <3>1
    <3>3. ASSUME NEW i \in Instruments PROVE Told(t, i)'
      <4>1. CASE i = key[t]
        BY <1>0, <2>1, <2>3, <4>1 DEF Told
      <4>2. CASE i # key[t]
        BY <1>0, <2>1, <2>3, <3>2, <4>2 DEF Told
      <4>3. QED
        BY <4>1, <4>2
    <3>4. QED
      BY <2>1, <2>3, <3>3
  <2>4. QED
    BY <2>2, <2>3
<1>7. ASSUME NEW s \in Tasks, Publish(s) PROVE Goal
  <2>1. /\ pc[s] = "publish" /\ UNCHANGED <<userInstruments, request>>
        /\ \E p \in {"poll", "next"} : pc' = [pc EXCEPT ![s] = p]
        /\ key' = [key EXCEPT ![s] = None]
        /\ shown' = IF s \in Principals
                    THEN [shown EXCEPT ![s][key[s]] = Written(entity[s])] ELSE shown
    BY <1>7 DEF Publish, Return
  <2>2. CASE s # t
    BY <1>0, <2>1, <2>2, ShownFrame
  <2>3. CASE s = t
    <3>1. /\ key[t] \in Instruments
          /\ userInstruments[t][key[t]] = Written(entity[t])
      BY <1>0, <2>1, <2>3 DEF Ledger, Holding, LocalsOK, TradeSteps
    <3>2. pc'[t] \notin Before
      BY <2>1, <2>3
    <3>3. ASSUME NEW i \in Instruments PROVE Told(t, i)'
      <4>1. CASE t \in Principals /\ i = key[t]
        BY <2>1, <2>3, <3>1, <4>1 DEF Told
      <4>2. CASE t \notin Principals
        BY <1>0, <2>1, <2>3, <4>2 DEF Told
      <4>3. CASE i # key[t]
        <5>1. shown'[t][i] = shown[t][i]
          BY <2>1, <2>3, <4>3
        <5>2. QED
          BY <1>0, <2>1, <4>3, <5>1 DEF Told
      <4>4. QED
        BY <4>1, <4>2, <4>3
    <3>4. QED
      BY <3>2, <3>3
  <2>4. QED
    BY <2>2, <2>3
<1>8. ASSUME NEW s \in Tasks, Listen(s), ~ApplyOrder(s), ~Publish(s) PROVE Goal
  <2>1. /\ pc[s] \in ListenSteps \ {"publish"}
        /\ \E p \in ListenSteps : pc' = [pc EXCEPT ![s] = p]
        /\ UNCHANGED <<shown, userInstruments, request>>
        /\ \A r \in Tasks \ {s} : key'[r] = key[r]
    <3>1. CASE LoadReference(s) \/ AssignReference(s) \/ Poll(s)
      BY <3>1 DEF LoadReference, AssignReference, Poll, ListenSteps
    <3>2. ASSUME NEW i \in Instruments, ReadReference(s, i) PROVE <2>1
      BY <3>2 DEF ReadReference, ListenSteps
    <3>3. CASE SkipUnowned(s) \/ (\E r \in Tasks : SkipUnmoved(s, r))
      BY <3>3 DEF SkipUnowned, SkipUnmoved, Return, ListenSteps
    <3>4. CASE \E r \in Tasks : StartTrade(s, r)
      BY <3>4 DEF StartTrade, ListenSteps
    <3>5. CASE (\E real \in Prices : AskService(s, real)) \/ StoreOrder(s)
      BY <3>5 DEF AskService, StoreOrder, ListenSteps
    <3>6. QED
      BY <1>8, <3>1, <3>2, <3>3, <3>4, <3>5 DEF Listen
  <2>2. CASE s # t
    BY <1>0, <2>1, <2>2, ShownFrame
  <2>3. CASE s = t
    BY <1>0, <2>1, <2>3, ShownFrame DEF ListenSteps
  <2>4. QED
    BY <2>2, <2>3
<1>9. ASSUME NEW s \in Tasks, Fail(s) \/ FailCall(s) PROVE Goal
  <2>1. /\ pc[s] \in SaveSteps \/ pc[s] \in ListenSteps \ {"publish"}
        /\ \E p \in DeadSteps :
             /\ pc' = [pc EXCEPT ![s] = p]
             /\ p = "refused" => pc[s] \in SaveSteps
        /\ UNCHANGED <<shown, userInstruments, request, key>>
    <3>1. CASE Fail(s)
      BY <3>1 DEF Fail, FailAmbiguous, FailNoReference, SaveSteps, ListenSteps, DeadSteps
    <3>2. CASE FailCall(s)
      BY <3>2, ConstantsAssumption DEF FailCall, CallSteps, SaveSteps, ListenSteps, DeadSteps
    <3>3. QED
      BY <1>9, <3>1, <3>2
  <2>2. CASE s # t
    BY <1>0, <2>1, <2>2, ShownFrame
  <2>3. CASE s = t
    BY <1>0, <2>1, <2>3, ShownFrame DEF SaveSteps, ListenSteps, DeadSteps
  <2>4. QED
    BY <2>2, <2>3
<1>10. CASE UNCHANGED vars
  BY <1>0, <1>10, ShownFrame DEF vars
<1>11. QED
  BY <1>1, <1>2, <1>3, <1>4, <1>5, <1>6, <1>7, <1>8, <1>9, <1>10 DEF Next, Save

\* What the client of a user who saves once is told of a position is what the table holds,
\* or what it held when saved: only the answer to the save may come after a trade.
THEOREM ShownAreStored == Spec => []ShownIsStored
<1>1. ShownInv => ShownIsStored
  BY DEF ShownInv, Told, ShownIsStored
<1>2. QED
  BY <1>1, ShownInit, ShownStep, TypeInvariance, LedgerInvariance, PTL DEF Spec

=============================================================================
