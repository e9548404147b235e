---------------------------- MODULE OrderService ----------------------------
(***************************************************************************)
(* The trading application: saving a user's instruments and the listener   *)
(* thread that every save starts.                                          *)
(*                                                                         *)
(* A websocket request /instrument/save (InstrumentController.save) looks  *)
(* up each position it names, writes all of them in one transaction and    *)
(* hands the user to OrderServiceImpl.startListening, an @Async method     *)
(* that never returns: it polls the price table and, whenever a price has  *)
(* moved against the shared map lastPrices, asks the stock market service  *)
(* for a price, stores an order and rewrites the position.  Nothing stops  *)
(* such a thread but an exception, and nothing keeps two of them apart.    *)
(*                                                                         *)
(* A task is one save request together with the listener it starts.  Every *)
(* access to shared state (a repository call, the HTTP call, a get or put  *)
(* on lastPrices) is a step of its own.                                    *)
(***************************************************************************)
EXTENDS Integers, FiniteSets

CONSTANTS
  Tasks,            \* save requests, each with the listener thread it starts
  Users,            \* rows of the user table
  Owner,            \* the user each task saves and trades for
  Principals,       \* tasks whose session has a principal (SockJS clients)
  Instruments,      \* rows of the instrument table
  Prices,           \* prices, local (price table) and real (stock service)
  Lots,             \* trading amounts a client may send, all positive
  InitialAmount,    \* units a freshly saved position holds
  Serial,           \* TRUE: a user sends no save while one of his is pending
  PricesFirst,      \* TRUE: nobody saves before every instrument has a price
  MayFail,          \* steps whose repository or HTTP call may throw
  OrderInsertable,  \* FALSE: the "order" table refuses every insert
  MaxMoves,         \* bound on the changes of known prices in a behaviour
  MaxListeners,     \* bound on the listeners that run at once; the executor has none
  None              \* the null of a price, a row, an id or an entity

VARIABLES
  currentPrices,    \* table instrument_price: instrument -> price or None
  moves,            \* price changes so far, for the bound
  lastPrices,       \* field OrderServiceImpl.lastPrices, shared by all threads
  userInstruments,  \* table user_instrument; a row's id is <<inserter, i>>
  orders,           \* table "order", as the totals of its rows
  shown,            \* position last sent to the task's /queue/instruments
  replied,          \* whether the save request has been answered
  pc,               \* where the task is
  request,          \* lots of the saved positions, None if not named
  ids,              \* ids found for the saved positions
  todo,             \* instruments the loop at hand still has to visit
  snapshot,         \* the map getCurrentPrices() returned last
  key,              \* instrument of the price being handled
  lastPrice,        \* the entry of lastPrices it is compared with
  entity,           \* the detached UserInstrument the thread holds
  order             \* the order being made

save   == <<request, ids>>
locals == <<todo, snapshot, key, lastPrice, entity, order>>
vars   == <<currentPrices, moves, lastPrices, userInstruments, orders, shown,
            replied, pc, save, locals>>

SaveSteps   == {"find", "commit"}
ListenSteps == {"load", "assign", "poll", "next", "read", "ask", "store",
                "apply", "publish"}
TradeSteps  == {"ask", "store", "apply", "publish"}
\* "refused": the save threw.  "stopped": the listener did.  "torn": it did so
\* after its order was stored and before the position was.
DeadSteps   == {"refused", "stopped", "torn"}
Steps       == {"idle"} \cup SaveSteps \cup ListenSteps \cup DeadSteps

\* Steps that call a repository or the stock market service.
CallSteps   == {"find", "commit", "load", "poll", "read", "ask", "store",
                "apply"}

ASSUME ConstantsAssumption ==
  /\ Owner \in [Tasks -> Users]
  /\ Principals \subseteq Tasks
  /\ Prices \subseteq Nat
  /\ Lots \subseteq Nat \ {0}
  /\ InitialAmount \in Nat
  /\ Serial \in BOOLEAN
  /\ PricesFirst \in BOOLEAN
  /\ OrderInsertable \in BOOLEAN
  /\ MayFail \subseteq CallSteps
  /\ MaxMoves \in Nat
  /\ MaxListeners \in Nat

Position == [lot : Lots, amount : Int, balance : Int]
Entity   == [id : Tasks, lot : Lots, amount : Int, balance : Int]
Order    == [side : {"BUY", "SELL"}, price : Prices \cup {None}]
Total    == [units : Int, cash : Int]
PriceMap == [Instruments -> Prices \cup {None}]

ASSUME NoneAssumption ==
  /\ None \notin Prices \cup Lots \cup Tasks \cup Instruments
  /\ None \notin Position
  /\ None \notin Entity
  /\ None \notin Order

-----------------------------------------------------------------------------
(* Faulty variants of definitions below, what a likely slip in the code     *)
(* would make of them.  No specification uses them: a property is put to    *)
(* the test by replacing a definition by its variant.                       *)

\* save writes only the columns the trade changed
StoredColumns(table, e, i) ==
  [table EXCEPT ![e.id][i].amount = e.amount, ![e.id][i].balance = e.balance]

\* the entity is changed but never saved
StoredNowhere(table, e, i) == table

\* the null amount of a request is kept
FreshNull(lot) == [lot |-> lot, amount |-> None, balance |-> 0]

\* sell only what leaves something over
SellSpare(e, price, last) == e.amount > e.lot /\ price > last

\* buy only while something is held
BuyHeld(e, price, last) == e.amount # 0 /\ price < last

\* the balance is left alone
TradedUnits(e, o) ==
  [e EXCEPT !.amount = IF o.side = "BUY" THEN @ + e.lot ELSE @ - e.lot]

-----------------------------------------------------------------------------
(* The user_instrument table.                                              *)

\* findByUserIdAndInstrumentId: the ids of all rows of user u for i.  The
\* table has no unique key, so there may be several.
Matches(u, i) ==
  {s \in Tasks : Owner[s] = u /\ userInstruments[s][i] # None}

Ambiguous(u, i) == \E r, s \in Matches(u, i) : r # s

\* A row as the entity the thread gets: detached, as no transaction is open.
Detached(s, row) ==
  [id |-> s, lot |-> row.lot, amount |-> row.amount, balance |-> row.balance]

\* save(entity): the merge of a detached entity writes every column.
Written(e) == [lot |-> e.lot, amount |-> e.amount, balance |-> e.balance]

Stored(table, e, i) == [table EXCEPT ![e.id][i] = Written(e)]

\* A position as a client names it: amount and balance are left null or sent
\* as 1000 and 0, which setUserInstrumentNullValues makes the same.
Fresh(lot) == [lot |-> lot, amount |-> InitialAmount, balance |-> 0]

\* The row that saveAll writes: the one found, or a new one of its own.
TargetRow(t, i) == IF ids[t][i] = None THEN t ELSE ids[t][i]

-----------------------------------------------------------------------------
(* Trading decisions and their effect.                                     *)

ShouldSell(e, price, last) == e.amount # 0 /\ price > last

ShouldBuy(e, price, last) == price < last

\* OrderServiceImpl.purchase and sell, on the entity the thread holds.
Traded(e, o) ==
  IF o.side = "BUY"
  THEN [e EXCEPT !.amount = @ + e.lot, !.balance = @ - e.lot * o.price]
  ELSE [e EXCEPT !.amount = @ - e.lot, !.balance = @ + e.lot * o.price]

\* The totals of the order table once the order of lot units is in it.
Booked(total, lot, o) ==
  IF o.side = "BUY"
  THEN [units |-> total.units + lot, cash |-> total.cash - lot * o.price]
  ELSE [units |-> total.units - lot, cash |-> total.cash + lot * o.price]

-----------------------------------------------------------------------------
NoPrices == [i \in Instruments |-> None]

Init ==
  /\ currentPrices = NoPrices
  /\ moves = 0
  /\ lastPrices = NoPrices
  /\ userInstruments = [t \in Tasks |-> [i \in Instruments |-> None]]
  /\ orders = [u \in Users |-> [i \in Instruments |-> [units |-> 0, cash |-> 0]]]
  /\ shown = [t \in Tasks |-> [i \in Instruments |-> None]]
  /\ replied = [t \in Tasks |-> FALSE]
  /\ pc = [t \in Tasks |-> "idle"]
  /\ request = [t \in Tasks |-> [i \in Instruments |-> None]]
  /\ ids = [t \in Tasks |-> [i \in Instruments |-> None]]
  /\ todo = [t \in Tasks |-> {}]
  /\ snapshot = [t \in Tasks |-> NoPrices]
  /\ key = [t \in Tasks |-> None]
  /\ lastPrice = [t \in Tasks |-> None]
  /\ entity = [t \in Tasks |-> None]
  /\ order = [t \in Tasks |-> None]

\* The price feed writes one row of the price table, a first price or a new one.
SetPrice(i, p) ==
  /\ currentPrices[i] # p
  /\ \/ currentPrices[i] = None /\ UNCHANGED moves
     \/ currentPrices[i] # None /\ moves < MaxMoves /\ moves' = moves + 1
  /\ currentPrices' = [currentPrices EXCEPT ![i] = p]
  /\ UNCHANGED <<lastPrices, userInstruments, orders, shown, replied, pc, save,
                 locals>>

Goto(t, step) == pc' = [pc EXCEPT ![t] = step]

-----------------------------------------------------------------------------
(* The save request.                                                       *)

\* A client sends the positions it wants, at least one.
SaveRequest(t) ==
  /\ pc[t] = "idle"
  /\ Serial => \A s \in Tasks : Owner[s] = Owner[t] => pc[s] \notin SaveSteps
  /\ PricesFirst => \A i \in Instruments : currentPrices[i] # None
  /\ \E lots \in [Instruments -> Lots \cup {None}] :
       LET named == {i \in Instruments : lots[i] # None}
       IN  /\ named # {}
           /\ request' = [request EXCEPT ![t] = lots]
           /\ todo' = [todo EXCEPT ![t] = named]
  /\ Goto(t, "find")
  /\ UNCHANGED <<currentPrices, moves, lastPrices, userInstruments, orders,
                 shown, replied, ids, snapshot, key, lastPrice, entity, order>>

\* saveAll, one turn of its loop: give the named position the id of its row.
FindRow(t, i) ==
  /\ pc[t] = "find"
  /\ i \in todo[t]
  /\ ~Ambiguous(Owner[t], i)
  /\ \/ /\ Matches(Owner[t], i) = {}
        /\ UNCHANGED ids
     \/ \E s \in Matches(Owner[t], i) : ids' = [ids EXCEPT ![t][i] = s]
  /\ todo' = [todo EXCEPT ![t] = @ \ {i}]
  /\ Goto(t, IF todo[t] = {i} THEN "commit" ELSE "find")
  /\ UNCHANGED <<currentPrices, moves, lastPrices, userInstruments, orders,
                 shown, replied, request, snapshot, key, lastPrice, entity,
                 order>>

\* saveAll's transaction, then startListening hands the user to a new thread.
CommitSave(t) ==
  /\ pc[t] = "commit"
  /\ userInstruments' =
       [s \in Tasks |-> [i \in Instruments |->
          IF request[t][i] # None /\ s = TargetRow(t, i)
          THEN Fresh(request[t][i]) ELSE userInstruments[s][i]]]
  /\ Goto(t, "load")
  /\ UNCHANGED <<currentPrices, moves, lastPrices, orders, shown, replied, save,
                 locals>>

\* The controller's return value, sent while the listener already runs.
Reply(t) ==
  /\ pc[t] \in ListenSteps \cup {"stopped", "torn"}
  /\ ~replied[t]
  /\ replied' = [replied EXCEPT ![t] = TRUE]
  /\ shown' = [shown EXCEPT ![t] = [i \in Instruments |->
                 IF request[t][i] # None THEN Fresh(request[t][i]) ELSE @[i]]]
  /\ UNCHANGED <<currentPrices, moves, lastPrices, userInstruments, orders, pc,
                 save, locals>>

-----------------------------------------------------------------------------
(* The listener thread.                                                    *)

\* startListening: lastPrices = getCurrentPrices(), the query ...
LoadReference(t) ==
  /\ pc[t] = "load"
  /\ Cardinality({s \in Tasks : pc[s] \in ListenSteps \ {"load"}}) < MaxListeners
  /\ snapshot' = [snapshot EXCEPT ![t] = currentPrices]
  /\ Goto(t, "assign")
  /\ UNCHANGED <<currentPrices, moves, lastPrices, userInstruments, orders,
                 shown, replied, save, todo, key, lastPrice, entity, order>>

\* (Faulty variant: the map starts out empty.)
AssignNothing(t) ==
  /\ pc[t] = "assign"
  /\ lastPrices' = NoPrices
  /\ snapshot' = [snapshot EXCEPT ![t] = NoPrices]
  /\ Goto(t, "poll")
  /\ UNCHANGED <<currentPrices, moves, userInstruments, orders, shown, replied,
                 save, todo, key, lastPrice, entity, order>>

\* ... and the assignment, which replaces the map every other thread uses.
AssignReference(t) ==
  /\ pc[t] = "assign"
  /\ lastPrices' = snapshot[t]
  /\ snapshot' = [snapshot EXCEPT ![t] = NoPrices]
  /\ Goto(t, "poll")
  /\ UNCHANGED <<currentPrices, moves, userInstruments, orders, shown, replied,
                 save, todo, key, lastPrice, entity, order>>

\* One turn of the endless loop: read all prices, then visit each.
Poll(t) ==
  /\ pc[t] = "poll"
  /\ LET priced == {i \in Instruments : currentPrices[i] # None}
     IN  /\ todo' = [todo EXCEPT ![t] = priced]
         /\ Goto(t, IF priced = {} THEN "poll" ELSE "next")
  /\ snapshot' = [snapshot EXCEPT ![t] = currentPrices]
  /\ UNCHANGED <<currentPrices, moves, lastPrices, userInstruments, orders,
                 shown, replied, save, key, lastPrice, entity, order>>

\* handlePriceChange(id, price, ...) begins with lastPrices.get(id).
ReadReference(t, i) ==
  /\ pc[t] = "next"
  /\ i \in todo[t]
  /\ todo' = [todo EXCEPT ![t] = @ \ {i}]
  /\ key' = [key EXCEPT ![t] = i]
  /\ lastPrice' = [lastPrice EXCEPT ![t] = lastPrices[i]]
  /\ Goto(t, "read")
  /\ UNCHANGED <<currentPrices, moves, lastPrices, userInstruments, orders,
                 shown, replied, save, snapshot, entity, order>>

\* The end of handlePriceChange: its locals go out of scope.
Return(t) ==
  /\ Goto(t, IF todo[t] = {} THEN "poll" ELSE "next")
  /\ key' = [key EXCEPT ![t] = None]
  /\ lastPrice' = [lastPrice EXCEPT ![t] = None]
  /\ entity' = [entity EXCEPT ![t] = None]
  /\ order' = [order EXCEPT ![t] = None]
  /\ snapshot' = IF todo[t] = {} THEN [snapshot EXCEPT ![t] = NoPrices]
                 ELSE snapshot

\* (Faulty variant: an unclear position is treated like none.)
SkipUnclear(t) ==
  /\ pc[t] = "read"
  /\ Matches(Owner[t], key[t]) = {} \/ Ambiguous(Owner[t], key[t])
  /\ Return(t)
  /\ UNCHANGED <<currentPrices, moves, lastPrices, userInstruments, orders,
                 shown, replied, save, todo>>

\* The user holds no position in this instrument: nothing to do.
SkipUnowned(t) ==
  /\ pc[t] = "read"
  /\ Matches(Owner[t], key[t]) = {}
  /\ Return(t)
  /\ UNCHANGED <<currentPrices, moves, lastPrices, userInstruments, orders,
                 shown, replied, save, todo>>

\* What the price read asks for, given row s and the reference: "SELL" is tested
\* first and needs units to sell; None when there is nothing to do.
Decision(t, s) ==
  LET row == userInstruments[s][key[t]]
      price == snapshot[t][key[t]]
  IN  IF ShouldSell(row, price, lastPrice[t]) THEN "SELL"
      ELSE IF ShouldBuy(row, price, lastPrice[t]) THEN "BUY" ELSE None

\* The position is found, and the price has moved against the reference.
StartTrade(t, s) ==
  /\ pc[t] = "read"
  /\ Matches(Owner[t], key[t]) = {s}
  /\ lastPrice[t] # None
  /\ Decision(t, s) # None
  /\ entity' = [entity EXCEPT ![t] = Detached(s, userInstruments[s][key[t]])]
  /\ order' = [order EXCEPT ![t] = [side |-> Decision(t, s), price |-> None]]
  /\ Goto(t, "ask")
  /\ UNCHANGED <<currentPrices, moves, lastPrices, userInstruments, orders,
                 shown, replied, save, todo, snapshot, key, lastPrice>>

\* (Faulty variant: the price read becomes the reference whether or not it was traded.)
SkipAndPut(t, s) ==
  /\ pc[t] = "read"
  /\ Matches(Owner[t], key[t]) = {s}
  /\ lastPrice[t] # None
  /\ Decision(t, s) = None
  /\ lastPrices' = [lastPrices EXCEPT ![key[t]] = snapshot[t][key[t]]]
  /\ Return(t)
  /\ UNCHANGED <<currentPrices, moves, userInstruments, orders, shown, replied, save,
                 todo>>

\* The position is found, and there is nothing to trade.
SkipUnmoved(t, s) ==
  /\ pc[t] = "read"
  /\ Matches(Owner[t], key[t]) = {s}
  /\ lastPrice[t] # None
  /\ Decision(t, s) = None
  /\ Return(t)
  /\ UNCHANGED <<currentPrices, moves, lastPrices, userInstruments, orders,
                 shown, replied, save, todo>>

\* (Faulty variant: a price other than the one read is not accepted, and the trade
\* is tried again in the next turn.)
AskAgain(t, real) ==
  /\ pc[t] = "ask"
  /\ IF real = snapshot[t][key[t]]
     THEN /\ order' = [order EXCEPT ![t].price = real]
          /\ Goto(t, "store")
          /\ UNCHANGED <<snapshot, key, lastPrice, entity>>
     ELSE Return(t)
  /\ UNCHANGED <<currentPrices, moves, lastPrices, userInstruments, orders,
                 shown, replied, save, todo>>

\* sendRequestToStockMarketService posts the order; the service answers with
\* the price it has by then.
AskService(t, real) ==
  /\ pc[t] = "ask"
  /\ order' = [order EXCEPT ![t].price = real]
  /\ Goto(t, "store")
  /\ UNCHANGED <<currentPrices, moves, lastPrices, userInstruments, orders,
                 shown, replied, save, todo, snapshot, key, lastPrice, entity>>

\* (Faulty variant: a refused insert is ignored.)
StoreQuietly(t) ==
  /\ pc[t] = "store"
  /\ Goto(t, "apply")
  /\ UNCHANGED <<currentPrices, moves, lastPrices, userInstruments, orders, shown,
                 replied, save, locals>>

\* orderRepository.save(order), a transaction of its own.
StoreOrder(t) ==
  /\ pc[t] = "store"
  /\ OrderInsertable
  /\ orders' = [orders EXCEPT ![Owner[t]][key[t]] =
                  Booked(@, entity[t].lot, order[t])]
  /\ Goto(t, "apply")
  /\ UNCHANGED <<currentPrices, moves, lastPrices, userInstruments, shown,
                 replied, save, locals>>

\* purchase or sell change the entity and save it, another transaction.
ApplyOrder(t) ==
  /\ pc[t] = "apply"
  /\ LET e == Traded(entity[t], order[t])
     IN  /\ entity' = [entity EXCEPT ![t] = e]
         /\ userInstruments' = Stored(userInstruments, e, key[t])
  /\ Goto(t, "publish")
  /\ UNCHANGED <<currentPrices, moves, lastPrices, orders, shown, replied, save,
                 todo, snapshot, key, lastPrice, order>>

\* (Faulty variant: the position is sent and the reference forgotten.)
PublishOnly(t) ==
  /\ pc[t] = "publish"
  /\ shown' = IF t \in Principals
              THEN [shown EXCEPT ![t][key[t]] = Written(entity[t])] ELSE shown
  /\ Return(t)
  /\ UNCHANGED <<currentPrices, moves, lastPrices, userInstruments, orders, replied,
                 save, todo>>

\* The position goes to the user's queue and the price becomes the reference.
Publish(t) ==
  /\ pc[t] = "publish"
  /\ shown' = IF t \in Principals
              THEN [shown EXCEPT ![t][key[t]] = Written(entity[t])] ELSE shown
  /\ lastPrices' = [lastPrices EXCEPT ![key[t]] = snapshot[t][key[t]]]
  /\ Return(t)
  /\ UNCHANGED <<currentPrices, moves, userInstruments, orders, replied, save,
                 todo>>

-----------------------------------------------------------------------------
(* Exceptions: no step catches one, so the save or the thread ends.        *)

\* Optional<UserInstrument> over two rows: a non-unique result.
FailAmbiguous(t) ==
  \/ /\ pc[t] = "find"
     /\ \E i \in todo[t] : Ambiguous(Owner[t], i)
     /\ Goto(t, "refused")
     /\ UNCHANGED <<currentPrices, moves, lastPrices, userInstruments, orders,
                    shown, replied, save, locals>>
  \/ /\ pc[t] = "read"
     /\ Ambiguous(Owner[t], key[t])
     /\ Goto(t, "stopped")
     /\ UNCHANGED <<currentPrices, moves, lastPrices, userInstruments, orders,
                    shown, replied, save, locals>>

\* (Faulty variant: an instrument without a reference is passed over.)
SkipNoReference(t) ==
  /\ pc[t] = "read"
  /\ ~Ambiguous(Owner[t], key[t])
  /\ Matches(Owner[t], key[t]) # {}
  /\ lastPrice[t] = None
  /\ Return(t)
  /\ UNCHANGED <<currentPrices, moves, lastPrices, userInstruments, orders, shown,
                 replied, save, todo>>

\* lastPrices.get(id) was null and is dereferenced, whatever the amount.
FailNoReference(t) ==
  /\ pc[t] = "read"
  /\ ~Ambiguous(Owner[t], key[t])
  /\ Matches(Owner[t], key[t]) # {}
  /\ lastPrice[t] = None
  /\ Goto(t, "stopped")
  /\ UNCHANGED <<currentPrices, moves, lastPrices, userInstruments, orders,
                 shown, replied, save, locals>>

\* The database or the stock market service refuses a call.
FailCall(t) ==
  /\ \/ pc[t] \in MayFail
     \/ pc[t] = "store" /\ ~OrderInsertable
  /\ Goto(t, CASE pc[t] \in SaveSteps -> "refused"
               [] pc[t] = "apply"     -> "torn"
               [] OTHER               -> "stopped")
  /\ UNCHANGED <<currentPrices, moves, lastPrices, userInstruments, orders,
                 shown, replied, save, locals>>

-----------------------------------------------------------------------------
Listen(t) ==
  \/ LoadReference(t) \/ AssignReference(t) \/ Poll(t)
  \/ \E i \in Instruments : ReadReference(t, i)
  \/ SkipUnowned(t)
  \/ \E s \in Tasks : StartTrade(t, s) \/ SkipUnmoved(t, s)
  \/ \E real \in Prices : AskService(t, real)
  \/ StoreOrder(t) \/ ApplyOrder(t) \/ Publish(t)

Save(t) ==
  \/ \E i \in Instruments : FindRow(t, i)
  \/ CommitSave(t) \/ Reply(t)

Fail(t) == FailAmbiguous(t) \/ FailNoReference(t)

Next ==
  \/ \E i \in Instruments, p \in Prices : SetPrice(i, p)
  \/ \E t \in Tasks : SaveRequest(t) \/ Save(t) \/ Listen(t) \/ Fail(t) \/ FailCall(t)

Spec == Init /\ [][Next]_vars

\* The insert of an order that the table refuses throws, unlike other calls, always.
Refused(t) == ~OrderInsertable /\ pc[t] = "store" /\ FailCall(t)

\* Every running thread is scheduled and every call returns or throws; prices
\* need not move, clients need not save, other calls need not fail.
Fairness ==
  \A t \in Tasks : WF_vars(Listen(t) \/ Fail(t) \/ Refused(t)) /\ WF_vars(Save(t))

FairSpec == Spec /\ Fairness

-----------------------------------------------------------------------------
(* Properties.                                                             *)

TypeOK ==
  /\ currentPrices \in PriceMap
  /\ moves \in 0..MaxMoves
  /\ lastPrices \in PriceMap
  /\ userInstruments \in [Tasks -> [Instruments -> Position \cup {None}]]
  /\ orders \in [Users -> [Instruments -> Total]]
  /\ shown \in [Tasks -> [Instruments -> Position \cup {None}]]
  /\ replied \in [Tasks -> BOOLEAN]
  /\ pc \in [Tasks -> Steps]
  /\ request \in [Tasks -> [Instruments -> Lots \cup {None}]]
  /\ ids \in [Tasks -> [Instruments -> Tasks \cup {None}]]
  /\ todo \in [Tasks -> SUBSET Instruments]
  /\ snapshot \in [Tasks -> PriceMap]
  /\ key \in [Tasks -> Instruments \cup {None}]
  /\ lastPrice \in [Tasks -> Prices \cup {None}]
  /\ entity \in [Tasks -> Entity \cup {None}]
  /\ order \in [Tasks -> Order \cup {None}]

\* The save and the listener of t are the only ones its user ever has.
Sole(t) == \A s \in Tasks : Owner[s] = Owner[t] => s = t

\* The trade t has stored but not, or not yet, applied to its position in i.
Unapplied(t, i) == key[t] = i /\ pc[t] \in {"apply", "torn"}

\* The position, as it is once that trade is applied, agrees with the orders.
Balanced(t, i) ==
  LET row   == userInstruments[t][i]
      now   == IF Unapplied(t, i) THEN Written(Traded(entity[t], order[t])) ELSE row
      total == orders[Owner[t]][i]
  IN  /\ now.amount = InitialAmount + total.units
      /\ now.balance = total.cash

\* When every lot divides the initial amount, no interleaving of saves and
\* listeners, of one user or of several, leaves a stored position short: the
\* test "amount is not zero" of handlePriceChange is then as good as "amount
\* covers the lot", because a stale write still writes an amount and a lot that
\* were read together.
LotsDivide == \A lot \in Lots : \E n \in 0..InitialAmount : InitialAmount = n * lot

NoShortPosition ==
  \A t \in Tasks, i \in Instruments :
    userInstruments[t][i] # None => userInstruments[t][i].amount >= 0

\* As long as a user saves once, his position is what his stored orders say it
\* is, but for the one order that is stored and not yet applied - or that never
\* will be, when the thread died between the two transactions.
PositionMatchesOrders ==
  \A t \in Tasks, i \in Instruments :
    (Sole(t) /\ userInstruments[t][i] # None) => Balanced(t, i)

\* As long as a user saves once, the orders stored for him never sell more than
\* he started with (for lots that divide the initial amount).
NeverOversells ==
  \A t \in Tasks, i \in Instruments :
    Sole(t) => InitialAmount + orders[Owner[t]][i].units >= 0

\* What a client is told of a position is what the table holds, or what it held
\* when saved: handlePriceChange sends an entity only after storing it, and only
\* the answer to the save itself may come late.
ShownIsStored ==
  \A t \in Tasks, i \in Instruments :
    (Sole(t) /\ shown[t][i] # None) =>
      \/ shown[t][i] = Fresh(request[t][i])
      \/ t \in Principals /\ shown[t][i] = userInstruments[t][i]
      \/ pc[t] = "publish" /\ key[t] = i

\* An order the database refuses leaves no trace: as long as no insert into the
\* order table succeeds, every position keeps the amount it was saved with.
RefusedOrderLeavesPosition ==
  ~OrderInsertable =>
    \A t \in Tasks, i \in Instruments :
      userInstruments[t][i] # None =>
        userInstruments[t][i] = Fresh(userInstruments[t][i].lot)

\* If users wait for one save before the next, if nobody saves before all prices
\* are known and if no call fails, then no save is refused and no listener ever
\* dies, of a missing reference price or of a duplicated position: without a unique
\* key the table still has one row for each user and instrument.
ListenersSurvive ==
  /\ \A t \in Tasks : pc[t] \notin DeadSteps
  /\ \A u \in Users, i \in Instruments : ~Ambiguous(u, i)

\* The steps that may move the reference: a listener puts the prices it has loaded in
\* its place, or gets to the end of a trade.
ListenerStarts(t) == pc[t] = "assign" /\ pc'[t] = "poll"
TradeEnds(t) == pc[t] \in TradeSteps /\ pc'[t] \notin TradeSteps \cup DeadSteps

\* Once listeners run, the reference of an instrument moves only with a trade in that
\* instrument, and with every trade that gets through: to the price that was read,
\* which is above the reference the trade was decided on if it sold and below if
\* it bought.  A listener that is alone finds that reference still in place.
ReferenceFollowsTrades ==
  [][/\ \A i \in Instruments :
          lastPrices'[i] # lastPrices[i] =>
            \E t \in Tasks : ListenerStarts(t) \/ (TradeEnds(t) /\ key[t] = i)
     /\ \A t \in Tasks :
          TradeEnds(t) =>
            /\ lastPrices'[key[t]] = snapshot[t][key[t]]
            /\ IF order[t].side = "SELL" THEN lastPrices'[key[t]] > lastPrice[t]
               ELSE lastPrices'[key[t]] < lastPrice[t]
            /\ Tasks = {t} => lastPrices[key[t]] = lastPrice[t]]_vars

Listening(t) == pc[t] \in ListenSteps \ {"load", "assign"}

\* The price is known and has moved below, or above, a known reference.
Priced(i) == currentPrices[i] # None /\ lastPrices[i] # None
Fallen(i) == Priced(i) /\ currentPrices[i] < lastPrices[i]
Risen(i)  == Priced(i) /\ currentPrices[i] > lastPrices[i]

Watches(t, i) == Listening(t) /\ userInstruments[t][i] # None

\* A price below the reference does not stay there: some listener buys, or the
\* price recovers, or the listener that should buy has died.
FallIsBought ==
  \A t \in Tasks, i \in Instruments :
    (Watches(t, i) /\ Fallen(i)) ~> (~Fallen(i) \/ pc[t] \in DeadSteps)

\* A position whose instrument had no price when the listener started ends the
\* listener as soon as there is one, unless another listener starts in time and
\* loads it.
MissingReferenceStops ==
  \A t \in Tasks, i \in Instruments :
    (Watches(t, i) /\ lastPrices[i] = None /\ currentPrices[i] # None)
      ~> (pc[t] \in DeadSteps \/ lastPrices[i] # None)

\* Two overlapping saves of a user leave two rows for an instrument, and that ends
\* his trading for good, in all instruments: every listener he has, and every one
\* that starts later, dies when it looks the position up.
DuplicateStopsListeners ==
  \A t \in Tasks, i \in Instruments :
    (Listening(t) /\ Ambiguous(Owner[t], i) /\ currentPrices[i] # None)
      ~> pc[t] \in DeadSteps

\* A price above the reference does not stay there while units are held.
RiseIsSold ==
  \A t \in Tasks, i \in Instruments :
    (Watches(t, i) /\ Risen(i))
      ~> \/ ~Risen(i)
         \/ pc[t] \in DeadSteps
         \/ userInstruments[t][i] # None /\ userInstruments[t][i].amount = 0

\* Once prices rest - also because the price feed is lost, which nobody is told of -
\* trading comes to rest, though listeners share the reference and each sets it to
\* the price it has read, which may be an old one by then.
TradingComesToRest == <>[](\A t \in Tasks : pc[t] \notin TradeSteps)

=============================================================================
