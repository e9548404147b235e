# Verification of stock-market-trading

TLA+ models of the stock market trading system (the two Spring Boot
applications, their database tables, the browser page with its two libraries, and
the testing tool), TLC runs that check them on small instances, and TLAPS proofs
of the main properties for all instances.  Paths below are relative to the repository;
`trading/` stands for
`src/main/java/pl/mstefanczuk/stockmarkettrading/` and `service/` for
`stock-market-service/src/main/java/pl/mstefanczuk/stockmarketservice/`, and `js/`
for `src/main/resources/static/js/`.

## 1. The system

### Parts

**Stock market service** (`service/`).  Keeps one `Price` (value, update time)
per instrument in a map, with three scheduled methods
(`InstrumentPriceServiceImpl`), one per instrument.  Each counts its runs; on
run N it adds a random difference to its price, on run N+1 it takes the
difference away again and starts over.  Both times it broadcasts all three
prices on `/topic/current-prices`.  `OrderController` answers an order with the
price of its instrument.  Nothing is synchronised: the methods and requests run
on different threads over plain fields.

**Price feed** (`trading/websocket`, `trading/instrument/InstrumentServiceImpl`
`.setCurrentPrices`).  A websocket client, connected once at start, hands each
broadcast to `setCurrentPrices`, which compares it with the table
`instrument_price`, saves rows that differ, appends to
`instrument_price_history`, and, if anything changed, tells the browsers.

**Listeners and orders** (`trading/order/OrderServiceImpl`).  `startListening`
is `@Async` and never returns: it replaces the shared field `lastPrices` and
then polls the price table for ever.  For each price it looks up the user's
position; if the price rose above the last price and units are held it sells,
if it fell it buys.  A trade is an HTTP call to the stock market service, an
insert into `order`, an update of `user_instrument`, a message to the user's
queues and a `put` into `lastPrices`.

**Positions** (`trading/instrument/InstrumentController`,
`InstrumentServiceImpl.saveAll`).  `/instrument/save` looks up each position
the client names, writes them all in one transaction (amount 1000, balance 0)
and starts a listener, one more for every save.

**Users** (`trading/user`).  `/users/save` finds or creates the user with a
login.

**Browser page** (`src/main/resources/static/index.html`) and **testing tool**
(`testing-tool/`): the two clients.  The page sends positive trading amounts
only, and no empty list.  The tool logs in users 1..100 and saves three
positions for each, over one session that has no principal.

**SockJS socket** (`js/sockjs-0.3.4.js`, the half the page sees).  The page's
connection.  It asks the server for `/info`, derives a list of protocols from the
answer and from what the browser can do, and opens one transport after the other
until one delivers an open frame; then frames become events until something closes
it.  State: `readyState`, the info receiver, the list, the transport at hand, a
timer, and the close event that is dispatched a moment after it was decided.

**SockJS transports** (the other half).  A websocket only forwards.  All others
receive over one HTTP request after the other, read while it arrives (XHR), as
events (EventSource), through a document that calls its parent (htmlfile) or as a
script per frame (JSONP), and send with POSTs, one at a time, collecting messages
meanwhile.  Some live in an iframe that exchanges messages with the page.

**STOMP client** (`js/stomp.js`).  Frames over the socket: connect, subscribe,
unsubscribe, disconnect, messages routed to callbacks by subscription id, and
heartbeats both ways.  The page subscribes to five destinations once connected.

**Schema** (`src/main/resources/schema.sql`), recreated on every start: nothing
survives a restart, so there is no recovery to verify.

### State and who touches it

| State | Written by | Read by |
|---|---|---|
| `Price.value`, `.updateTime` (service) | its scheduled method, field by field | all scheduled methods (broadcast), order requests |
| `instrument_price` | the feed | the feed, every listener |
| `lastPrices` (one field for all listeners) | every listener: whole map at start, one entry per trade | every listener |
| `user_instrument` | saves, listeners of that user | the same |
| `order` | listeners | nobody |
| `user` and its id sequence | login requests | login requests; by foreign key, saves |
| `readyState`, `_protocols`, `_transport`, `_transport_tref` (SockJS) | callbacks of requests, frames, timers, the load event; `close` | the same |
| a receiver's text and `buf_pos`; `send_buffer`, `send_stop` | callbacks of its request; `doSend`, the POST's callback, a timer | the same |
| `subscriptions`, `counter`, `connected`, `pinger`, `ponger` (STOMP) | the page, frames, the socket's close event | the same |
| a browser's picture of its positions | the answer to a save, `/queue/instruments` messages | the user |

### What is hard

Unsynchronised threads over shared fields and over rows read in one
transaction and written in another; listeners that never end and multiply; an
order and its position stored in two transactions with an HTTP call before
them; no handler for any exception in a listener; missing unique keys; ids
guessed on one side and generated on the other; broadcasts that overtake each
other.  In the browser nothing runs in parallel, but callbacks come in any
order: timers race answers, a close is decided long before it is told, text arrives
cut anywhere, a callback may close the very thing that is calling it.  The hazards
are listed with their lines in `PROJECT.json`.

## 2. Modules

| Module | Models | Proofs |
|---|---|---|
| `OrderService` (+ `MCOrderService`) | saves, positions, listeners, orders, `lastPrices`, the browser's picture | `OrderServiceProofs`, `OrderLedgerProofs` |
| `StockMarketService` (+ `MCStockMarketService`) | the scheduled methods, broadcasts, the order endpoint | `StockMarketServiceProofs` |
| `PriceFeed` | one session's frames into the price table | `PriceFeedProofs` |
| `PriceTable` | abstract: what listeners are promised of the price table | refined by `PriceFeed` |
| `Users` (+ `MCUsers`) | logins and the testing tool's loop | `UsersProofs` |
| `Socket` | abstract: what a socket promises the program above it | refined by `SockJS`, used by `StompClient` |
| `SockJS` (+ `MCSockJS`) | info, fallback, timers, events and close of the page's socket | `SockJSProofs` |
| `Transport` | the receivers and senders below it | `TransportProofs` |
| `StompFrame` | pure: how frames are written and read | in `StompClientProofs` |
| `StompClient` (+ `MCStompClient`) | the STOMP client over a `Socket`, with the page's subscriptions and a server | `StompClientProofs` |

Each specification also holds a short section of *faulty variants* (what a
likely slip in the code would turn a definition into).  No specification uses
them; replacing the definition by its variant makes TLC report the property
named in `PROJECT.json`, which shows that the property has teeth.

### OrderService

A *task* is one `/instrument/save` and the listener it starts.  `pc[t]` is the
place in the code; every access to shared state is a step of its own:

| Steps | Code |
|---|---|
| `SaveRequest`, `FindRow`, `CommitSave`, `Reply` | `InstrumentController.save`, `InstrumentServiceImpl.saveAll` (one `FindRow` per turn of its loop) |
| `LoadReference`, `AssignReference` | `lastPrices = getCurrentPrices()`: query and assignment |
| `Poll`, `ReadReference`, `SkipUnowned`, `SkipUnmoved`, `StartTrade` | the loop and `handlePriceChange` up to the decision |
| `AskService`, `StoreOrder`, `ApplyOrder`, `Publish` | `sell` / `purchase`, the messages and `lastPrices.put` |
| `FailAmbiguous`, `FailNoReference`, `FailCall` | the exceptions: two rows where one is expected, a null last price, a call that throws |
| `SetPrice` | one save of the feed, as `PriceTable` promises |

`userInstruments[t]` holds the rows that task t inserted, so that two rows for
one user and instrument are possible, as they are in the table.  An entity is
detached (no transaction spans a listener's turn) and saving it writes *all*
its columns: that is how a stale write restores an old amount together with an
old lot.  The order table is kept as the sums over its rows, per user and
instrument.  `Owner` says whose task it is, `Principals` which sessions have
one (SockJS), `MayFail` which calls may throw, `OrderInsertable = FALSE` is the
shipped schema, whose numeric time columns (`schema.sql:74,75,77`) refuse the
timestamps of every order.  The stock market service answers an order with any
price, as the real price may have moved since the broadcast.

Both times of a price, request and response times, log lines, the message on
`/queue/orders`, the `findById` calls that only fill references, and the text
of messages are left out.  The order of the entries of a price map is left
open.  Lots are positive, as the page and the tool send them; units are whole
numbers.

### StockMarketService

`Jump` is run N, `TakeBack` run N+1, each followed by `Stamp` (the update time,
a separate field) and by `Serialize`/`Send`, which read the other prices one by
one while their threads go on.  `Base`, `MaxDiff`, `Period` generalise the three
copies of the method.  Readers record *which change* of a price they saw;
a time is the number of the change it was taken at, so the clock is taken not
to run backwards.  A jump that would make the price negative is not made but
stays in `difference` and is taken away all the same, as in the code.  Values
are `BigDecimal`s in the code and integers here: scales and rounding are not
modelled.  The plain fields are taken to be sequentially consistent: a thread
may read a price in the middle of an update, but it reads the latest value of each
field, where Java would allow it an older one.

### PriceFeed

Rows are keyed by their generated id; the code looks prices up under the
*instrument's* id (`getCurrentPrices` collects by row id).  `SavePrice` is a
merge: it updates the row with that id, or inserts one with the next id of the
sequence.  `Drop` is an exception anywhere in a frame: what was saved stays.
Frames come one at a time (one session) with arbitrary prices, since broadcasts
may overtake each other.  The entries of the frame, a `HashMap` of small
`Long`s, are visited in ascending order.

### Users

A login is a lookup, an id drawn from the sequence, and an insert the unique
key may refuse; a refused insert does not give its id back.  A refused login is
never answered: `WebSocketErrorHandler` is a plain component, not a controller
advice, so its handler method is not found.  A run of the tool is the loop of
`afterConnected`.  Nothing is fair, so that a run may be stopped anywhere, and any number
of them may be under way.  The wait after a login may be too short: `hasty` remembers
that it was, for the properties only.  `savedFor` is the user a save has reached, or
none if there is no such user.

### SockJS over Socket

An action is one callback of the browser, run to its end; what a callback calls -
`_didClose`, `_try_next_protocol`, the cleanup of the transport - is part of it, as an
operator (`DidClose`, `TryNext`, `Cleanup`).  A handler of the page that calls
`close` is `Close` right after the event.  `CLOSING` is left within one call and is
no state of the model; the delay before the close event is one (`pending`).
`Browser` is what the environment decides: which transports are enabled, how `/info`
is asked for, whether the page has an origin, and whether the socket is created
before the load event, in which case the first protocol that needs a body waits for
it.  The handler of that event stays and does not look at the state, so that a socket
closed meanwhile opens a transport: `Load` says so.  A close lets go of more than it
stops.  `Cleanup` puts into `adrift` the request for the info, of which `nuke` takes
only the handlers away; a request of an XHR or XDR object that `utils.delay` has not
started yet (`delayed`), which `RequestStarts` would have started and which now starts
unowned; and a JSONP script that is still loading.  `StrayEnds` is the end of one.  The
timer of the transport stays armed when the close has a user-set code.  A websocket transport only
forwards and is covered by `SockJS` itself.  The refinement mapping to `Socket` takes
a closed socket whose event is still to be dispatched as `"closing"`.

### Transport

`kind` is the receiver, chosen once.  A response is the sequence of symbols that has
not arrived (`net`) and that has (`text`); a frame is its number followed by a line
feed, so that a chunk may end within a frame, and `Complete` and `NextPos` are the loop
of `XhrReceiver`.  `OnTheirWay` is all that is written and not yet handed over, posted,
unread or still to arrive.  A receiver that gives frames to SockJS may be closed in the
middle: `HandOver` offers every prefix.  For an iframe the same frames are posted to the
page, up and down are the messages between the two, and the page is told of a failure
as of a close frame.  `strays` are POSTs given up by the client that the server may yet
read.  The server writes whole frames, ends a response when it likes and closes a
session whose response broke.

### StompFrame and StompClient

`StompFrame` writes a frame as symbols (a line feed, a NUL, a character of two bytes,
and words) and reads data as `unmarshall` does: a piece begins where a symbol is neither
a NUL nor a line feed that follows one (`Starts`), ends before the next NUL (`EndOf`),
and the pieces are read in their order (`InOrder`); within a piece the first empty line
divides, and `content-length` is compared with characters although it counts bytes.
None of it is recursive, so that it can be reasoned about.  Bodies are made of
`Characters`, which may be anything but NUL.  `StompClient` runs over `Socket`, which `SockJS` implements.  The data of one
event is read into `frames`, which are then handled one by one; a call of the program
between two of them is a callback that calls the client (or throws, which drops the
rest).  The server keeps subscriptions and sends messages for them, which may be on
their way when a subscription ends.  `Subscribe` draws an id from the counter, or takes
one the program supplies in its headers - on purpose, or by passing a headers object a
second time, which still holds the id drawn for it - and overwrites the callback that
may be registered with it; `supplied` remembers such ids, for the properties only.
`OnReceive` is the field `onreceive`, the callback of last resort.

## 3. Properties and runs

All runs are exhaustive.  Bounds are constants named in the `.cfg`.  `disciplined`
uses the symmetry of tasks, which is sound there: it checks invariants only, and its
constants give no task a role of its own.  (With a second instrument it has no end in
sight; several instruments are the matter of the theorem `NobodyDies`.)

| Run | Instance | Checks |
|---|---|---|
| `each_user_once` | 2 users with a save and a listener each, 1 instrument, 2 prices, 2 moves, every call may throw, fair | `PositionMatchesOrders`, `ShownIsStored`, `ReferenceFollowsTrades`, `TradingComesToRest`, types |
| `disciplined` | 1 user, 2 saves one after the other, 1 instrument, lots 1 and 2 of 2 units, 2 moves, prices known first, no failures; deadlock checked | `ListenersSurvive`, `NoShortPosition` |
| `overlapping_saves` | 1 user, 3 saves in any overlap, one listener at a time, 1 move, no order can be inserted, fair | `RefusedOrderLeavesPosition`, `DuplicateStopsListeners` |
| `lone_listener` | 1 listener, 2 instruments, 3 prices, 2 moves, fair | `ReferenceFollowsTrades`, `FallIsBought`, `RiseIsSold`, `MissingReferenceStops` |
| `tickers` | 2 instruments with different periods, one of them starting lower than a jump may be high, 1 order | `BackToBase`, `AnswerFresh`, `ChangeAnnounced`, types |
| `feed` | 3 instruments, saves of a price may throw; deadlock checked | `RowIsInstrument`, `TableHoldsFrame`, `HistoryEndsWithTable`, `BrowsersToldTable`, `ImplementsPriceTable`, types |
| `tools` | 2 runs of the tool over 2 users and another client, every call may throw | `AnswersAgree`, `SavesReachNoLaterUser`, `ToolsSaveForThemselves`, types |
| `sockjs` | 6 browsers, servers with and without websockets and cookies, a constructor that may throw, 3 messages in batches of up to 2, fair | `ImplementsSocket`, `FallbackComplete`, `ConnectingEnds`, `ClosedComesToRest`, types |
| `transport` | all five receivers, 3 frames, 3 messages, fair sender | `StreamIntact`, `SendsInOrder`, `BufferDrains`, types |
| `stomp` | 2 destinations, 2 subscription ids drawn by the client, 3 messages of 2 bodies, both versions, with and without heartbeats | `FramesIntact`, `LossTold`, types |
| `stomp_ids` | 2 destinations, 2 ids, drawn or supplied, a fallback callback, 2 messages of one body | `RoutedRight` |
| `stomp_silence` | the same client with a server that beats and falls silent, fair | `SilenceIsNoticed`, **violated** |

What they show, beyond the good news, is under which conditions the code works:

* **One save per user.**  `PositionMatchesOrders` and the theorem `NeverOversold` are about
  users that save once.  The position is then the initial amount plus the orders,
  but for one order stored and not applied - for good, if the thread dies between
  the two transactions (`pc = "torn"`).  With two listeners of one user, stale
  writes lose trades; that is how the code is, and no property claims otherwise.
* **Prices at rest.**  `TradingComesToRest`: once the feed brings no change any more -
  because the market is quiet or because the connection is gone for good - listeners
  stop trading, although each trade of one moves the reference of all.
* **Lots that divide 1000.**  `NoShortPosition` holds for any number of listeners of
  a user, but only because the test "amount is not zero" then equals "amount
  covers the lot", and because a stale write writes amount and lot together.  The
  testing tool's lot of 300 (`StockMarketTradingStompSessionHandler.java:42`) does
  not divide 1000: after three sales in a row the fourth makes the position -200.
* **Discipline.**  A save while no price is known leaves a listener that dies of a
  null last price; two overlapping saves leave two rows and every later lookup
  throws.  `ListenersSurvive` - no save is refused, no listener dies, one row per user
  and instrument - holds for clients that avoid both (`Serial`, `PricesFirst`), and
  fails otherwise.  `DuplicateStopsListeners` says
  what overlapping saves cost: all listeners of the user die, later ones too.
* **A lone listener.**  Listeners share `lastPrices`; the first to trade moves it for
  all, so another user may never see a move.  `FallIsBought` and `RiseIsSold` are
  therefore checked for one listener, and only for it does `ReferenceFollowsTrades` say
  that the reference a trade was decided on is still there when the trade moves it.
  For any number it says what may move the reference - a listener that starts, and the
  end of a trade in that instrument, which always does - where to and in which direction.
* **Nothing to compare with.**  A listener that starts before an instrument had a price
  compares the first one with null and dies of it, unless another listener
  starts in between and brings the price along (`MissingReferenceStops`).
* **The shipped schema.**  It refuses every order; the listener dies before it
  changes a position (`RefusedOrderLeavesPosition`).
* **Row ids.**  `RowIsInstrument` needs failing saves that do not consume an id:
  with `"consume"` in `MayFail` TLC finds prices in the wrong rows.  A history save
  that fails leaves history and browsers behind until the next change, so the
  `feed` run excludes it, and `BrowsersToldTable` allows for what a frame that was
  dropped half way has saved.
* **One socket, whatever carries it.**  `ImplementsSocket`: for every browser, with
  constructors that throw, servers that are silent and timers that race answers, the
  program sees a socket that opens at most once, gives messages only while open and
  tells its close once and last.  `FallbackComplete`: no protocol is left out or tried
  twice.  `ConnectingEnds` has one exception: an answer for `/info` that is not JSON
  throws after the timer was cleared, and the socket connects for ever.
* **What a close leaves behind.**  `_didClose` does not stop everything.  Still to come
  may be the timer of the transport, an answer for `/info`, the load event, the start of
  a delayed XHR, a script.  `ImplementsSocket` says that the client hears of none of
  it, and `ClosedComesToRest` that all but the requests of transports end by
  themselves.  Those may last: what a socket opens that was closed while it waited for
  the load event, nobody ever closes.
* **Frames and messages in order.**  `StreamIntact` and `SendsInOrder` hold for all
  receivers and senders, up to the failures the code cannot see: a form (JSONP) does not
  know whether it was submitted, and the sender in an iframe goes on after a POST failed
  until the page has heard of it, so that a batch may be missing in the middle.
* **Subscription ids.**  `RoutedRight`: ids drawn by the client are never used again,
  so no message that was on its way when its subscription ended finds another's
  callback.  An id the program supplies has no such protection (`js/stomp.js:363`): the
  later callback replaces the first and gets what was meant for it.  The page supplies
  none.
* **Silence.**  `stomp_silence` shows that the check for a server that went silent never
  fires: `now` (`js/stomp.js:133`) returns the function `Date.now` instead of calling it,
  so the time since the last data is not a number.  The application's own broker
  offers heart-beat 0,0, with which no check runs anyway.
* **User ids.**  The tool never looks at the id it is answered with.  While all is calm
  (`Calm`: it is the only client, each wait was long enough, no lookup failed) overlapping
  runs err in one direction only: `SavesReachNoLaterUser`, positions meant for user i go
  to user i, to one before or to nobody.  `ToolsSaveForThemselves` says what it takes to
  err at all: an insert that was refused or failed.  Whoever sees every login answered
  knows that every save went where it should, however the runs were interleaved.  Another
  client's login, or a save sent too early, ends the guarantee.

Met while modelling, without a property of their own:

* `disconnect()` of the page calls `stompClient.close()`, a function the client does not
  have (`src/main/resources/static/index.html`).
* What the page sends before the socket is open throws; what it sends after the close is
  dropped without a word, and the page still says "Zapisano instrumenty".  `disconnect`
  of the STOMP client throws at its first line while the socket connects, before
  anything is cleaned up: the connection goes on.
* `AjaxBasedTransport.doCleanup` does not stop the sender, and `send_destructor` looks for
  `_send_stop` where `send_stop` is set: POSTs that wait go out after the close.
* `IframeTransport.doCleanup` looks for a field `iframe` that is never set, so the iframe
  is not told to close; it is removed a moment later.
* A close with a user-set code while a transport is connecting leaves the timer of that
  transport armed, as only `_try_next_protocol` and `_dispatchOpen` clear it.  The comment
  at `js/sockjs-0.3.4.js:1139-1141` cannot see how the timer could run for a closed socket
  and blames it on Internet Explorer.  The test of the state makes it harmless.
* A NUL in a body would cut it; `content-length` is compared with characters.
* A callback of a subscription that throws cuts off the frames behind it.

### Bounds

A third save is needed for a save that finds two rows; three listeners of one user at
once are out of TLC's reach, so `overlapping_saves` runs one at a time (`MaxListeners`),
the others wait for it to end, and two at once are the matter of `each_user_once` and
`disciplined`.  Two listeners suffice for every race between a save, a listener and
another listener, as each shares state pairwise (a row, the reference map); two prices
give rises, falls and returns, and two moves after the first price make a
reference stale and bring a second trade on a stale write; the third price of
`lone_listener` is a rise with nothing left to sell.  `InitialAmount` 1 or 2 with
lots 1 and 2 reaches zero and back.  Two changes per ticker are a jump and its
return, with the counter wrapping, and a low price whose first refused jump takes it
to its upper bound.  Three instruments are the three of `data.sql`.  The four ids of
`tools` are one for each login of the tool; a fifth login draws one only if another finds
its user.  Its two runs differ in nothing, so their symmetry is used, for invariants only.

The six browsers of `sockjs` are one for every way through `Browser`: every info
receiver, early and late, with and without an origin, lists with and without a protocol
that must wait for the body.  Three frames of `transport` are one read, one cut and one
still to come; three messages are one in a POST and two that wait together.  Two ids in
`stomp` suffice for a message of one subscription to arrive when it has ended and the
other has begun.  A program may subscribe with ids of its own, and unsubscribe what is not
subscribed, for ever: `stomp_ids` lets it when no frame of its own is on its way
(`MaxWire`), and the other two runs of the client leave it out.  `MaxMoves`, `MaxListeners`, `MaxChanges`, `MaxRow`, `MaxId`,
`MaxBatch`, `MaxFrames`, `MaxMessages`, `MaxIds`, `MaxWire`, `MaxData` and `MaxSilence` are the only
bounds on what is otherwise unbounded.  `CHECK_DEADLOCK FALSE` is set where the system
may stop: listeners that all died, a closed socket, or a bound that is used up.

### Fairness

`OrderService!Fairness` is weak fairness of each listener and each save: its
executor runs every thread and each call returns or throws.  Prices, clients
and failures are not fair.  An HTTP call without an answer (there is no
timeout) is outside the model and listed as a hazard.
`SockJS!Fairness`: requests for `/info` end or time out, the timer of a transport fires,
documents load, a scheduled close event is dispatched, and a request for `/info` that
was let go ends, by its own timer if not otherwise - all promised by the
browser; nobody need answer, send or close, and a request of a transport may last.  `Transport!Fairness`: a POST is read and
ends somehow, at the latest when the browser gives it up, and timers fire; nothing is
assumed of receivers.  `StompClient!Fairness`: callbacks run to their end, intervals
fire and a close that happened is told; servers may stay silent.  The other
specifications are checked for safety only.

## 4. Proofs

For every value of the constants that satisfies the named assumptions
(`ConstantsAssumption`, `NoneAssumption`, `ServiceAssumption`, `FeedAssumption`,
`UsersAssumption`, `SockJSAssumption`, `StompAssumption`, `TransportAssumption`):

| Theorem | States | Argument |
|---|---|---|
| `OrderServiceProofs!TypeCorrect` | `TypeOK` | `TypeInv` adds `LocalsOK`: a thread in a trade holds an entity, an order, and a real price once asked |
| `OrderServiceProofs!NeverShort` | `NoShortPosition`, if `LotsDivide` | `WholeLots`: every stored row *and every detached entity* holds a whole number of its own lot; and a thread that is selling holds at least one |
| `OrderServiceProofs!RefusalsLeaveNoTrace` | `RefusedOrderLeavesPosition` | `Untraded`: nobody is past a refused insert, every row is as a save left it |
| `OrderServiceProofs!NobodyDies` | `ListenersSurvive`, if `Disciplined`: saves of a user one after the other, prices first, no call fails, orders can be inserted | `SurvivalInv`.  That nobody is dead is not inductive: a listener dies because of what is in the tables long before.  So a user has at most one pending save (`SavesApart`) and one row per instrument (`RowsUnique`), what a pending save has looked up is still so (`RowsFound`), a trade holds the entity of a row that exists (`RowsHeld`), and each step of a listener finds the prices it needs (`PricesKnown`) |
| `OrderServiceProofs!ReferenceFollows` | `ReferenceFollowsTrades` (an action property), for any number of listeners | `ReferenceInv`: the comparison that made an order still holds between its snapshot and the reference it read (`TradeHeld`), and that is the shared one if the listener is alone (`ReferenceHeld`); every other action leaves the reference alone (`OthersKeep`) and ends no trade |
| `OrderLedgerProofs!ShownAreStored` | `ShownIsStored` | `ShownInv`: a browser has been told nothing, what was saved, or - with a principal - what is stored, but for the trade about to be sent; on top of `LedgerInv` |
| `OrderLedgerProofs!PositionsMatch` | `PositionMatchesOrders` | `LedgerInv`: a sole listener's entity equals its row, and row and sums agree up to the unapplied order |
| `OrderLedgerProofs!NeverOversold` | nobody sells more than he started with, if `LotsDivide` | from the two invariants above |
| `StockMarketServiceProofs!ServiceTypes` | `TypeOK` | a counter never passes its period by more than one, and a message in the making holds only prices that exist |
| `StockMarketServiceProofs!PricesReturn` | `BackToBase` | `PriceInv` is about `Rest(i)`, the price once the difference in hand is taken away, so that it also says something in the middle of a jump |
| `StockMarketServiceProofs!AnswersFresh`, `ChangesAnnounced` | `AnswerFresh`, `ChangeAnnounced` | `ReadersInv`: times read are of changes made; a method's own entry in its broadcast is current |
| `PriceFeedProofs!FeedTypesKept` | `TypeOK`, whatever fails | `FeedTypes` |
| `PriceFeedProofs!RowsAreInstruments`, `TableFollowsFrames`, `FeedImplementsTable` | `RowIsInstrument`, `TableHoldsFrame`, `ImplementsPriceTable`, if no failed save consumes an id | `FeedInv`: ids are drawn in the order of the instruments; entries still to be visited are as they were read |
| `PriceFeedProofs!HistoryFollowsTable`, `BrowsersFollowTable` | `HistoryEndsWithTable`, `BrowsersToldTable`, if neither `"consume"` nor `"record"` may fail | `TellInv` |
| `UsersProofs!UserTypes`, `AnswersAgreeAlways` | `TypeOK`, `AnswersAgree` | `LoginInv`: ids in hand are distinct and unused, logins are unique |
| `UsersProofs!SavesNeverReachLater` | `SavesReachNoLaterUser` | `ShiftInv`: a user's id is never below the number of his login, although ids are lost, and the sequence has reached i by the time the i-th login of a run looks for its user |
| `UsersProofs!ToolSavesRight` | `ToolsSaveForThemselves` | `VainInv`: every id drawn has a row or an insert under way, unless a login was lost; and either users have their own numbers or some login is `Doomed` - lost, or about to be, as two inserts of its name are under way.  What is doomed stays so until it is lost (`DoomedStays`) |
| `SockJSProofs!SocketTypes`, `FallbackTriesAll` | `TypeOK`, `FallbackComplete` | `SocketInv`: protocols tried and left are those offered (`ListInv`), each event has been told as often as the state says (`EventInv`), a code says why a socket closed (`CodeInv`); `DidCloseKeeps` and `TryNextEffect` are the two calls most callbacks end with |
| `SockJSProofs!SocketKept` | every step is one of `Socket` or none: the safety half of `ImplementsSocket` | from `EventInv` |
| `TransportProofs!SendsKept` | `SendsInOrder` | `SenderInv`: what was read, what a POST carries, what waits in the buffer and what is on its way to an iframe are, put together, the messages sent (`Whole`); once that is over, what was read and at most one batch given up are the first of them (`Follows`).  The actions of the receiving half leave all of it alone (`Quiet`) |
| `TransportProofs!StreamKept` | `StreamIntact` | `ReceiverInv`.  Its heart is `Stream`: there is a last frame that has left the response, up to which the frames given to SockJS and those posted to the page are numbered without a gap; behind it the text and the network hold whole frames, read or unread as the receiver's position says, and nothing of use once the response is broken.  `Reading` is what the loop of `XhrReceiver` does to such a text cut anywhere; `HandOverKeeps` allows for a receiver that is closed in the middle |
| `TransportProofs!TransportTypes` | `TypeOK` | from `SenderInv`, `ReceiverInv` and the types of what is posted |
| `StompClientProofs!FramesAreRead` | `FramesIntact`, for bodies of any characters but NUL | about the operators, not the state: `LinesType`, `HeadType` and `TextForm` say what is written, `EndFound`, `OneRead` and `TwoRead` that a piece is cut out where it began and ended, `FrameRead` that it is read as written, `ParcelRead` all of it for what the server sends at once |
| `StompClientProofs!MessagesFindTheirOwn` | `RoutedRight` | `RouteInv`: wherever an id goes - on the wire, in the server's table, in data on its way, in frames read - it has been drawn or supplied, and, if it was never supplied, its callback is the one for the destination it goes with, or gone for good |
| `StompClientProofs!LossIsTold` | `LossTold` | `LossInv`: CONNECTED comes alone and before anyone disconnects, the handler is taken away only by a close, and after a close nothing is left to handle |
| `StompClientProofs!ClientTypesHold` | `TypeOK` | `ClientTypes`, `ServerTypes`: what the client is handed is what the server sent, read |

Every invariant and every action property that a passing run checks is stated by a theorem.

The inductive invariants were checked by TLC on the instances above before they
were proved, or follow conjunct by conjunct from invariants that were, except
`WholeLots` and `Follows`, which quantify over all naturals and all sequences, and the
parts of `ClientTypes` and `ServerTypes` that range over all sequences.

Model-checked only are the liveness properties `FallIsBought`, `RiseIsSold`,
`MissingReferenceStops`, `DuplicateStopsListeners`, `TradingComesToRest`,
`ConnectingEnds`, `ClosedComesToRest`, `BufferDrains` and the liveness
half of `ImplementsSocket`, which are out of the prover's reach; and `SilenceIsNoticed`,
which fails.

## 5. Not modelled

* The connection of the feed: it is opened once and never again.  Its loss is the case in
  which `PriceFeed` gets no further frame; what was in transit is a frame less.
* An HTTP call that never returns; the size of thread pools and queues.
* Times and logging, message texts, rendering in the page; the page reads
  `order.stockServicePrice` (`index.html:116`), a field the order does not have.
* Scales and rounding of decimals.
* Channels that reorder: broadcasts of the stock market service on their way to the feed
  (the feed takes frames with any prices instead), and the outbound channel of the broker,
  whose threads may bring two messages to one user in the wrong order.  `shown` is changed
  in the order in which messages are sent.
* Weak memory: plain fields read by several threads are taken to be up to date.
* Of SockJS: the details of the websocket transport, which only forwards; handlers of the
  unload event, which end everything; the heartbeat event, which changes nothing; how
  browsers are told apart, URLs, strings, JSON and DOM events.  Of the STOMP client:
  transactions and acknowledgements, which transmit a frame and keep nothing, and
  `_parseConnect`, which sorts arguments.
* Build files, Docker, the schema's indexes: no behaviour.
* Restarts: the database is recreated, so a restart is a new behaviour.

## 6. Plan

Done: `OrderService`, `StockMarketService`, `PriceFeed` over `PriceTable`, `Users`,
`SockJS` over `Socket`, `Transport`, `StompFrame` and `StompClient`, and their proofs as
listed.  Next, in this order:

1. `Ledger`: an abstract account (an order is stored and applied at once, or lost),
   implemented by `OrderService` for users that save once: a refinement for TLC and
   a proof on top of `LedgerInv`.
2. `Market`: `StockMarketService`'s broadcasts, a channel that reorders them and a
   connection that may be lost, and `PriceFeed`: what the price table eventually
   holds once prices rest, and what a lost connection leaves behind.
3. `Trading`: `PriceFeed` composed with `OrderService`'s listeners over one table,
   to check `OrderService` against the feed itself and not its abstraction only.
4. Proofs about these three: `Ledger`'s refinement for every user who saves once, what
   `Market` and `Trading` keep of the invariants of their parts.

## 7. Running

    tlc -config MCEachUserOnce.cfg MCOrderService.tla
    tlc -config MCTickers.cfg      MCStockMarketService.tla
    tlc -config MCPriceFeed.cfg    PriceFeed.tla
    tlc -config MCUsers.cfg        MCUsers.tla
    tlc -config MCSockJS.cfg       MCSockJS.tla
    tlc -config MCTransport.cfg    Transport.tla
    tlc -config MCStompClient.cfg  MCStompClient.tla
    tlc -config MCStompIds.cfg     MCStompClient.tla
    tlapm OrderLedgerProofs.tla    (and each other module named ...Proofs)

`PROJECT.json` names the configuration of each run, the variants that break each
property, the source lines of each definition and the hazards.
