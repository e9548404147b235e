------------------------------- MODULE SockJS -------------------------------
(***************************************************************************)
(* The socket of the browser page (sockjs-0.3.4.js, lib/sockjs.js with the  *)
(* info receivers).  It asks the server for /info, derives the protocols    *)
(* worth trying and opens one transport after the other until one answers   *)
(* with an open frame.  From then on frames become events, until a close    *)
(* frame, a failure or the client ends it.                                  *)
(*                                                                         *)
(* Every action is one callback of the browser and runs to its end.  An     *)
(* event handler that calls close() is the action Close right after the     *)
(* event; CLOSING is left within that call and never seen.  How a transport *)
(* moves frames and messages is Transport's matter.                         *)
(***************************************************************************)
EXTENDS Integers, Sequences

CONSTANTS
  Browsers,     \* environments: what is enabled, how /info is got, ...
  MayThrow,     \* protocols whose transport's constructor may throw
  ServerCodes,  \* codes a server closes with
  ClientCodes,  \* codes the client closes with
  MaxBatch,     \* bound on the messages of one frame
  MaxMessages,  \* bound on the messages handed over
  None

VARIABLES
  browser,      \* the environment, chosen once
  loaded,       \* whether the document is complete
  readyState,
  ir,           \* _ir: "asking", "stuck" after an answer it cannot parse, or None
  protocols,    \* _protocols, still to be tried
  protocol,     \* the protocol at hand, or "waiting-for-load"
  transport,    \* _transport: the protocol whose transport may call back, or None
  delayed,      \* whether the request it receives with waits for utils.delay to start it
  adrift,       \* requests that go on, or are yet to start, after their owner was closed
  timer,        \* whether _transport_tref is armed
  code,         \* code of the close event
  pending,      \* close events scheduled and not yet dispatched
  opens, messages, closes,  \* events dispatched so far
  offered,      \* history: the protocols derived from the server's info
  tried         \* history: the protocols opened

vars == <<browser, loaded, readyState, ir, protocols, protocol, transport, delayed,
          adrift, timer, code, pending, opens, messages, closes, offered, tried>>

Protocols == {"websocket", "xdr-streaming", "xhr-streaming", "iframe-eventsource",
              "iframe-htmlfile", "xdr-polling", "xhr-polling",
              "iframe-xhr-polling", "jsonp-polling"}

Browser == [enabled     : SUBSET Protocols,
            receiver    : {"ajax", "iframe", "fake"},
            null_origin : BOOLEAN,  \* the page has no domain of its own
            early       : BOOLEAN]  \* the socket is created before the load event

Info == [websocket : BOOLEAN, cookie_needed : BOOLEAN]

UserSetCode(c) == c = 1000 \/ c \in 3000..4999

TimedOut == 2007

Codes == ServerCodes \cup ClientCodes \cup {1000, 1002, 1006, 2000, TimedOut}

ASSUME SockJSAssumption ==
  /\ Browsers \subseteq Browser
  /\ MayThrow \subseteq Protocols
  /\ ServerCodes \subseteq Nat
  /\ ClientCodes \subseteq Nat /\ \A c \in ClientCodes : UserSetCode(c)
  /\ MaxBatch \in Nat /\ MaxMessages \in Nat
  /\ None \notin Protocols \cup {"waiting-for-load", "asking", "stuck"}
  /\ None \notin Nat /\ None \notin Seq(Protocols)

\* Protocols that receive with an XHR or XDR object of the page itself, which starts
\* its request a moment after it was constructed.
AjaxProtocols == {"xdr-streaming", "xhr-streaming", "xdr-polling", "xhr-polling"}

\* Protocols that need the document's body.
NeedBody == {"xhr-streaming", "iframe-eventsource", "iframe-htmlfile",
             "iframe-xhr-polling", "jsonp-polling"}

-----------------------------------------------------------------------------
(* Faulty variants of definitions below, for putting properties to the test. *)

\* the protocol that has to wait is not put back
WaitAndDrop(list) ==
  /\ protocol' = "waiting-for-load"
  /\ protocols' = Tail(list)
  /\ transport' = None /\ delayed' = FALSE
  /\ timer' = FALSE
  /\ UNCHANGED tried

\* the timer is armed once the transport is constructed
OpenThenArm(list) ==
  /\ protocol' = Head(list)
  /\ protocols' = Tail(list)
  /\ tried' = Append(tried, Head(list))
  /\ \/ transport' = Head(list) /\ timer' = TRUE
     \/ Head(list) \in MayThrow /\ transport' = None /\ timer' = FALSE
  /\ delayed' = (transport' \in AjaxProtocols)

\* nuke stops the receiver's own timer as well
EndsByItself(r) == r \in adrift \ {"info"} /\ adrift' = adrift \ {r}

\* a closed socket may close again
ClosableAlways == TRUE

-----------------------------------------------------------------------------
\* utils.detectProtocols: one protocol of a group, the first that is enabled.
FirstOf(names, enabled) ==
  IF \A n \in DOMAIN names : names[n] \notin enabled THEN <<>>
  ELSE <<names[CHOOSE n \in DOMAIN names :
                 /\ names[n] \in enabled
                 /\ \A m \in 1..(n - 1) : names[m] \notin enabled]>>

\* The best streaming or polling protocol: xhr, else xdr, which sends no cookies,
\* else one that works from within an iframe.
Ajax(xhr, xdr, others, b, info) ==
  IF xhr \in b.enabled /\ ~b.null_origin THEN <<xhr>>
  ELSE IF xdr \in b.enabled /\ ~info.cookie_needed /\ ~b.null_origin THEN <<xdr>>
  ELSE FirstOf(others, b.enabled)

DetectProtocols(b, info) ==
  (IF info.websocket THEN FirstOf(<<"websocket">>, b.enabled) ELSE <<>>)
  \o Ajax("xhr-streaming", "xdr-streaming",
          <<"iframe-eventsource", "iframe-htmlfile">>, b, info)
  \o Ajax("xhr-polling", "xdr-polling",
          <<"iframe-xhr-polling", "jsonp-polling">>, b, info)

-----------------------------------------------------------------------------
Init ==
  /\ browser \in Browsers
  /\ loaded = ~browser.early
  /\ readyState = "connecting"
  /\ ir = "asking"
  /\ protocols = <<>>
  /\ protocol = None
  /\ transport = None
  /\ delayed = FALSE
  /\ adrift = {}
  /\ timer = FALSE
  /\ code = None
  /\ pending = 0
  /\ opens = 0
  /\ messages = 0
  /\ closes = 0
  /\ offered = None
  /\ tried = <<>>

\* _try_next_protocol, for a protocol that needs the body before it is there: it is
\* put back, and the load event tries again.
WaitForLoad(list) ==
  /\ protocol' = "waiting-for-load"
  /\ protocols' = list
  /\ transport' = None /\ delayed' = FALSE
  /\ timer' = FALSE
  /\ UNCHANGED tried

\* ... and otherwise: the timer is armed before the transport is constructed.
OpenTransport(list) ==
  /\ protocol' = Head(list)
  /\ protocols' = Tail(list)
  /\ timer' = TRUE
  /\ \/ transport' = Head(list)
     \/ Head(list) \in MayThrow /\ transport' = None
  /\ delayed' = (transport' \in AjaxProtocols)
  /\ tried' = Append(tried, Head(list))

TryNext(list, body) ==
  IF Head(list) \in NeedBody /\ ~body THEN WaitForLoad(list) ELSE OpenTransport(list)

\* nuke, for a receiver that is still asking, and doCleanup, for the transport.
\* Neither stops every request: nuke takes the handlers away and lets the request
\* for the info run to its end (the fake one its delay); a request still delayed
\* starts all the same; and no script can be aborted, though none is under way when
\* the script itself brings the frame, or the event, that closes.  Websockets are
\* closed, started requests aborted, and iframes removed with all that is in them.
Cleanup(receiver) ==
  \E scripts \in SUBSET ({transport} \cap {"jsonp-polling"}) :
    adrift' = adrift \cup {r \in {"info"} : receiver = "asking"}
                     \cup {r \in {transport} : delayed}
                     \cup scripts

\* A connection in the making that fails moves on to the next protocol, unless
\* somebody wanted it closed.
MayFallBack(c, force) == ~UserSetCode(c) /\ readyState = "connecting" /\ ~force

Closable == readyState \in {"connecting", "open"}

\* _didClose(c, ..., force) while _protocols is list and _ir is receiver.  It throws
\* when the socket is closed already.  The close event follows later.
DidClose(c, force, list, receiver) ==
  /\ Closable
  /\ Cleanup(receiver)
  /\ IF MayFallBack(c, force) /\ list # <<>>
     THEN /\ TryNext(list, loaded)
          /\ UNCHANGED <<readyState, code, pending>>
     ELSE /\ readyState' = "closed"
          /\ code' = IF MayFallBack(c, force) THEN 2000 ELSE c
          /\ pending' = pending + 1
          /\ transport' = None /\ delayed' = FALSE
          /\ timer' = (timer /\ ~MayFallBack(c, force))
          /\ protocol' = IF MayFallBack(c, force) THEN None ELSE protocol
          /\ protocols' = list
          /\ UNCHANGED tried
  /\ ir' = None
  /\ UNCHANGED <<browser, opens, messages, closes>>

-----------------------------------------------------------------------------
(* The info receiver.  Its onfinish forgets it before anything else.         *)

\* It finished with the server's info, or the fake one finished with none, which
\* says nothing against any protocol.
InfoAnswer(info) ==
  /\ ir = "asking"
  /\ browser.receiver = "fake" => info = [websocket |-> TRUE, cookie_needed |-> FALSE]
  /\ offered' = DetectProtocols(browser, info)
  /\ DidClose(None, FALSE, offered', None)
  /\ UNCHANGED loaded

\* The request failed, or took more than eight seconds.
InfoFail ==
  /\ ir = "asking"
  /\ browser.receiver # "fake"
  /\ DidClose(1002, TRUE, protocols, None)
  /\ UNCHANGED <<loaded, offered>>

\* An answer that is no JSON: the parser throws after the timer is cleared.
InfoGarbled ==
  /\ ir = "asking"
  /\ browser.receiver # "fake"
  /\ ir' = "stuck"
  /\ UNCHANGED <<browser, loaded, readyState, protocols, protocol, transport, delayed,
                 adrift, timer, code, pending, opens, messages, closes, offered, tried>>

-----------------------------------------------------------------------------
(* Timers and the document.                                                *)

\* The transport's time is over; the timer is not cleared when a socket closes.
TransportTimeout ==
  /\ timer
  /\ \/ /\ readyState = "connecting"
        /\ DidClose(TimedOut, FALSE, protocols, ir)
     \/ /\ readyState # "connecting"
        /\ timer' = FALSE
        /\ UNCHANGED <<browser, readyState, ir, protocols, protocol, transport, delayed,
                       adrift, code, pending, opens, messages, closes, tried>>
  /\ UNCHANGED <<loaded, offered>>

\* The handler for the load event does not look at the state of the socket.
Load ==
  /\ ~loaded
  /\ loaded' = TRUE
  /\ IF protocol = "waiting-for-load" THEN TryNext(protocols, TRUE)
     ELSE UNCHANGED <<protocols, protocol, transport, delayed, timer, tried>>
  /\ UNCHANGED <<browser, readyState, ir, adrift, code, pending, opens, messages, closes,
                 offered>>

\* The close event was delayed, so that it comes after the call that caused it.
DispatchClose ==
  /\ pending > 0
  /\ pending' = pending - 1
  /\ closes' = closes + 1
  /\ UNCHANGED <<browser, loaded, readyState, ir, protocols, protocol, transport, delayed,
                 adrift, timer, code, opens, messages, offered, tried>>

-----------------------------------------------------------------------------
(* Frames of the transport: _didMessage.  What comes from the transport of a *)
(* closed socket throws or is ignored, and changes nothing.                  *)

FrameOpen ==
  /\ transport # None /\ ~delayed
  /\ \/ /\ readyState = "connecting"
        /\ readyState' = "open"
        /\ timer' = FALSE
        /\ opens' = opens + 1
        /\ UNCHANGED <<browser, ir, protocols, protocol, transport, delayed, adrift,
                       code, pending, messages, closes, tried>>
     \/ \* the server has lost the session
        /\ readyState # "connecting"
        /\ DidClose(1006, FALSE, protocols, ir)
  /\ UNCHANGED <<loaded, offered>>

\* Frames "a" and "m".  A listener that throws cuts a batch short.
FrameMessages(n) ==
  /\ transport # None /\ ~delayed
  /\ readyState = "open"
  /\ messages + n <= MaxMessages
  /\ messages' = messages + n
  /\ UNCHANGED <<browser, loaded, readyState, ir, protocols, protocol, transport, delayed,
                 adrift, timer, code, pending, opens, closes, offered, tried>>

\* The server closes, or the transport says it has failed: its receiver, or the
\* sender of an open socket, whose requests do not wait for the receiver's.
FrameClose(c) ==
  /\ transport # None
  /\ ~delayed \/ (c = 1006 /\ readyState = "open")
  /\ DidClose(c, FALSE, protocols, ir)
  /\ UNCHANGED <<loaded, offered>>

\* The client's close(); one of a closed socket returns false.
CloseCall(c) ==
  /\ readyState \in {"connecting", "open"}
  /\ DidClose(c, FALSE, protocols, ir)
  /\ UNCHANGED <<loaded, offered>>

-----------------------------------------------------------------------------
(* Requests.                                                               *)

\* The delay of the request is over.
RequestStarts ==
  /\ delayed
  /\ delayed' = FALSE
  /\ UNCHANGED <<browser, loaded, readyState, ir, protocols, protocol, transport, adrift,
                 timer, code, pending, opens, messages, closes, offered, tried>>

\* A response came to its end, and Polling asks for the next with a new object.
NextRequest ==
  /\ transport \in AjaxProtocols /\ ~delayed
  /\ delayed' = TRUE
  /\ UNCHANGED <<browser, loaded, readyState, ir, protocols, protocol, transport, adrift,
                 timer, code, pending, opens, messages, closes, offered, tried>>

\* A request nobody listens to is answered, or fails; the one for the info is closed
\* by the receiver's own timer after eight seconds at most.
Ends(r) == r \in adrift /\ adrift' = adrift \ {r}

StrayEnds(r) ==
  /\ Ends(r)
  /\ UNCHANGED <<browser, loaded, readyState, ir, protocols, protocol, transport, delayed,
                 timer, code, pending, opens, messages, closes, offered, tried>>

InfoEnds == (\E info \in Info : InfoAnswer(info)) \/ InfoFail \/ InfoGarbled

Next ==
  \/ InfoEnds
  \/ TransportTimeout \/ Load \/ DispatchClose
  \/ FrameOpen
  \/ \E n \in 1..MaxBatch : FrameMessages(n)
  \/ \E c \in ServerCodes \cup {1006} : FrameClose(c)
  \/ \E c \in ClientCodes : CloseCall(c)
  \/ RequestStarts \/ NextRequest
  \/ \E r \in Protocols \cup {"info"} : StrayEnds(r)

Spec == Init /\ [][Next]_vars

\* Timers fire, the document gets loaded, and the request for the info is timed.
\* Neither the server nor the client need do anything: a request of a transport may
\* last for ever.
Fairness ==
  /\ WF_vars(InfoEnds) /\ WF_vars(TransportTimeout)
  /\ WF_vars(Load) /\ WF_vars(DispatchClose) /\ WF_vars(StrayEnds("info"))

FairSpec == Spec /\ Fairness

-----------------------------------------------------------------------------
(* Properties.                                                             *)

TypeOK ==
  /\ browser \in Browsers
  /\ loaded \in BOOLEAN
  /\ readyState \in {"connecting", "open", "closed"}
  /\ ir \in {"asking", "stuck", None}
  /\ protocols \in Seq(Protocols)
  /\ protocol \in Protocols \cup {"waiting-for-load", None}
  /\ transport \in Protocols \cup {None}
  /\ delayed \in BOOLEAN /\ adrift \subseteq Protocols \cup {"info"}
  /\ timer \in BOOLEAN
  /\ code \in Codes \cup {None}
  /\ pending \in {0, 1} /\ opens \in {0, 1} /\ closes \in {0, 1}
  /\ messages \in Nat
  /\ offered \in Seq(Protocols) \cup {None}
  /\ tried \in Seq(Protocols)

SocketState ==
  IF readyState # "closed" THEN readyState
  ELSE IF pending > 0 THEN "closing" ELSE "closed"

Promise == INSTANCE Socket WITH state <- SocketState

\* Through all retries, timeouts and late events the client sees one socket: it
\* opens at most once, gives messages only between its open and its close, and its
\* close is told once, eventually and last.
ImplementsSocket == Promise!Spec

\* A connection is given up only when the info could not be had or every protocol
\* the browser and the server allow has been tried, in their order and each once.
FallbackComplete ==
  /\ (readyState = "closed" /\ opens = 0) =>
       \/ UserSetCode(code)
       \/ code = 1002 /\ offered = None
       \/ code = 2000 /\ tried = offered
  /\ offered # None => tried \o protocols = offered

\* A closed socket comes to rest, although _didClose leaves things running: the timer
\* of the transport, the request for the info, the wait for the load event and the
\* close event, which end by themselves, one possibly setting off another.  What may
\* last is a request of a transport: one adrift, or that of a socket closed while it
\* waited for the load event, which opens a transport all the same.
ClosedComesToRest ==
  <>[](readyState = "closed" =>
         /\ ~timer /\ ir = None /\ "info" \notin adrift /\ pending = 0
         /\ protocol # "waiting-for-load"
         /\ transport = None \/ browser.early)

\* Connecting ends, with silent servers, transports that cannot even be constructed
\* and late documents; only an info answer that cannot be parsed hangs the socket.
ConnectingEnds ==
  readyState = "connecting" ~> (readyState # "connecting" \/ ir = "stuck")

=============================================================================
