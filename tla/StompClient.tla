---------------------------- MODULE StompClient -----------------------------
(***************************************************************************)
(* The STOMP client of the browser page (stomp.js) over a socket that keeps *)
(* the promises of Socket, the page's subscriptions, and a server as the    *)
(* client takes it to be: it reads frames in order, knows the subscriptions *)
(* it was told and sends messages for them.                                 *)
(*                                                                         *)
(* Every action is one callback of the browser or one call of the client's  *)
(* interface; a call may also come from a callback that a frame invokes,    *)
(* while the other frames of the same data still wait.                      *)
(***************************************************************************)
EXTENDS StompFrame

CONSTANTS
  Page,          \* destinations the page subscribes to once it is connected
  Destinations,  \* destinations a program may subscribe to
  Characters,    \* characters of a body
  Bodies,        \* bodies of messages
  Versions,      \* versions a server may agree to
  HeartBeats,    \* <<send, receive>>: how often a server beats and wants to be
                 \* beaten at, 0 for never
  OwnHeartBeat,  \* the client's <<send, receive>>
  OnReceive,     \* the callback of the client's field onreceive, or None: it gets
                 \* the messages no subscription has a callback for
  MaxIds,        \* bound on the ids drawn from the client's counter
  MaxWire,       \* bound on the frames under way when a program subscribes with an
                 \* id of its own or unsubscribes what is not subscribed, which
                 \* it may do over and over; 0 for never
  MaxData,       \* bound on what the server sends
  MaxSilence,    \* bound on the periods counted while the server is silent
  None

VARIABLES
  state, opens, messages, closes,  \* the socket
  connected, counter, subscriptions, pinger, ponger,  \* fields of Client
  onclose,        \* whether ws.onclose is set
  supplied,       \* ids the program has subscribed with itself; only for properties
  frames,         \* frames of the data being handled that still wait
  calling,        \* whether a callback was invoked for that data
  lost,           \* how often the error callback was told of a lost connection
  silence,        \* periods of the ponger since the server was last heard
  wire,           \* frames on their way to the server that it keeps state of
  inbox,          \* data on its way to the client, with the frames it stands for
  known,          \* the server's subscriptions: id -> destination
  sends           \* data the server has sent

Sock == INSTANCE Socket

client == <<connected, counter, subscriptions, pinger, ponger, onclose, supplied>>
server == <<wire, inbox, known, sends>>
vars   == <<state, opens, messages, closes, client, frames, calling, lost, silence,
            server>>

Ids == 0..(MaxIds - 1)

ASSUME StompAssumption ==
  /\ Page \in Seq(Destinations)
  /\ MaxIds \in Nat /\ Len(Page) <= MaxIds
  /\ MaxData \in Nat /\ MaxSilence \in Nat /\ MaxWire \in Nat
  /\ None \notin Destinations /\ OnReceive \notin Destinations
  /\ NUL \notin Characters /\ Bodies \subseteq Seq(Characters)

-----------------------------------------------------------------------------
(* Faulty variants of definitions below, for putting properties to the test. *)

\* an id is used again when its subscription has ended
FreeId ==
  IF \A id \in Ids : subscriptions[id] # None THEN counter
  ELSE CHOOSE id \in Ids : /\ subscriptions[id] = None
                           /\ \A other \in 0..(id - 1) : subscriptions[other] # None

\* the intervals go on
CleanUpNothing == connected' = FALSE /\ UNCHANGED <<pinger, ponger>>

-----------------------------------------------------------------------------
Init ==
  /\ Sock!Init
  /\ connected = FALSE
  /\ counter = 0
  /\ subscriptions = [id \in Ids |-> None]
  /\ pinger = FALSE
  /\ ponger = FALSE
  /\ onclose = TRUE
  /\ supplied = {}
  /\ frames = <<>>
  /\ calling = FALSE
  /\ lost = 0
  /\ silence = 0
  /\ wire = <<>>
  /\ inbox = <<>>
  /\ known = [id \in Ids |-> None]
  /\ sends = 0

\* A callback of the browser starts only when the one before has ended.
Idle == frames = <<>>

\* The program calls the client from a callback.
Calls == frames = <<>> \/ calling

\* _transmit, cut to the socket's frame size or not: an open socket takes the frame,
\* a closed one drops it silently, and one that is connecting throws.
Transmitted(list) == wire' = IF state = "open" THEN wire \o list ELSE wire

ToServer(command, id, destination) ==
  [command |-> command, id |-> id, destination |-> destination]

-----------------------------------------------------------------------------
(* The socket's events.                                                    *)

\* onopen
SocketOpens ==
  /\ Idle
  /\ Sock!Open
  /\ wire' = Append(wire, ToServer("CONNECT", None, None))
  /\ UNCHANGED <<client, frames, calling, lost, silence, inbox, known, sends>>

SocketBreaks ==
  /\ Idle
  /\ Sock!Close
  /\ UNCHANGED <<client, frames, calling, lost, silence, server>>

CleanUp == connected' = FALSE /\ pinger' = FALSE /\ ponger' = FALSE

\* onclose, unless disconnect has removed it.
SocketTellsClose ==
  /\ Idle
  /\ Sock!TellClose
  /\ IF onclose THEN CleanUp /\ lost' = lost + 1
     ELSE UNCHANGED <<connected, pinger, ponger, lost>>
  /\ UNCHANGED <<counter, subscriptions, onclose, supplied, frames, calling, silence,
                 server>>

\* onmessage: a line feed alone is a heartbeat, anything else frames.
SocketReceives ==
  /\ Idle
  /\ inbox # <<>>
  /\ messages' = messages + 1 /\ Sock!Receive
  /\ inbox' = Tail(inbox)
  /\ silence' = 0
  /\ frames' = IF Head(inbox).data = <<LF>> THEN <<>> ELSE Unmarshall(Head(inbox).data)
  /\ calling' = FALSE
  /\ UNCHANGED <<client, lost, wire, known, sends>>

-----------------------------------------------------------------------------
(* Frames, one after the other.                                            *)

\* _setupHeartbeat
Intervals(version, beat) ==
  LET beats == version \in {"1.1", "1.2"}
  IN  /\ pinger' = (beats /\ OwnHeartBeat[1] # 0 /\ beat[2] # 0)
      /\ ponger' = (beats /\ OwnHeartBeat[2] # 0 /\ beat[1] # 0)

\* The page's connect callback subscribes to its destinations, in their order.
PageSubscribes ==
  /\ counter + Len(Page) <= MaxIds
  /\ counter' = counter + Len(Page)
  /\ subscriptions' = [id \in Ids |-> IF id \in counter..(counter' - 1)
                         THEN Page[id - counter + 1] ELSE subscriptions[id]]
  /\ Transmitted([n \in 1..Len(Page) |-> ToServer("SUBSCRIBE", counter + n - 1, Page[n])])

HandleConnected ==
  /\ frames # <<>> /\ Head(frames).command = "CONNECTED"
  /\ connected' = TRUE
  /\ Intervals(Value(Head(frames).headers, "version"),
               Value(Head(frames).headers, "heart-beat"))
  /\ PageSubscribes
  /\ frames' = Tail(frames)
  /\ calling' = TRUE
  /\ UNCHANGED <<state, opens, messages, closes, onclose, supplied, lost, silence, inbox,
                 known, sends>>

\* Who a message is for: the callback registered under its subscription, by the
\* destination it was registered for, or else onreceive, which may be nobody.
Receiver(f) ==
  LET id == Value(f.headers, "subscription")
  IN  IF subscriptions[id] = None THEN OnReceive ELSE subscriptions[id]

\* A message invokes its callback, an error the error callback; anything else is
\* logged.  A callback that throws takes the frames behind it along.
HandleOther(throws) ==
  /\ frames # <<>> /\ Head(frames).command # "CONNECTED"
  /\ LET called == \/ Head(frames).command = "ERROR"
                   \/ Head(frames).command = "MESSAGE" /\ Receiver(Head(frames)) # None
     IN  /\ calling' = called
         /\ throws => called
  /\ frames' = IF throws THEN <<>> ELSE Tail(frames)
  /\ UNCHANGED <<state, opens, messages, closes, client, lost, silence, server>>

-----------------------------------------------------------------------------
(* The client's interface.                                                 *)

\* The bound on ids leaves the page enough of them.
Room == counter < MaxIds - (IF connected THEN 0 ELSE Len(Page))

NewId == counter

\* subscribe: the id is drawn from the counter unless the headers have one, which the
\* program has given or an earlier call has left in a headers object that is passed
\* again.  Nobody looks whether it is in use.  On a socket that is connecting,
\* _transmit throws when the callback is already registered.
Subscribe(d, id) ==
  /\ Calls
  /\ \/ Room /\ id = NewId /\ counter' = counter + 1 /\ UNCHANGED supplied
     \/ Len(wire) < MaxWire /\ supplied' = supplied \cup {id} /\ UNCHANGED counter
  /\ subscriptions' = [subscriptions EXCEPT ![id] = d]
  /\ Transmitted(<<ToServer("SUBSCRIBE", id, d)>>)
  /\ UNCHANGED <<state, opens, messages, closes, connected, pinger, ponger, onclose,
                 frames, calling, lost, silence, inbox, known, sends>>

\* unsubscribe, of any id whatever.
Unsubscribe(id) ==
  /\ Calls
  /\ subscriptions[id] # None \/ Len(wire) < MaxWire
  /\ subscriptions' = [subscriptions EXCEPT ![id] = None]
  /\ Transmitted(<<ToServer("UNSUBSCRIBE", id, None)>>)
  /\ UNCHANGED <<state, opens, messages, closes, connected, counter, pinger, ponger, onclose,
                 supplied, frames, calling, lost, silence, inbox, known, sends>>

\* begin draws its transaction's id from the same counter; what it and send, commit,
\* abort, ack and nack transmit changes no state kept here.
Begin ==
  /\ Calls
  /\ Room
  /\ counter' = counter + 1
  /\ UNCHANGED <<state, opens, messages, closes, connected, subscriptions, pinger,
                 ponger, onclose, supplied, frames, calling, lost, silence, server>>

\* disconnect; a connecting socket throws at its first line.
Disconnect ==
  /\ Calls
  /\ state # "connecting"
  /\ onclose
  /\ Transmitted(<<ToServer("DISCONNECT", None, None)>>)
  /\ onclose' = FALSE
  /\ IF state = "open" THEN Sock!Close ELSE UNCHANGED <<state, opens, messages, closes>>
  /\ CleanUp
  /\ UNCHANGED <<counter, subscriptions, supplied, frames, calling, lost, silence, inbox,
                 known, sends>>

-----------------------------------------------------------------------------
(* Heartbeats.  The pinger's callback sends a line feed and changes nothing. *)

\* now() returns the function Date.now and not what it returns; the difference of
\* two functions is no number, and no number exceeds nothing.
NaN == "NaN"

Delta(periods) == NaN

Exceeds(delta, limit) == delta # NaN /\ delta > limit

\* The ponger's callback, once in a period of length ttl.
PongCheck ==
  /\ Idle
  /\ ponger
  /\ silence' = IF silence < MaxSilence THEN silence + 1 ELSE silence
  /\ IF Exceeds(Delta(silence'), 2) /\ state = "open" THEN Sock!Close
     ELSE UNCHANGED <<state, opens, messages, closes>>
  /\ UNCHANGED <<client, frames, calling, lost, server>>

-----------------------------------------------------------------------------
(* The server.                                                             *)

\* Frames sent as one message of the socket.
Sent(list, data) ==
  /\ sends < MaxData
  /\ sends' = sends + 1
  /\ inbox' = Append(inbox, [sent |-> list, data |-> data])

SentAlone(f) == Sent(<<f>>, Marshall(f))
SentPair(f, g) == Sent(<<f, g>>, Marshall(f) \o <<LF>> \o Marshall(g) \o <<LF>>)

Connected(version, beat) ==
  Frame("CONNECTED", <<<<"version", version>>, <<"heart-beat", beat>>>>, <<>>)

ServerConnects ==
  /\ wire # <<>> /\ Head(wire).command = "CONNECT"
  /\ wire' = Tail(wire)
  /\ \E version \in Versions, beat \in HeartBeats :
       SentAlone(Connected(version, beat))
  /\ UNCHANGED <<state, opens, messages, closes, client, frames, calling, lost, silence,
                 known>>

ServerReads ==
  /\ wire # <<>> /\ Head(wire).command # "CONNECT"
  /\ wire' = Tail(wire)
  /\ known' = IF Head(wire).command = "DISCONNECT" THEN [id \in Ids |-> None]
              ELSE [known EXCEPT ![Head(wire).id] = Head(wire).destination]
  /\ UNCHANGED <<state, opens, messages, closes, client, frames, calling, lost, silence,
                 inbox, sends>>

Message(destination, id, body) ==
  Frame("MESSAGE", <<<<"destination", destination>>, <<"subscription", id>>>>, body)

\* A message for a subscription, alone or with another one and line feeds behind both.

ServerMessages(id, body) ==
  /\ known[id] # None
  /\ \/ SentAlone(Message(known[id], id, body))
     \/ \E other \in Ids :
          /\ known[other] # None
          /\ SentPair(Message(known[id], id, body), Message(known[other], other, body))
  /\ UNCHANGED <<state, opens, messages, closes, client, frames, calling, lost, silence,
                 wire, known>>

ServerBeats ==
  /\ sends > 0 /\ \E beat \in HeartBeats : beat[1] # 0
  /\ Sent(<<>>, <<LF>>)
  /\ UNCHANGED <<state, opens, messages, closes, client, frames, calling, lost, silence,
                 wire, known>>

Refusal == Frame("ERROR", <<<<"message", "refused">>>>, <<>>)

ServerRefuses ==
  /\ sends > 0
  /\ SentAlone(Refusal)
  /\ UNCHANGED <<state, opens, messages, closes, client, frames, calling, lost, silence,
                 wire, known>>

-----------------------------------------------------------------------------
Handle == HandleConnected \/ \E throws \in BOOLEAN : HandleOther(throws)

Next ==
  \/ SocketOpens \/ SocketBreaks \/ SocketTellsClose \/ SocketReceives
  \/ Handle
  \/ \E d \in Destinations, id \in Ids : Subscribe(d, id)
  \/ \E id \in Ids : Unsubscribe(id)
  \/ Begin \/ Disconnect \/ PongCheck
  \/ ServerConnects \/ ServerReads
  \/ \E id \in Ids, body \in Bodies : ServerMessages(id, body)
  \/ ServerBeats \/ ServerRefuses

Spec == Init /\ [][Next]_vars

\* Callbacks run to their end, intervals fire and a close that happened is told.
\* Nobody need call the client, and a server, or the way to it, may stay silent.
Fairness == WF_vars(Handle) /\ WF_vars(PongCheck) /\ WF_vars(SocketTellsClose)

FairSpec == Spec /\ Fairness

-----------------------------------------------------------------------------
(* Properties.                                                             *)

TypeOK ==
  /\ state \in {"connecting", "open", "closing", "closed"}
  /\ opens \in {0, 1} /\ closes \in {0, 1} /\ messages \in 0..MaxData
  /\ connected \in BOOLEAN
  /\ counter \in 0..MaxIds
  /\ subscriptions \in [Ids -> Destinations \cup {None}]
  /\ pinger \in BOOLEAN /\ ponger \in BOOLEAN
  /\ onclose \in BOOLEAN
  /\ supplied \subseteq Ids
  /\ \A n \in DOMAIN frames : frames[n].command \in {"CONNECTED", "MESSAGE", "ERROR"}
  /\ calling \in BOOLEAN
  /\ lost \in {0, 1}
  /\ silence \in 0..MaxSilence
  /\ \A n \in DOMAIN wire : wire[n].id \in Ids \cup {None}
  /\ known \in [Ids -> Destinations \cup {None}]
  /\ sends \in 0..MaxData

\* What the server sends is what the client reads, frame by frame: bodies with empty
\* lines, with characters longer than a byte, several frames and heartbeats in one
\* message of the socket.  A NUL in a body would cut it; the server's JSON has none.
FramesIntact ==
  \A n \in DOMAIN inbox :
    inbox[n].data # <<LF>> =>
      Unmarshall(inbox[n].data)
        = [k \in DOMAIN inbox[n].sent |-> AsRead(inbox[n].sent[k])]

\* A message is never handed to a callback registered for another destination, though
\* it may have been on its way while its subscription ended and others began - unless
\* the program has once subscribed with the id of its own accord, or by passing a
\* headers object again: then the later callback gets what was meant for the first.
RoutedRight ==
  \A n \in DOMAIN frames :
    LET f == frames[n]
    IN  f.command = "MESSAGE" =>
          \/ Receiver(f) \in {OnReceive, Value(f.headers, "destination")}
          \/ Value(f.headers, "subscription") \in supplied

\* The program is told of the end of its connection once, unless it was the one to
\* disconnect, and from then on the client holds itself disconnected and no interval
\* of it runs.
LossTold ==
  /\ onclose => lost = closes
  /\ lost <= closes
  /\ (closes = 1 \/ ~onclose) => ~connected /\ ~pinger /\ ~ponger

\* A server that has been silent for more than two periods is noticed.
SilenceIsNoticed ==
  (ponger /\ state = "open" /\ silence > 2) ~> (state # "open" \/ silence <= 2 \/ ~ponger)

=============================================================================
