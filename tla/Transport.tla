------------------------------ MODULE Transport ------------------------------
(***************************************************************************)
(* The transports of sockjs-0.3.4.js that work with requests: what moves the *)
(* frames of a session to the browser and the client's messages to the       *)
(* server when there is no websocket.  The receiving half has one request    *)
(* open after the other, read by one of these receivers:                     *)
(*   xhr          XhrReceiver over an XHR or XDR object                      *)
(*   jsonp        a script element for every frame                           *)
(*   iframe-xhr   XhrReceiver                                                *)
(*   eventsource  EventSourceReceiver                                        *)
(*   htmlfile     HtmlfileReceiver                                           *)
(* The last three live in an iframe that exchanges messages with the page.   *)
(* The sending half collects messages while a POST is under way.             *)
(*                                                                         *)
(* Frames and messages are numbered.  Every action is one callback of the    *)
(* browser; what SockJS does in a callback, closing included, is part of it. *)
(***************************************************************************)
EXTENDS Integers, Sequences, SequencesExt

CONSTANTS
  Kinds,        \* receivers to choose from
  MaxFrames,    \* bound on the frames of the session
  MaxMessages,  \* bound on the messages of the client
  None

VARIABLES
  kind,       \* the receiver, chosen once
  request,    \* "none", "delayed" before it is made, "running", or "ending" when it
              \* has ended and its receiver has not yet said so
  reason,     \* why the request that is ending has ended
  watching,   \* whether the timer for the document of htmlfile runs
  ended,      \* whether the server has ended the response
  net,        \* symbols of the response that have not arrived
  text,       \* symbols that have arrived
  bufPos,     \* buf_pos: how far the receiver has read them
  given,      \* frames given to SockJS
  closed,     \* SockJS has closed and called doCleanup
  atCleanup,  \* history: the frames given before that
  life,       \* of the iframe: "loading", "told" to build its transport, "built" or
              \* "removed"; a transport without an iframe is built
  up, down,   \* frames posted by the iframe to the page, messages to the iframe
  written,    \* frames the server has written
  broken,     \* the network has cut a response: the server closes the session
  sendBuffer, sendStop,  \* send_buffer and send_stop
  post,       \* the POST under way, or None
  strays,     \* batches of POSTs the client has given up, that may still arrive
  sent,       \* messages given to doSend
  read,       \* messages the server has read
  failed      \* whether a POST has failed

response == <<request, reason, watching, ended, net, text, bufPos>>
sockjs   == <<given, closed, atCleanup>>
iframe   == <<life, up, down>>
server   == <<written, broken>>
sender   == <<sendBuffer, sendStop, post, strays, sent, read, failed>>
vars     == <<kind, response, sockjs, iframe, server, sender>>

Framed == kind \in {"iframe-xhr", "eventsource", "htmlfile"}
Xhr    == kind \in {"xhr", "iframe-xhr"}

ASSUME TransportAssumption ==
  /\ Kinds \subseteq {"xhr", "jsonp", "iframe-xhr", "eventsource", "htmlfile"}
  /\ MaxFrames \in Nat /\ MaxMessages \in Nat
  /\ None \notin [batch : Seq(Nat), read : BOOLEAN]

\* A frame is its number; 0 is the line feed at its end, and a close frame where
\* frames are posted.
LF    == 0
CLOSE == 0

UpTo(n) == [i \in 1..n |-> i]

-----------------------------------------------------------------------------
(* Faulty variants of definitions below, for putting properties to the test. *)

\* all that has arrived counts as read
ReadAll(symbols) == Len(symbols)

\* a batch of nothing is posted too
BatchOfAny(list) == TRUE

\* a POST starts while another is under way
SendAtOnce == TRUE

\* after the wait nothing is scheduled
WaitAndRest(list) == /\ sendStop' = "none"
                     /\ UNCHANGED <<sendBuffer, post>>

-----------------------------------------------------------------------------
Init ==
  /\ kind \in Kinds
  /\ request = IF Framed THEN "none" ELSE IF Xhr THEN "delayed" ELSE "running"
  /\ reason = "network"
  /\ watching = FALSE
  /\ ended = FALSE
  /\ net = <<>>
  /\ text = <<>>
  /\ bufPos = 0
  /\ given = <<>>
  /\ closed = FALSE
  /\ atCleanup = <<>>
  /\ life = IF Framed THEN "loading" ELSE "built"
  /\ up = <<>>
  /\ down = <<>>
  /\ written = 0
  /\ broken = FALSE
  /\ sendBuffer = <<>>
  /\ sendStop = "none"
  /\ post = None
  /\ strays = {}
  /\ sent = 0
  /\ read = <<>>
  /\ failed = FALSE

NoResponse(next) ==
  /\ request' = next
  /\ watching' = (kind = "htmlfile" /\ next = "running")
  /\ ended' = FALSE
  /\ net' = <<>>
  /\ text' = <<>>
  /\ bufPos' = 0

\* _scheduleRecv, _schedule_recv: an XHR object delays its start, the others do not.
NewRequest ==
  /\ NoResponse(IF Xhr THEN "delayed" ELSE "running")
  /\ UNCHANGED reason

\* A receiver that is aborted: an XHR object that has not started makes its request
\* all the same, and a script cannot be stopped, but nobody listens to them any more.
AbortReceiver == NoResponse("none") /\ UNCHANGED <<reason, iframe>>

\* An iframe stays a moment longer and is not told: IframeTransport.doCleanup looks for
\* a field iframe that is not there.
LeaveIframe == up' = <<>> /\ UNCHANGED <<response, life, down>>

\* SockJS closes and calls doCleanup.
CloseAfter(frames) ==
  /\ closed' = TRUE
  /\ given' = frames
  /\ atCleanup' = frames
  /\ IF Framed THEN LeaveIframe ELSE AbortReceiver

\* What an iframe posts to a page that listens no more is lost.
PostUp(list) ==
  /\ up' = IF closed THEN up ELSE up \o list
  /\ UNCHANGED <<sockjs, life, down>>

\* The receiver gives frames to SockJS, one after the other; one of them may make
\* it close, and the receiver then keeps the rest for itself.
HandOver(list, Continue) ==
  IF Framed THEN PostUp(list) /\ Continue
  ELSE \/ /\ given' = given \o list
          /\ Continue
          /\ UNCHANGED <<closed, atCleanup, iframe>>
       \/ \E n \in 1..Len(list) : CloseAfter(given \o SubSeq(list, 1, n))

\* _didClose, or a close frame: SockJS cleans up, or is posted as much.
GiveUp ==
  IF Framed THEN PostUp(<<CLOSE>>) /\ NoResponse("none") /\ UNCHANGED reason
  ELSE CloseAfter(given)

\* onclose of a receiver: a new one, unless this one ended for good.
ReceiverEnds(why) ==
  IF why = "permanent" THEN GiveUp ELSE NewRequest /\ UNCHANGED <<sockjs, iframe>>

-----------------------------------------------------------------------------
(* XhrReceiver over AbstractXHRObject or XDRObject.                        *)

\* open may throw, which ends the request at once.
XhrStarts ==
  /\ Xhr /\ request = "delayed"
  /\ \/ /\ request' = "running"
        /\ UNCHANGED <<reason, watching, ended, net, text, bufPos, sockjs, iframe>>
     \/ ReceiverEnds("permanent")
  /\ UNCHANGED <<kind, server, sender>>

\* The end of the last frame that has arrived in full.
LastEnd(symbols) ==
  LET ends == {i \in DOMAIN symbols : symbols[i] = LF}
  IN  IF ends = {} THEN 0 ELSE CHOOSE i \in ends : \A j \in ends : j <= i

\* The frames behind buf_pos that have arrived in full, each with a line feed behind it.
Complete(symbols) ==
  [n \in 1..((LastEnd(symbols) - bufPos) \div 2) |-> symbols[bufPos + 2 * n - 1]]

\* Where the receiver goes on reading.
NextPos(symbols) == LastEnd(symbols)

\* onchunk, with a text that may end within a frame.
XhrChunk ==
  /\ Xhr /\ request = "running"
  /\ \E n \in 1..Len(net) :
       LET arrived == text \o SubSeq(net, 1, n)
       IN  HandOver(Complete(arrived),
                    /\ text' = arrived
                    /\ bufPos' = NextPos(arrived)
                    /\ net' = SubSeq(net, n + 1, Len(net))
                    /\ UNCHANGED <<request, reason, watching, ended>>)
  /\ UNCHANGED <<kind, server, sender>>

\* onfinish with status 200 reads what is left, chunks that were not told included.
XhrFinish ==
  /\ Xhr /\ request = "running"
  /\ ended
  /\ HandOver(Complete(text \o net), NewRequest)
  /\ UNCHANGED <<kind, server, sender>>

\* Any other status, 0 for a network that broke: the text is not read.
XhrFails ==
  /\ Xhr /\ request = "running"
  /\ ReceiverEnds("permanent")
  /\ broken' = TRUE
  /\ UNCHANGED <<kind, written, sender>>

-----------------------------------------------------------------------------
(* EventSourceReceiver and HtmlfileReceiver are given whole frames.        *)

\* A message event, or a call of the hook "message" by the document.
FrameArrives ==
  /\ kind \in {"eventsource", "htmlfile"} /\ request = "running"
  /\ net # <<>>
  /\ HandOver(<<Head(net)>>,
              /\ net' = SubSeq(net, 3, Len(net))
              /\ UNCHANGED <<request, reason, watching, ended, text, bufPos>>)
  /\ UNCHANGED <<kind, server, sender>>

\* A response has broken off, unless all of it has arrived.
BreaksOff == broken' = (broken \/ ~ended \/ net # <<>>)

\* A response that ended or broke off is a "network" error, one the browser does not
\* accept at all a "permanent" one.
EventSourceError ==
  /\ kind = "eventsource" /\ request = "running"
  /\ \/ reason' = "network" /\ BreaksOff
     \/ reason' = "permanent" /\ broken' = TRUE
  /\ NoResponse("ending")
  /\ UNCHANGED <<kind, sockjs, iframe, written, sender>>

\* 200 ms later.
EventSourceCloses ==
  /\ kind = "eventsource" /\ request = "ending"
  /\ ReceiverEnds(reason)
  /\ UNCHANGED <<kind, server, sender>>

\* The document calls "start", and from then on nothing watches over it.
HtmlfileStarts ==
  /\ watching
  /\ watching' = FALSE
  /\ UNCHANGED <<kind, request, reason, ended, net, text, bufPos, sockjs, iframe, server,
                 sender>>

HtmlfileTimeout ==
  /\ watching
  /\ ReceiverEnds("permanent")
  /\ UNCHANGED <<kind, server, sender>>

\* The document calls "stop" when it has ended.
HtmlfileStops ==
  /\ kind = "htmlfile" /\ request = "running" /\ ~watching
  /\ BreaksOff
  /\ ReceiverEnds("network")
  /\ UNCHANGED <<kind, written, sender>>

-----------------------------------------------------------------------------
(* JSONP: a script that calls its hook with one frame.                     *)

ScriptCalls ==
  /\ kind = "jsonp" /\ request = "running"
  /\ net # <<>>
  /\ HandOver(<<Head(net)>>, NewRequest)
  /\ UNCHANGED <<kind, server, sender>>

\* The script has loaded without a call, has failed and not called within a second of
\* that, or 35 seconds have passed: SockJS is given a close frame in place of one of
\* the server.
ScriptFails ==
  /\ kind = "jsonp" /\ request = "running"
  /\ GiveUp
  /\ UNCHANGED <<kind, server, sender>>

-----------------------------------------------------------------------------
\* SockJS closes: its client, a timeout or a failure elsewhere.
SockJSCloses ==
  /\ ~closed
  /\ CloseAfter(given)
  /\ UNCHANGED <<kind, server, sender>>

-----------------------------------------------------------------------------
(* The sender.                                                             *)

\* A batch of nothing is not posted.
Worth(list) == list # <<>>

\* send_schedule, while send_buffer is list.
SendSchedule(list) ==
  IF Worth(list)
  THEN /\ post' = [batch |-> list, read |-> FALSE]
       /\ sendStop' = "posting"
       /\ sendBuffer' = <<>>
  ELSE sendStop' = "none" /\ sendBuffer' = list /\ UNCHANGED post

AfterWait(list) == SendSchedule(list)

NothingUnderWay == sendStop = "none"

\* BufferedSender.doSend
Buffer(message) ==
  IF NothingUnderWay THEN SendSchedule(Append(sendBuffer, message))
  ELSE sendBuffer' = Append(sendBuffer, message) /\ UNCHANGED <<sendStop, post>>

\* doSend of a transport, for a message SockJS accepts while it is open.
DoSend ==
  /\ ~closed /\ given # <<>>
  /\ sent < MaxMessages
  /\ sent' = sent + 1
  /\ IF Framed THEN down' = Append(down, sent') /\ UNCHANGED <<sendBuffer, sendStop, post>>
     ELSE Buffer(sent') /\ UNCHANGED down
  /\ UNCHANGED <<kind, response, sockjs, life, up, server, strays, read, failed>>

\* A POST that is given up may be read all the same.
Abandoned == IF post = None \/ post.read THEN {} ELSE {post.batch}

\* The callback of a POST that went well: 200 or 204.  A form cannot tell whether it
\* was submitted, and an error counts as well.
PostSucceeds ==
  /\ post # None
  /\ post.read \/ kind = "jsonp"
  /\ post' = None
  /\ strays' = strays \cup Abandoned
  /\ sendStop' = "waiting"
  /\ UNCHANGED <<kind, response, sockjs, iframe, server, sendBuffer, sent, read, failed>>

\* ... and of one that failed, read by the server or not.  SockJS closes; when it is
\* closed already it throws, and that is all.  What waits in the buffer stays there,
\* but in an iframe sending goes on until the page has heard of it.
PostFails ==
  /\ post # None /\ kind # "jsonp"
  /\ post' = None
  /\ strays' = strays \cup Abandoned
  /\ sendStop' = "none"
  /\ failed' = TRUE
  /\ IF Framed THEN PostUp(<<CLOSE>>) /\ UNCHANGED response
     ELSE IF closed THEN UNCHANGED <<response, sockjs, iframe>>
     ELSE CloseAfter(given)
  /\ UNCHANGED <<kind, server, sendBuffer, sent, read>>

\* The timer of send_schedule_wait.  No cleanup stops it: send_destructor looks for
\* _send_stop where send_stop is set.
WaitOver ==
  /\ sendStop = "waiting"
  /\ AfterWait(sendBuffer)
  /\ UNCHANGED <<kind, response, sockjs, iframe, server, strays, sent, read, failed>>

-----------------------------------------------------------------------------
(* The iframe: IframeTransport in the page, bootstrap_iframe and FacadeJS in it. *)

\* It says that it is there, and the page answers with what to build.
IframeLoads ==
  /\ life = "loading" /\ ~closed
  /\ life' = "told"
  /\ UNCHANGED <<kind, response, sockjs, up, down, server, sender>>

IframeBuilds ==
  /\ life = "told"
  /\ life' = "built"
  /\ NewRequest
  /\ UNCHANGED <<kind, sockjs, up, down, server, sender>>

\* It fails to load, or has not said anything in time.
IframeTimeout ==
  /\ life = "loading" /\ ~closed
  /\ CloseAfter(given)
  /\ UNCHANGED <<kind, server, sender>>

\* The page gives a posted frame to SockJS, which may close at it.
PageReceives ==
  /\ up # <<>>
  /\ \/ /\ Head(up) # CLOSE
        /\ given' = Append(given, Head(up))
        /\ up' = Tail(up)
        /\ UNCHANGED <<response, closed, atCleanup, life, down>>
     \/ CloseAfter(IF Head(up) = CLOSE THEN given ELSE Append(given, Head(up)))
  /\ UNCHANGED <<kind, server, sender>>

\* A message of the page reaches the sender in the iframe.
IframeSends ==
  /\ down # <<>> /\ life = "built"
  /\ Buffer(Head(down))
  /\ down' = Tail(down)
  /\ UNCHANGED <<kind, response, sockjs, life, up, server, strays, sent, read, failed>>

\* Whatever runs in an iframe ends with it.
IframeRemoved ==
  /\ Framed /\ closed /\ life # "removed"
  /\ life' = "removed"
  /\ down' = <<>>
  /\ NoResponse("none")
  /\ sendBuffer' = <<>>
  /\ sendStop' = "none"
  /\ post' = None
  /\ strays' = strays \cup Abandoned
  /\ UNCHANGED <<kind, reason, sockjs, up, server, sent, read, failed>>

-----------------------------------------------------------------------------
(* The server, as far as the transports depend on it: it writes whole frames *)
(* into a response, ends it when it likes, and closes a session whose         *)
(* response broke.                                                           *)

Listening == request = "running" /\ ~watching

ServerWrites ==
  /\ Listening
  /\ ~ended /\ ~broken
  /\ written < MaxFrames
  /\ written' = written + 1
  /\ net' = net \o <<written', LF>>
  /\ ended' = (kind = "jsonp")
  /\ UNCHANGED <<kind, request, reason, watching, text, bufPos, sockjs, iframe, broken,
                 sender>>

ServerEnds ==
  /\ Listening
  /\ ~ended
  /\ ended' = TRUE
  /\ UNCHANGED <<kind, request, reason, watching, net, text, bufPos, sockjs, iframe,
                 server, sender>>

\* The close frame of a session that is gone.  A receiver in an iframe would ask for
\* more and be given it again, which is left out.
ServerCloses ==
  /\ Listening
  /\ broken
  /\ GiveUp
  /\ UNCHANGED <<kind, server, sender>>

ServerReads ==
  /\ post # None /\ ~post.read
  /\ read' = read \o post.batch
  /\ post' = [post EXCEPT !.read = TRUE]
  /\ UNCHANGED <<kind, response, sockjs, iframe, server, sendBuffer, sendStop, strays,
                 sent, failed>>

ServerReadsLate ==
  /\ \E batch \in strays :
       /\ read' = read \o batch
       /\ strays' = strays \ {batch}
  /\ UNCHANGED <<kind, response, sockjs, iframe, server, sendBuffer, sendStop, post,
                 sent, failed>>

-----------------------------------------------------------------------------
Receive ==
  \/ XhrStarts \/ XhrChunk \/ XhrFinish \/ XhrFails
  \/ FrameArrives \/ EventSourceError \/ EventSourceCloses
  \/ HtmlfileStarts \/ HtmlfileTimeout \/ HtmlfileStops
  \/ ScriptCalls \/ ScriptFails

PostEnds == PostSucceeds \/ PostFails

Iframe == \/ IframeLoads \/ IframeBuilds \/ IframeTimeout
          \/ PageReceives \/ IframeSends \/ IframeRemoved

Server == ServerWrites \/ ServerEnds \/ ServerCloses \/ ServerReads \/ ServerReadsLate

Next == Receive \/ SockJSCloses \/ DoSend \/ PostEnds \/ WaitOver \/ Iframe \/ Server

Spec == Init /\ [][Next]_vars

\* A POST ends somehow, at the latest when the browser gives it up, and timers fire.
Fairness == WF_vars(ServerReads) /\ WF_vars(PostEnds) /\ WF_vars(WaitOver)

FairSpec == Spec /\ Fairness

-----------------------------------------------------------------------------
(* Properties.                                                             *)

TypeOK ==
  /\ kind \in Kinds
  /\ request \in {"none", "delayed", "running", "ending"}
  /\ reason \in {"network", "permanent"}
  /\ watching \in BOOLEAN /\ ended \in BOOLEAN
  /\ net \in Seq(Nat) /\ text \in Seq(Nat)
  /\ bufPos \in 0..Len(text)
  /\ given \in Seq(Nat) /\ closed \in BOOLEAN /\ atCleanup \in Seq(Nat)
  /\ life \in {"loading", "told", "built", "removed"}
  /\ up \in Seq(Nat) /\ down \in Seq(Nat)
  /\ written \in 0..MaxFrames /\ broken \in BOOLEAN
  /\ sendBuffer \in Seq(Nat)
  /\ sendStop \in {"none", "posting", "waiting"}
  /\ IF sendStop = "posting"
     THEN post \in [batch : Seq(Nat) \ {<<>>}, read : BOOLEAN]
     ELSE post = None
  /\ strays \subseteq Seq(Nat)
  /\ sent \in 0..MaxMessages /\ read \in Seq(Nat) /\ failed \in BOOLEAN

\* What is still on its way from the server to SockJS.
OnTheirWay == up \o (SubSeq(text, bufPos + 1, Len(text)) \o net)

\* The frames among symbols are those from n + 1 to m, in order and each once.
Numbered(symbols, n, m) ==
  /\ \A i \in DOMAIN symbols : symbols[i] # LF => symbols[i] \in (n + 1)..m
  /\ \A i, j \in DOMAIN symbols :
       (i < j /\ symbols[i] # LF /\ symbols[j] # LF) => symbols[i] < symbols[j]
  /\ \A k \in (n + 1)..m : \E i \in DOMAIN symbols : symbols[i] = k

\* However the texts of a response are cut, and whatever responses end or break, SockJS
\* is given the frames of its session in order, each once and none left out, and there
\* is a request for the next or word that there will be none.  With the cleanup, which
\* may come in the middle of a batch of frames, this is over.
StreamIntact ==
  /\ IsPrefix(given, UpTo(written))
  /\ closed => given = atCleanup
  /\ ~closed => \/ request # "none"
                \/ life \in {"loading", "told"}
                \/ \E n \in DOMAIN up : up[n] = CLOSE
  /\ ~closed /\ ~broken => Numbered(OnTheirWay, Len(given), written)

\* Messages reach the server in the order they were sent, each once, though POSTs are
\* lost, answered late or not at all; without a POST that fails none is missing, also
\* when the socket was closed while they waited.  With one that fails the server may
\* miss the last ones only.  An iframe keeps this until a POST fails and loses what
\* waits when it is removed; JSONP promises nothing of the kind.
SendsInOrder ==
  kind # "jsonp" =>
    /\ ~failed \/ ~Framed => IsPrefix(read, UpTo(sent))
    /\ ~failed /\ life # "removed" =>
         read \o (IF post # None /\ ~post.read THEN post.batch ELSE <<>>)
              \o sendBuffer \o down = UpTo(sent)

\* Every message that waits in the buffer is posted, closed socket or not, unless a
\* POST fails before it.  The removal of an iframe loses what waits in it.
BufferDrains ==
  \A m \in 1..MaxMessages :
    (\E n \in DOMAIN sendBuffer : sendBuffer[n] = m) ~>
      \/ post # None /\ \E n \in DOMAIN post.batch : post.batch[n] = m
      \/ failed
      \/ life = "removed"

=============================================================================
