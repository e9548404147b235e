---------------------------- MODULE SockJSProofs ----------------------------
(***************************************************************************)
(* What SockJS promises its client, for any browsers, codes and batches: the *)
(* fallback leaves no protocol out, and every step is one of the abstract     *)
(* socket or none.  That the close is eventually told, and that a closed      *)
(* socket comes to rest, is checked by TLC.                                  *)
(***************************************************************************)
EXTENDS SockJS, SequenceTheorems, TLAPS

\* Where the list of protocols stands, and who may still open one.
ListInv ==
  /\ offered = None =>
       /\ protocols = <<>> /\ tried = <<>>
       /\ protocol = None /\ transport = None /\ ~timer
  /\ offered # None => tried \o protocols = offered
  /\ ir = "asking" => offered = None /\ readyState = "connecting"
  /\ protocol = "waiting-for-load" =>
       /\ protocols # <<>>
       /\ ~loaded /\ browser.early
       /\ transport = None /\ ~timer
       /\ readyState # "open"
       /\ readyState = "closed" => UserSetCode(code)
  /\ browser.early \/ loaded
  /\ delayed => transport \in Protocols

\* How often events have been told, in each state.
EventInv ==
  /\ readyState = "connecting" => opens = 0 /\ pending = 0 /\ closes = 0
  /\ readyState = "open" => opens = 1 /\ pending = 0 /\ closes = 0
  /\ readyState = "closed" => pending + closes = 1

\* Why a socket that never opened has closed.
CodeInv ==
  (readyState = "closed" /\ opens = 0) =>
    \/ UserSetCode(code)
    \/ code = 1002 /\ offered = None
    \/ code = 2000 /\ tried = offered /\ protocol = None

SocketInv == TypeOK /\ ListInv /\ EventInv /\ CodeInv

\* What is taken from the head of one list may go to the end of another.
LEMMA HeadMoves ==
  ASSUME NEW S, NEW s \in Seq(S), NEW t \in Seq(S), t # <<>>
  PROVE  Append(s, Head(t)) \o Tail(t) = s \o t
<1>1. /\ Tail(t) \in Seq(S) /\ Head(t) \in S /\ Len(Tail(t)) = Len(t) - 1
      /\ Append(s, Head(t)) \in Seq(S) /\ Len(t) \in Nat \ {0} /\ Len(s) \in Nat
  BY HeadTailProperties, EmptySeq
<1>2. /\ Append(s, Head(t)) \o Tail(t) \in Seq(S)
      /\ s \o t \in Seq(S)
      /\ Len(Append(s, Head(t)) \o Tail(t)) = Len(s \o t)
  BY <1>1, ConcatProperties
<1>3. ASSUME NEW i \in 1..Len(s \o t)
      PROVE  (Append(s, Head(t)) \o Tail(t))[i] = (s \o t)[i]
  BY <1>1
<1>4. QED
  BY <1>2, <1>3, SeqEqual

\* The groups of protocols have two members at most.
LEMMA FirstType ==
  ASSUME NEW names \in Seq(Protocols), Len(names) \in {1, 2}, NEW enabled
  PROVE  FirstOf(names, enabled) \in Seq(Protocols)
<1>1. CASE \A n \in DOMAIN names : names[n] \notin enabled
  BY <1>1 DEF FirstOf
<1>2. CASE \E n \in DOMAIN names : names[n] \in enabled
  <2> DEFINE Q(n) == /\ names[n] \in enabled
                     /\ \A m \in 1..(n - 1) : names[m] \notin enabled
  <2>1. DOMAIN names = 1..Len(names)
    BY LenProperties
  <2>2. names[1] \in enabled => 1 \in DOMAIN names /\ Q(1)
    BY <2>1
  <2>3. names[1] \notin enabled => 2 \in DOMAIN names /\ Q(2)
    BY <1>2, <2>1
  <2>4. \E n \in DOMAIN names : Q(n)
    BY <2>2, <2>3
  <2>5. (CHOOSE n \in DOMAIN names : Q(n)) \in DOMAIN names
    BY <2>4
  <2>6. names[CHOOSE n \in DOMAIN names : Q(n)] \in Protocols
    BY <2>1, <2>5, ElementOfSeq
  <2>7. FirstOf(names, enabled) = <<names[CHOOSE n \in DOMAIN names : Q(n)]>>
    BY <1>2 DEF FirstOf
  <2>8. QED
    BY <2>6, <2>7
<1>3. QED
  BY <1>1, <1>2

LEMMA DetectType ==
  ASSUME NEW b, NEW info PROVE DetectProtocols(b, info) \in Seq(Protocols)
<1>1. ASSUME NEW xhr \in Protocols, NEW xdr \in Protocols,
             NEW others \in Seq(Protocols), Len(others) \in {1, 2}
      PROVE  Ajax(xhr, xdr, others, b, info) \in Seq(Protocols)
  BY <1>1, FirstType DEF Ajax
<1>2. FirstOf(<<"websocket">>, b.enabled) \in Seq(Protocols)
  <2>1. <<"websocket">> \in Seq(Protocols) /\ Len(<<"websocket">>) = 1
    BY DEF Protocols
  <2>2. QED
    BY <2>1, FirstType
<1>3. /\ <<"iframe-eventsource", "iframe-htmlfile">> \in Seq(Protocols)
      /\ <<"iframe-xhr-polling", "jsonp-polling">> \in Seq(Protocols)
      /\ {"xhr-streaming", "xdr-streaming", "xhr-polling", "xdr-polling"} \subseteq Protocols
      /\ Len(<<"iframe-eventsource", "iframe-htmlfile">>) = 2
      /\ Len(<<"iframe-xhr-polling", "jsonp-polling">>) = 2
  BY DEF Protocols
<1> DEFINE first == IF info.websocket THEN FirstOf(<<"websocket">>, b.enabled) ELSE <<>>
           stream == Ajax("xhr-streaming", "xdr-streaming",
                          <<"iframe-eventsource", "iframe-htmlfile">>, b, info)
           poll == Ajax("xhr-polling", "xdr-polling",
                        <<"iframe-xhr-polling", "jsonp-polling">>, b, info)
<1>4. first \in Seq(Protocols) /\ stream \in Seq(Protocols) /\ poll \in Seq(Protocols)
  <2>1. first \in Seq(Protocols)
    BY <1>2
  <2>2. stream \in Seq(Protocols)
    BY <1>1, <1>3
  <2>3. poll \in Seq(Protocols)
    BY <1>1, <1>3
  <2>4. QED
    BY <2>1, <2>2, <2>3
<1>5. DetectProtocols(b, info) = first \o stream \o poll
  BY DEF DetectProtocols
<1>6. QED
  BY <1>4, <1>5, ConcatProperties

LEMMA NoneIsNoUserCode == ~UserSetCode(None)
<1>1. 1000 \in Nat /\ 3000..4999 \subseteq Nat
  OBVIOUS
<1>2. None \notin Nat
  BY SockJSAssumption
<1>3. QED
  BY <1>1, <1>2 DEF UserSetCode

-----------------------------------------------------------------------------
\* Going on to the next protocol loses none, and waits only for the document.
LEMMA TryNextEffect ==
  ASSUME TypeOK, NEW list \in Seq(Protocols), list # <<>>, NEW body \in BOOLEAN,
         TryNext(list, body)
  PROVE  /\ protocols' \in Seq(Protocols) /\ tried' \in Seq(Protocols)
         /\ protocol' \in Protocols \cup {"waiting-for-load"}
         /\ transport' \in Protocols \cup {None}
         /\ timer' \in BOOLEAN
         /\ delayed' \in BOOLEAN /\ (delayed' => transport' \in Protocols)
         /\ tried' \o protocols' = tried \o list
         /\ protocol' = "waiting-for-load" =>
              protocols' = list /\ ~body /\ transport' = None /\ ~timer'
<1>1. Head(list) \in Protocols /\ Tail(list) \in Seq(Protocols)
  BY HeadTailProperties
<1>2. "waiting-for-load" \notin Protocols
  BY DEF Protocols
<1>3. CASE WaitForLoad(list) /\ ~body
  <2>1. /\ protocol' = "waiting-for-load" /\ protocols' = list /\ transport' = None
        /\ timer' = FALSE /\ delayed' = FALSE /\ tried' = tried
    BY <1>3 DEF WaitForLoad
  <2>2. /\ timer' \in BOOLEAN /\ ~timer'
        /\ delayed' \in BOOLEAN /\ (delayed' => transport' \in Protocols)
    BY <2>1, Zenon
  <2>3. tried \in Seq(Protocols) /\ ~body
    BY <1>3 DEF TypeOK
  <2>4. QED
    BY <2>1, <2>2, <2>3
<1>4. CASE OpenTransport(list)
  <2>1. tried' = Append(tried, Head(list)) /\ protocols' = Tail(list)
    BY <1>4 DEF OpenTransport
  <2>2. tried' \o protocols' = tried \o list
    BY <2>1, HeadMoves DEF TypeOK
  <2>3. tried' \in Seq(Protocols)
    BY <1>1, <2>1 DEF TypeOK
  <2>4. delayed' \in BOOLEAN /\ (delayed' => transport' \in Protocols)
    <3>1. delayed' = (transport' \in AjaxProtocols)
      BY <1>4, Zenon DEF OpenTransport
    <3>2. delayed' \in BOOLEAN
      BY <3>1, SMT
    <3>3. delayed' => transport' \in AjaxProtocols
      BY <3>1, Zenon
    <3>4. AjaxProtocols \subseteq Protocols
      BY DEF AjaxProtocols, Protocols
    <3>5. QED
      BY <3>2, <3>3, <3>4, Zenon
  <2>5. /\ protocol' = Head(list)
        /\ transport' \in {Head(list), None}
    BY <1>4, Zenon DEF OpenTransport
  <2>6. timer' \in BOOLEAN
    BY <1>4, Zenon DEF OpenTransport
  <2>7. QED
    BY <1>1, <1>2, <2>1, <2>2, <2>3, <2>4, <2>5, <2>6
<1>5. QED
  BY <1>3, <1>4 DEF TryNext

\* The code the info receiver closes with.
OfInfo(c) == c = 1002

\* _didClose keeps the invariant, if it is forced only for an info that could not be
\* had and is not called before there are protocols, except to close for good.
LEMMA DidCloseKeeps ==
  ASSUME SocketInv, NEW c \in Codes \cup {None}, NEW force \in BOOLEAN,
         NEW list \in Seq(Protocols), NEW receiver, DidClose(c, force, list, receiver),
         loaded' = loaded,
         \/ list = protocols /\ offered' = offered
         \/ ir = "asking" /\ offered' = list /\ c = None,
         c = None => readyState = "connecting" /\ ~force,
         force => OfInfo(c) /\ offered' = None,
         offered' # None \/ UserSetCode(c) \/ force
  PROVE  SocketInv'
<1> USE DEF SocketInv
<1>1. c \in Nat \/ (c = None /\ ~force /\ readyState = "connecting")
  BY SockJSAssumption DEF Codes, TimedOut
<1>2. offered' # None => tried \o list = offered'
  <2>1. CASE list = protocols /\ offered' = offered
    BY <2>1 DEF ListInv
  <2>2. CASE ir = "asking" /\ offered' = list
    <3>1. tried = <<>>
      BY <2>2 DEF ListInv
    <3>2. QED
      BY <2>2, <3>1, ConcatEmptySeq
  <2>3. QED
    BY <2>1, <2>2
<1>3. /\ ir' = None
      /\ UNCHANGED <<browser, opens, messages, closes>>
      /\ readyState \in {"connecting", "open"}
  BY DEF DidClose, Closable
<1>4. adrift' \subseteq Protocols \cup {"info"}
  <2>1. PICK scripts \in SUBSET ({transport} \cap {"jsonp-polling"}) :
          adrift' = adrift \cup {r \in {"info"} : receiver = "asking"}
                           \cup {r \in {transport} : delayed}
                           \cup scripts
    BY DEF DidClose, Cleanup
  <2>2. scripts \subseteq Protocols
    BY DEF Protocols
  <2>3. delayed => transport \in Protocols
    BY DEF ListInv
  <2>4. adrift \subseteq Protocols \cup {"info"}
    BY DEF TypeOK
  <2>5. QED
    BY <2>1, <2>2, <2>3, <2>4
<1>5. CASE MayFallBack(c, force) /\ list # <<>>
  <2>1. TryNext(list, loaded) /\ UNCHANGED <<readyState, code, pending>>
    BY <1>5 DEF DidClose
  <2>2. readyState = "connecting" /\ ~force /\ ~UserSetCode(c)
    BY <1>5 DEF MayFallBack
  <2>3. loaded \in BOOLEAN
    BY DEF TypeOK
  <2>4. /\ protocols' \in Seq(Protocols) /\ tried' \in Seq(Protocols)
        /\ protocol' \in Protocols \cup {"waiting-for-load"}
        /\ transport' \in Protocols \cup {None}
        /\ timer' \in BOOLEAN
        /\ delayed' \in BOOLEAN /\ (delayed' => transport' \in Protocols)
        /\ tried' \o protocols' = tried \o list
        /\ protocol' = "waiting-for-load" =>
             protocols' = list /\ ~loaded /\ transport' = None /\ ~timer'
    BY <1>5, <2>1, <2>3, TryNextEffect
  <2>5. offered' # None /\ offered' \in Seq(Protocols)
    BY <2>2, SockJSAssumption DEF TypeOK
  <2>6. TypeOK'
    BY <1>3, <1>4, <2>1, <2>4, <2>5 DEF TypeOK
  <2>7. ListInv'
    BY <1>2, <1>3, <1>5, <2>1, <2>2, <2>4, <2>5, SockJSAssumption DEF ListInv
  <2>8. EventInv' /\ CodeInv'
    BY <1>3, <2>1, <2>2 DEF EventInv, CodeInv
  <2>9. QED
    BY <2>6, <2>7, <2>8
<1>6. CASE MayFallBack(c, force) /\ list = <<>>
  <2>1. /\ readyState' = "closed" /\ code' = 2000 /\ pending' = pending + 1
        /\ transport' = None /\ protocol' = None
        /\ protocols' = <<>> /\ tried' = tried /\ (timer' => FALSE)
        /\ timer' \in BOOLEAN /\ delayed' \in BOOLEAN /\ ~delayed'
    <3>1. timer' = (timer /\ ~MayFallBack(c, force)) /\ delayed' = FALSE
      BY <1>6, Zenon DEF DidClose
    <3>2. /\ timer' \in BOOLEAN /\ (timer' => FALSE)
          /\ delayed' \in BOOLEAN /\ ~delayed'
      BY <3>1, <1>6, Zenon
    <3>3. QED
      BY <1>6, <3>2 DEF DidClose
  <2>2. readyState = "connecting" /\ ~force /\ ~UserSetCode(c)
    BY <1>6 DEF MayFallBack
  <2>3. offered' # None /\ offered' \in Seq(Protocols)
    BY <2>2, SockJSAssumption DEF TypeOK
  <2>4. tried \o <<>> = tried /\ <<>> \in Seq(Protocols)
    BY ConcatEmptySeq DEF TypeOK
  <2>5. TypeOK'
    BY <1>3, <1>4, <2>1, <2>2, <2>3, <2>4 DEF TypeOK, EventInv, Codes
  <2>6. ListInv'
    BY <1>2, <1>3, <1>6, <2>1, <2>3, SockJSAssumption DEF ListInv
  <2>7. EventInv' /\ CodeInv'
    BY <1>2, <1>3, <1>6, <2>1, <2>2, <2>3, <2>4 DEF EventInv, CodeInv
  <2>8. QED
    BY <2>5, <2>6, <2>7
<1>7. CASE ~MayFallBack(c, force)
  <2>1. /\ readyState' = "closed" /\ code' = c /\ pending' = pending + 1
        /\ transport' = None /\ protocol' = protocol
        /\ protocols' = list /\ tried' = tried /\ (timer' => timer)
        /\ timer' \in BOOLEAN /\ delayed' \in BOOLEAN /\ ~delayed'
    <3>1. timer' = (timer /\ ~MayFallBack(c, force)) /\ delayed' = FALSE
      BY <1>7, Zenon DEF DidClose
    <3>2. /\ timer' \in BOOLEAN /\ (timer' => timer)
          /\ delayed' \in BOOLEAN /\ ~delayed'
      BY <3>1, <1>7, Zenon
    <3>3. QED
      BY <1>7, <3>2 DEF DidClose
  <2>2. c # None
    BY <1>7, NoneIsNoUserCode DEF MayFallBack
  <2>3. list = protocols /\ offered' = offered /\ c \in Codes
    BY <2>2
  <2>4. readyState = "connecting" => UserSetCode(c) \/ (c = 1002 /\ offered = None)
    BY <1>7, <2>3 DEF MayFallBack, OfInfo
  <2>5. TypeOK'
    BY <1>3, <1>4, <2>1, <2>3 DEF TypeOK, EventInv
  <2>6. ListInv'
    BY <1>3, <2>1, <2>3, <2>4, SockJSAssumption DEF ListInv
  <2>7. EventInv'
    BY <1>3, <2>1 DEF EventInv
  <2>8. CodeInv'
    BY <1>3, <2>1, <2>3, <2>4 DEF CodeInv, EventInv
  <2>9. QED
    BY <2>5, <2>6, <2>7, <2>8
<1>8. QED
  BY <1>5, <1>6, <1>7

-----------------------------------------------------------------------------
LEMMA SocketInit == Init => SocketInv
<1> SUFFICES ASSUME Init PROVE SocketInv
  OBVIOUS
<1>1. TypeOK
  <2>1. browser \in Browser /\ loaded = ~browser.early
    BY SockJSAssumption DEF Init
  <2>2. browser.early \in BOOLEAN
    BY <2>1 DEF Browser
  <2>3. loaded \in BOOLEAN
    BY <2>1, <2>2, Zenon
  <2>4. timer \in BOOLEAN /\ delayed \in BOOLEAN /\ ~delayed
    BY Zenon DEF Init
  <2>5. /\ browser \in Browsers /\ readyState = "connecting" /\ ir = "asking"
        /\ protocols = <<>> /\ protocol = None /\ transport = None /\ adrift = {}
        /\ code = None
        /\ pending = 0 /\ opens = 0 /\ messages = 0 /\ closes = 0
        /\ offered = None /\ tried = <<>>
    BY DEF Init
  <2>6. QED
    BY <2>3, <2>4, <2>5 DEF TypeOK
<1>2. browser.early \/ loaded
  <2>1. browser \in Browser /\ loaded = ~browser.early
    BY SockJSAssumption DEF Init
  <2>2. browser.early \in BOOLEAN
    BY <2>1 DEF Browser
  <2>3. QED
    BY <2>1, <2>2, Zenon
<1>3. ListInv
  BY <1>2, SockJSAssumption DEF Init, ListInv
<1>4. EventInv /\ CodeInv
  BY DEF Init, EventInv, CodeInv
<1>5. QED
  BY <1>1, <1>3, <1>4 DEF SocketInv

LEMMA CodesOfClosing ==
  /\ {1002, TimedOut, 1006} \subseteq Codes /\ ServerCodes \subseteq Codes
  /\ ClientCodes \subseteq Codes /\ None \notin Codes
<1>1. Codes \subseteq Nat
  BY SockJSAssumption DEF Codes, TimedOut
<1>2. None \notin Nat
  BY SockJSAssumption
<1>3. QED
  BY <1>1, <1>2 DEF Codes, TimedOut

\* The calls of _didClose that are not the info receiver's.
LEMMA ClosingKeeps ==
  ASSUME SocketInv, NEW c \in Codes, DidClose(c, FALSE, protocols, ir),
         loaded' = loaded, offered' = offered,
         offered # None \/ UserSetCode(c)
  PROVE  SocketInv'
<1>1. c # None /\ protocols \in Seq(Protocols)
  BY CodesOfClosing DEF SocketInv, TypeOK
<1>2. QED
  BY <1>1, DidCloseKeeps

\* The call of _didClose that the info receiver makes when it fails.
LEMMA ForcedClosingKeeps ==
  ASSUME SocketInv, NEW c \in Codes, OfInfo(c), DidClose(c, TRUE, protocols, None),
         loaded' = loaded, offered' = offered, offered' = None
  PROVE  SocketInv'
<1>1. c \in Codes \cup {None} /\ c # None /\ protocols \in Seq(Protocols)
  BY CodesOfClosing DEF SocketInv, TypeOK
<1>2. ASSUME NEW force \in BOOLEAN, force, DidClose(c, force, protocols, None)
      PROVE  SocketInv'
  BY <1>1, <1>2, DidCloseKeeps
<1>3. QED
  BY <1>2

LEMMA SocketStep == SocketInv /\ [Next]_vars => SocketInv'
<1> SUFFICES ASSUME SocketInv, [Next]_vars PROVE SocketInv'
  OBVIOUS
<1>0. offered = None => transport = None /\ ~timer
  BY DEF SocketInv, ListInv
<1>1. ASSUME NEW info \in Info, InfoAnswer(info) PROVE SocketInv'
  <2>1. /\ ir = "asking" /\ offered' = DetectProtocols(browser, info)
        /\ DidClose(None, FALSE, offered', None) /\ loaded' = loaded
    BY <1>1 DEF InfoAnswer
  <2>2. offered' \in Seq(Protocols) /\ offered' # None
    BY <2>1, DetectType, SockJSAssumption
  <2>3. readyState = "connecting"
    BY <2>1 DEF SocketInv, ListInv
  <2>4. QED
    BY <2>1, <2>2, <2>3, DidCloseKeeps
<1>2. CASE InfoFail
  <2>1. /\ ir = "asking" /\ DidClose(1002, TRUE, protocols, None)
        /\ loaded' = loaded /\ offered' = offered
    BY <1>2 DEF InfoFail
  <2>2. offered' = None /\ protocols \in Seq(Protocols)
    BY <2>1 DEF SocketInv, ListInv, TypeOK
  <2>3. 1002 \in Codes /\ OfInfo(1002)
    BY CodesOfClosing DEF OfInfo
  <2>4. ASSUME NEW c \in Codes, OfInfo(c), DidClose(c, TRUE, protocols, None)
        PROVE  SocketInv'
    BY <2>1, <2>2, <2>4, ForcedClosingKeeps
  <2>5. QED
    BY <2>1, <2>3, <2>4
<1>3. CASE InfoGarbled
  BY <1>3 DEF InfoGarbled, SocketInv, TypeOK, ListInv, EventInv, CodeInv
<1>4. CASE TransportTimeout
  <2>1. timer /\ loaded' = loaded /\ offered' = offered
    BY <1>4 DEF TransportTimeout
  <2>2. CASE DidClose(TimedOut, FALSE, protocols, ir)
    <3>1. offered # None
      BY <2>1, <1>0, Zenon
    <3>2. ASSUME NEW c \in Codes, DidClose(c, FALSE, protocols, ir) PROVE SocketInv'
      BY <2>1, <3>1, <3>2, ClosingKeeps, Zenon
    <3>3. TimedOut \in Codes
      BY CodesOfClosing
    <3>4. QED
      BY <2>2, <3>2, <3>3
  <2>3. CASE /\ timer' \in BOOLEAN /\ ~timer'
             /\ UNCHANGED <<browser, readyState, ir, protocols, protocol, transport,
                            delayed, adrift, code, pending, opens, messages, closes,
                            tried>>
    BY <2>1, <2>3 DEF SocketInv, TypeOK, ListInv, EventInv, CodeInv
  <2>4. timer' = FALSE => timer' \in BOOLEAN /\ ~timer'
    BY Zenon
  <2>5. \/ DidClose(TimedOut, FALSE, protocols, ir)
        \/ /\ timer' = FALSE
           /\ UNCHANGED <<browser, readyState, ir, protocols, protocol, transport,
                          delayed, adrift, code, pending, opens, messages, closes,
                          tried>>
    BY <1>4, Zenon DEF TransportTimeout
  <2>6. QED
    BY <2>2, <2>3, <2>4, <2>5
<1>5. CASE Load
  <2>1. /\ ~loaded /\ loaded' = TRUE
        /\ UNCHANGED <<browser, readyState, ir, adrift, code, pending, opens, messages,
                       closes, offered>>
    BY <1>5 DEF Load
  <2>2. CASE protocol = "waiting-for-load"
    <3>1. TryNext(protocols, TRUE)
      BY <1>5, <2>2 DEF Load
    <3>2. /\ protocols # <<>> /\ offered # None /\ browser.early
          /\ readyState = "closed" => UserSetCode(code)
      BY <2>2, SockJSAssumption DEF SocketInv, ListInv
    <3>3. protocols \in Seq(Protocols) /\ TypeOK
      BY DEF SocketInv, TypeOK
    <3>4. /\ protocols' \in Seq(Protocols) /\ tried' \in Seq(Protocols)
          /\ protocol' \in Protocols \cup {"waiting-for-load"}
          /\ transport' \in Protocols \cup {None}
          /\ timer' \in BOOLEAN
          /\ delayed' \in BOOLEAN /\ (delayed' => transport' \in Protocols)
          /\ tried' \o protocols' = tried \o protocols
          /\ protocol' # "waiting-for-load"
      BY <3>1, <3>2, <3>3, TryNextEffect
    <3>5. TypeOK'
      BY <2>1, <3>3, <3>4 DEF TypeOK
    <3>6. ListInv'
      BY <2>1, <3>2, <3>4 DEF SocketInv, ListInv
    <3>7. EventInv' /\ CodeInv'
      BY <2>1, <3>2 DEF SocketInv, EventInv, CodeInv
    <3>8. QED
      BY <3>5, <3>6, <3>7 DEF SocketInv
  <2>3. CASE /\ UNCHANGED <<protocols, protocol, transport, delayed, timer, tried>>
             /\ protocol # "waiting-for-load"
    BY <2>1, <2>3 DEF SocketInv, TypeOK, ListInv, EventInv, CodeInv
  <2>4. QED
    BY <1>5, <2>2, <2>3 DEF Load
<1>6. CASE DispatchClose
  BY <1>6 DEF DispatchClose, SocketInv, TypeOK, ListInv, EventInv, CodeInv
<1>7. CASE FrameOpen
  <2>1. transport # None /\ loaded' = loaded /\ offered' = offered
    BY <1>7 DEF FrameOpen
  <2>2. CASE DidClose(1006, FALSE, protocols, ir)
    <3>1. offered # None
      BY <2>1, <1>0, Zenon
    <3>2. 1006 \in Codes
      BY CodesOfClosing
    <3>3. QED
      BY <2>1, <2>2, <3>1, <3>2, ClosingKeeps, Zenon
  <2>3. CASE /\ readyState = "connecting"
             /\ readyState' = "open"
             /\ timer' \in BOOLEAN /\ ~timer'
             /\ opens' = opens + 1
             /\ UNCHANGED <<browser, ir, protocols, protocol, transport, delayed,
                            adrift, code, pending, messages, closes, tried>>
    <3>1. offered # None /\ ir # "asking" /\ protocol # "waiting-for-load"
      BY <2>1 DEF SocketInv, ListInv
    <3>2. TypeOK'
      BY <2>1, <2>3 DEF SocketInv, TypeOK, EventInv
    <3>3. ListInv'
      BY <2>1, <2>3, <3>1 DEF SocketInv, ListInv
    <3>4. EventInv' /\ CodeInv'
      BY <2>3 DEF SocketInv, EventInv, CodeInv
    <3>5. QED
      BY <3>2, <3>3, <3>4 DEF SocketInv
  <2>4. timer' = FALSE => timer' \in BOOLEAN /\ ~timer'
    BY Zenon
  <2>5. QED
    BY <1>7, <2>2, <2>3, <2>4 DEF FrameOpen
<1>8. ASSUME NEW n \in 1..MaxBatch, FrameMessages(n) PROVE SocketInv'
  BY <1>8, SockJSAssumption
  DEF FrameMessages, SocketInv, TypeOK, ListInv, EventInv, CodeInv
<1>9. ASSUME NEW c \in ServerCodes \cup {1006}, FrameClose(c) PROVE SocketInv'
  <2>1. transport # None /\ loaded' = loaded /\ offered' = offered
        /\ DidClose(c, FALSE, protocols, ir)
    BY <1>9, Zenon DEF FrameClose
  <2>2. c \in Codes /\ offered # None
    BY <2>1, <1>0, CodesOfClosing
  <2>3. QED
    BY <2>1, <2>2, ClosingKeeps, Zenon
<1>10. ASSUME NEW c \in ClientCodes, CloseCall(c) PROVE SocketInv'
  <2>1. loaded' = loaded /\ offered' = offered
        /\ DidClose(c, FALSE, protocols, ir)
    BY <1>10, Zenon DEF CloseCall
  <2>2. c \in Codes /\ UserSetCode(c)
    BY CodesOfClosing, SockJSAssumption
  <2>3. QED
    BY <2>1, <2>2, ClosingKeeps, Zenon
<1>11. CASE UNCHANGED vars
  BY <1>11 DEF vars, SocketInv, TypeOK, ListInv, EventInv, CodeInv
<1>12. CASE RequestStarts
  <2>1. /\ UNCHANGED <<browser, loaded, readyState, ir, protocols, protocol, transport,
                       adrift, timer, code, pending, opens, messages, closes, offered,
                       tried>>
        /\ delayed' = FALSE
    BY <1>12 DEF RequestStarts
  <2>2. delayed' \in BOOLEAN /\ ~delayed'
    BY <2>1, Zenon
  <2>3. QED
    BY <2>1, <2>2 DEF SocketInv, TypeOK, ListInv, EventInv, CodeInv
<1>13. CASE NextRequest
  <2>1. /\ UNCHANGED <<browser, loaded, readyState, ir, protocols, protocol, transport,
                       adrift, timer, code, pending, opens, messages, closes, offered,
                       tried>>
        /\ transport \in Protocols /\ delayed' = TRUE
    BY <1>13 DEF NextRequest, AjaxProtocols, Protocols
  <2>2. delayed' \in BOOLEAN
    BY <2>1, Zenon
  <2>3. QED
    BY <2>1, <2>2 DEF SocketInv, TypeOK, ListInv, EventInv, CodeInv
<1>14. ASSUME NEW r \in Protocols \cup {"info"}, StrayEnds(r) PROVE SocketInv'
  BY <1>14 DEF StrayEnds, Ends, SocketInv, TypeOK, ListInv, EventInv, CodeInv
<1>15. QED
  BY <1>1, <1>2, <1>3, <1>4, <1>5, <1>6, <1>7, <1>8, <1>9, <1>10, <1>11, <1>12,
     <1>13, <1>14
  DEF Next, InfoEnds

LEMMA SocketAlways == Spec => []SocketInv
  BY SocketInit, SocketStep, PTL DEF Spec

-----------------------------------------------------------------------------
(* Steps of the abstract socket.                                           *)

\* _didClose moves to the next protocol, which the client does not see, or closes.
LEMMA DidCloseIsClose ==
  ASSUME SocketInv, NEW c, NEW force, NEW list, NEW receiver,
         DidClose(c, force, list, receiver)
  PROVE  [Promise!Next]_(Promise!socket)
<1>1. readyState \in {"connecting", "open"} /\ UNCHANGED <<opens, messages, closes>>
  BY DEF DidClose, Closable
<1>2. pending \in {0, 1} /\ pending = 0
  BY <1>1 DEF SocketInv, TypeOK, EventInv
<1>3. \/ readyState' = readyState /\ pending' = pending
      \/ readyState' = "closed" /\ pending' = pending + 1
  BY DEF DidClose
<1>4. CASE readyState' = readyState /\ pending' = pending
  BY <1>1, <1>4 DEF Promise!socket, SocketState
<1>5. CASE readyState' = "closed" /\ pending' = pending + 1
  <2>1. Promise!Close
    BY <1>1, <1>2, <1>5 DEF Promise!Close, SocketState
  <2>2. QED
    BY <2>1 DEF Promise!Next
<1>6. QED
  BY <1>3, <1>4, <1>5

LEMMA StepIsSocketStep ==
  SocketInv /\ [Next]_vars => [Promise!Next]_(Promise!socket)
<1> SUFFICES ASSUME SocketInv, [Next]_vars PROVE [Promise!Next]_(Promise!socket)
  OBVIOUS
<1>1. ASSUME NEW info \in Info, InfoAnswer(info) PROVE [Promise!Next]_(Promise!socket)
  BY <1>1, DidCloseIsClose DEF InfoAnswer
<1>2. CASE InfoFail
  BY <1>2, DidCloseIsClose DEF InfoFail
<1>3. CASE InfoGarbled
  BY <1>3 DEF InfoGarbled, Promise!socket, SocketState
<1>4. CASE TransportTimeout
  <2>1. CASE DidClose(TimedOut, FALSE, protocols, ir)
    BY <2>1, DidCloseIsClose
  <2>2. CASE UNCHANGED <<readyState, pending, opens, messages, closes>>
    BY <2>2 DEF Promise!socket, SocketState
  <2>3. QED
    BY <1>4, <2>1, <2>2 DEF TransportTimeout
<1>5. CASE Load
  BY <1>5 DEF Load, Promise!socket, SocketState
<1>6. CASE DispatchClose
  <2>1. /\ readyState = "closed" /\ readyState' = readyState
        /\ pending = 1 /\ pending' = 0
        /\ closes' = closes + 1 /\ UNCHANGED <<opens, messages>>
    BY <1>6 DEF DispatchClose, SocketInv, TypeOK, EventInv
  <2>2. Promise!TellClose
    BY <2>1 DEF Promise!TellClose, SocketState
  <2>3. QED
    BY <2>2 DEF Promise!Next
<1>7. CASE FrameOpen
  <2>1. CASE DidClose(1006, FALSE, protocols, ir)
    BY <2>1, DidCloseIsClose
  <2>2. CASE /\ readyState = "connecting" /\ readyState' = "open"
             /\ opens' = opens + 1 /\ UNCHANGED <<messages, closes>>
    <3>1. Promise!Open
      BY <2>2 DEF Promise!Open, SocketState
    <3>2. QED
      BY <3>1 DEF Promise!Next
  <2>3. QED
    BY <1>7, <2>1, <2>2 DEF FrameOpen
<1>8. ASSUME NEW n \in 1..MaxBatch, FrameMessages(n)
      PROVE  [Promise!Next]_(Promise!socket)
  <2>1. /\ readyState = "open" /\ messages \in Nat /\ n \in Nat \ {0}
        /\ messages' = messages + n /\ UNCHANGED <<readyState, pending, opens, closes>>
    BY <1>8, SockJSAssumption DEF FrameMessages, SocketInv, TypeOK
  <2>2. Promise!Receive
    BY <2>1 DEF Promise!Receive, SocketState
  <2>3. QED
    BY <2>2 DEF Promise!Next
<1>9. ASSUME NEW c \in ServerCodes \cup {1006}, FrameClose(c)
      PROVE  [Promise!Next]_(Promise!socket)
  BY <1>9, DidCloseIsClose DEF FrameClose
<1>10. ASSUME NEW c \in ClientCodes, CloseCall(c) PROVE [Promise!Next]_(Promise!socket)
  BY <1>10, DidCloseIsClose DEF CloseCall
<1>11. CASE UNCHANGED vars
  BY <1>11 DEF vars, Promise!socket, SocketState
<1>12. CASE RequestStarts
  BY <1>12 DEF RequestStarts, Promise!socket, SocketState
<1>13. CASE NextRequest
  BY <1>13 DEF NextRequest, Promise!socket, SocketState
<1>14. ASSUME NEW r \in Protocols \cup {"info"}, StrayEnds(r)
       PROVE  [Promise!Next]_(Promise!socket)
  BY <1>14 DEF StrayEnds, Promise!socket, SocketState
<1>15. QED
  BY <1>1, <1>2, <1>3, <1>4, <1>5, <1>6, <1>7, <1>8, <1>9, <1>10, <1>11, <1>12,
     <1>13, <1>14
  DEF Next, InfoEnds

-----------------------------------------------------------------------------
(* The theorems.                                                           *)

\* Every variable of the socket keeps its type, for any browsers and codes.
THEOREM SocketTypes == Spec => []TypeOK
<1>1. SocketInv => TypeOK
  BY DEF SocketInv
<1>2. QED
  BY <1>1, SocketAlways, PTL

\* _try_next_protocol loses no protocol: a connection is given up only without an
\* info, by a close with a user-set code, the client's or the server's, or after all
\* protocols were tried in their order.
THEOREM FallbackTriesAll == Spec => []FallbackComplete
<1>1. SocketInv => FallbackComplete
  BY DEF SocketInv, ListInv, CodeInv, FallbackComplete
<1>2. QED
  BY <1>1, SocketAlways, PTL

\* Every step of SockJS is one of the abstract socket, or none: it opens once, gives
\* messages only while it is open, and tells one close after everything else.
THEOREM SocketKept == Spec => Promise!Init /\ [][Promise!Next]_(Promise!socket)
<1>1. Init => Promise!Init
  BY DEF Init, Promise!Init, SocketState
<1>2. QED
  BY <1>1, SocketAlways, StepIsSocketStep, PTL DEF Spec
=============================================================================
