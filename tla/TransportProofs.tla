--------------------------- MODULE TransportProofs ---------------------------
(***************************************************************************)
(* The transports, for any number of messages and frames.  The sending half:  *)
(* what the server reads is what the client sent, in order, each message      *)
(* once.  The receiving half: what SockJS is given is what the server wrote,  *)
(* in order, each frame once and none left out.                               *)
(***************************************************************************)
EXTENDS Transport, SequenceTheorems, TLAPS

-----------------------------------------------------------------------------
(* Concatenation.                                                          *)

\* What is taken from the head of one list may go to the end of another.
LEMMA HeadMoves ==
  ASSUME NEW S, NEW s \in Seq(S), NEW t \in Seq(S), t # <<>>
  PROVE  Append(s, Head(t)) \o Tail(t) = s \o t
<1>1. /\ Tail(t) \in Seq(S) /\ Head(t) \in S /\ Len(Tail(t)) = Len(t) - 1
      /\ Append(s, Head(t)) \in Seq(S) /\ Len(t) \in Nat \ {0} /\ Len(s) \in Nat
  BY HeadTailProperties, EmptySeq
<1>2. /\ Append(s, Head(t)) \o Tail(t) \in Seq(S)
      /\ s \o t \in Seq(S)
      /\ Len(Append(s, Head(t)) \o Tail(t)) = Len(s \o t)
  BY <1>1, ConcatProperties
<1>3. ASSUME NEW i \in 1..Len(s \o t)
      PROVE  (Append(s, Head(t)) \o Tail(t))[i] = (s \o t)[i]
  BY <1>1
<1>4. QED
  BY <1>2, <1>3, SeqEqual

\* Appending to a concatenation appends to its last part.
LEMMA AppendMoves ==
  ASSUME NEW S, NEW s \in Seq(S), NEW t \in Seq(S), NEW e \in S
  PROVE  s \o Append(t, e) = Append(s \o t, e)
<1>1. /\ Append(t, e) \in Seq(S) /\ s \o t \in Seq(S) /\ Append(s \o t, e) \in Seq(S)
      /\ Len(Append(t, e)) = Len(t) + 1 /\ Len(t) \in Nat /\ Len(s) \in Nat
  BY ConcatProperties, AppendProperties, LenProperties
<1>2. /\ s \o Append(t, e) \in Seq(S)
      /\ Len(s \o Append(t, e)) = Len(Append(s \o t, e))
  BY <1>1, ConcatProperties, AppendProperties
<1>3. ASSUME NEW i \in 1..Len(s \o Append(t, e))
      PROVE  (s \o Append(t, e))[i] = Append(s \o t, e)[i]
  BY <1>1
<1>4. QED
  BY <1>1, <1>2, <1>3, SeqEqual

\* The first part of a concatenation is a prefix of it.
LEMMA PartIsPrefix ==
  ASSUME NEW S, NEW s \in Seq(S), NEW t \in Seq(S)
  PROVE  IsPrefix(s, s \o t)
<1>1. /\ s \o t \in Seq(S) /\ Len(s \o t) = Len(s) + Len(t)
      /\ Len(s) \in Nat /\ Len(t) \in Nat
  BY ConcatProperties, LenProperties
<1>2. SubSeq(s, 1, Len(s)) = SubSeq(s \o t, 1, Len(s))
  BY <1>1
<1>3. QED
  BY <1>1, <1>2 DEF IsPrefix

-----------------------------------------------------------------------------
(* The same, quantified, for sequences of numbers.                         *)

LEMMA NumbersJoin ==
  /\ \A s, t \in Seq(Nat) : s \o t \in Seq(Nat)
  /\ \A s \in Seq(Nat), n \in Nat : Append(s, n) \in Seq(Nat)
  /\ <<>> \in Seq(Nat)
  BY ConcatProperties, AppendProperties

LEMMA NumbersEmpty == \A s \in Seq(Nat) : s \o <<>> = s /\ <<>> \o s = s
  BY ConcatEmptySeq

LEMMA NumbersAssociate == \A r, s, t \in Seq(Nat) : (r \o s) \o t = r \o (s \o t)
<1>1. ASSUME NEW r \in Seq(Nat), NEW s \in Seq(Nat), NEW t \in Seq(Nat)
      PROVE  (r \o s) \o t = r \o (s \o t)
  BY ConcatAssociative
<1>2. QED
  BY <1>1, Zenon

LEMMA NumbersAppend ==
  \A s, t \in Seq(Nat), n \in Nat : s \o Append(t, n) = Append(s \o t, n)
<1>1. ASSUME NEW s \in Seq(Nat), NEW t \in Seq(Nat), NEW n \in Nat
      PROVE  s \o Append(t, n) = Append(s \o t, n)
  BY AppendMoves
<1>2. QED
  BY <1>1, Zenon

LEMMA NumbersHead ==
  \A s, t \in Seq(Nat) : t # <<>> => Append(s, Head(t)) \o Tail(t) = s \o t
<1>1. ASSUME NEW s \in Seq(Nat), NEW t \in Seq(Nat), t # <<>>
      PROVE  Append(s, Head(t)) \o Tail(t) = s \o t
  <2>1. ASSUME NEW S, S = Nat PROVE Append(s, Head(t)) \o Tail(t) = s \o t
    BY <1>1, <2>1, HeadMoves
  <2>2. QED
    BY <2>1
<1>2. QED
  BY <1>1, Zenon

LEMMA NumbersPrefix == \A s, t \in Seq(Nat) : IsPrefix(s, s \o t)
<1>1. ASSUME NEW s \in Seq(Nat), NEW t \in Seq(Nat) PROVE IsPrefix(s, s \o t)
  BY PartIsPrefix
<1>2. QED
  BY <1>1, Zenon

-----------------------------------------------------------------------------
(* The invariant.                                                          *)

\* What the POST under way carries and the server has not read.
Unread == IF post # None /\ ~post.read THEN post.batch ELSE <<>>

Posts == [batch : Seq(Nat), read : BOOLEAN]

SenderTypes ==
  /\ kind \in Kinds
  /\ sent \in Nat
  /\ read \in Seq(Nat) /\ sendBuffer \in Seq(Nat) /\ down \in Seq(Nat)
  /\ strays \subseteq Seq(Nat)
  /\ sendStop \in {"none", "posting", "waiting"}
  /\ IF sendStop = "posting" THEN post \in Posts ELSE post = None
  /\ ~Framed => life = "built" /\ down = <<>>
  /\ life = "removed" => closed

\* The server's messages, and those of a POST given up that may still arrive, are the
\* first ones sent.
Follows ==
  \/ strays = {} /\ \E rest \in Seq(Nat) : read \o rest = UpTo(sent)
  \/ \E batch \in Seq(Nat), rest \in Seq(Nat) :
       strays = {batch} /\ (read \o batch) \o rest = UpTo(sent)

\* As long as nothing has failed, every message is at one of its places.
Whole == strays = {} /\ (read \o (Unread \o sendBuffer)) \o down = UpTo(sent)

SenderInv ==
  /\ SenderTypes
  /\ kind # "jsonp" =>
       /\ ~failed /\ life # "removed" => Whole
       /\ ~failed /\ life = "removed" =>
            sendStop = "none" /\ sendBuffer = <<>> /\ down = <<>> /\ Follows
       /\ failed /\ ~Framed => closed /\ sendStop = "none" /\ Follows

-----------------------------------------------------------------------------
LEMMA UpToType ==
  ASSUME NEW n \in Nat
  PROVE  UpTo(n) \in Seq(Nat) /\ UpTo(n + 1) = Append(UpTo(n), n + 1)
<1>1. /\ UpTo(n) \in Seq(Nat) /\ UpTo(n + 1) \in Seq(Nat)
      /\ Len(UpTo(n)) = n /\ Len(UpTo(n + 1)) = n + 1
  BY DEF UpTo
<1>2. ASSUME NEW i \in 1..(n + 1) PROVE UpTo(n + 1)[i] = Append(UpTo(n), n + 1)[i]
  BY <1>1 DEF UpTo
<1>3. Append(UpTo(n), n + 1) \in Seq(Nat) /\ Len(Append(UpTo(n), n + 1)) = n + 1
  BY <1>1, AppendProperties
<1>4. QED
  BY <1>1, <1>2, <1>3, SeqEqual

LEMMA UnreadType ==
  ASSUME SenderTypes
  PROVE  Unread \in Seq(Nat) /\ (sendStop # "posting" => Unread = <<>>)
<1>1. <<>> \in Seq(Nat)
  OBVIOUS
<1>2. QED
  BY <1>1 DEF SenderTypes, Unread, Posts

\* What send_schedule and doSend leave behind.
SenderKept(waiting) ==
  /\ Unread' \o sendBuffer' = waiting
  /\ sendBuffer' \in Seq(Nat)
  /\ sendStop' \in {"none", "posting", "waiting"}
  /\ IF sendStop' = "posting" THEN post' \in Posts ELSE post' = None

\* send_schedule moves its list into a POST, or leaves it where it is when empty.
LEMMA ScheduleEffect ==
  ASSUME NEW list \in Seq(Nat), SendSchedule(list), post = None
  PROVE  SenderKept(list)
<1>1. CASE list # <<>>
  <2>1. /\ post' = [batch |-> list, read |-> FALSE] /\ sendStop' = "posting"
        /\ sendBuffer' = <<>>
    BY <1>1 DEF SendSchedule, Worth
  <2>2. post' \in Posts /\ ~post'.read /\ post'.batch = list
    BY <2>1 DEF Posts
  <2>3. Unread' = list
    BY <2>2, TransportAssumption DEF Unread, Posts
  <2>4. list \o <<>> = list /\ <<>> \in Seq(Nat)
    BY NumbersEmpty, NumbersJoin, Zenon
  <2>5. QED
    BY <2>1, <2>2, <2>3, <2>4 DEF SenderKept
<1>2. CASE list = <<>>
  <2>1. sendStop' = "none" /\ sendBuffer' = list /\ post' = None
    BY <1>2 DEF SendSchedule, Worth
  <2>2. Unread' = <<>>
    BY <2>1 DEF Unread
  <2>3. <<>> \o list = list
    BY NumbersEmpty, Zenon
  <2>4. QED
    BY <2>1, <2>2, <2>3 DEF SenderKept
<1>3. QED
  BY <1>1, <1>2

\* doSend adds the message behind all that wait.
LEMMA BufferEffect ==
  ASSUME SenderTypes, NEW message \in Nat, Buffer(message)
  PROVE  SenderKept(Append(Unread \o sendBuffer, message))
<1>0. /\ sendBuffer \in Seq(Nat) /\ Append(sendBuffer, message) \in Seq(Nat)
      /\ Unread \in Seq(Nat) /\ (sendStop # "posting" => Unread = <<>>)
  BY UnreadType DEF SenderTypes
<1>1. CASE sendStop = "none"
  <2>1. post = None
    BY <1>1 DEF SenderTypes
  <2>2. SendSchedule(Append(sendBuffer, message))
    BY <1>1 DEF Buffer, NothingUnderWay
  <2>3. SenderKept(Append(sendBuffer, message))
    BY <1>0, <2>1, <2>2, ScheduleEffect
  <2>4. Unread \o sendBuffer = sendBuffer
    BY <1>0, <1>1, NumbersEmpty, Zenon
  <2>5. QED
    BY <2>3, <2>4
<1>2. CASE sendStop # "none"
  <2>1. /\ sendBuffer' = Append(sendBuffer, message)
        /\ sendStop' = sendStop /\ post' = post
    BY <1>2 DEF Buffer, NothingUnderWay
  <2>2. Unread' = Unread
    BY <2>1 DEF Unread
  <2>3. Unread \o Append(sendBuffer, message) = Append(Unread \o sendBuffer, message)
    BY <1>0, NumbersAppend, Zenon
  <2>4. QED
    BY <1>0, <2>1, <2>2, <2>3 DEF SenderKept, SenderTypes
<1>3. QED
  BY <1>1, <1>2

-----------------------------------------------------------------------------
(* What the receiving half does leaves the sender alone.                   *)

Quiet ==
  /\ UNCHANGED <<kind, sender, down>>
  /\ closed => closed'
  /\ life' = "removed" <=> life = "removed"
  /\ ~Framed => life' = life

LEMMA QuietKeeps == SenderInv /\ Quiet => SenderInv'
<1> SUFFICES ASSUME SenderInv, Quiet PROVE SenderInv'
  OBVIOUS
<1>1. UNCHANGED <<kind, sendBuffer, sendStop, post, strays, sent, read, failed, down>>
  BY DEF Quiet, sender
<1>2. /\ Framed' = Framed /\ Unread' = Unread /\ Whole' = Whole /\ Follows' = Follows
  BY <1>1 DEF Framed, Unread, Whole, Follows
<1>3. SenderTypes'
  BY <1>1, <1>2 DEF SenderInv, SenderTypes, Quiet
<1>4. QED
  BY <1>1, <1>2, <1>3 DEF SenderInv, Quiet

\* Closing and giving frames to SockJS.
Gentle == (closed => closed') /\ UNCHANGED <<life, down>>

LEMMA CloseGentle ==
  ASSUME NEW frames, CloseAfter(frames) PROVE closed' /\ UNCHANGED <<life, down>>
  BY DEF CloseAfter, LeaveIframe, AbortReceiver, iframe

LEMMA PostUpGentle ==
  ASSUME NEW list, PostUp(list) PROVE Gentle
  BY DEF PostUp, Gentle, sockjs

LEMMA HandOverGentle ==
  ASSUME NEW list, NEW Continue \in BOOLEAN, HandOver(list, Continue) PROVE Gentle
<1>1. CASE Framed
  BY <1>1, PostUpGentle DEF HandOver
<1>2. CASE ~Framed
  <2>1. CASE \E n \in 1..Len(list) : CloseAfter(given \o SubSeq(list, 1, n))
    <3>1. PICK n \in 1..Len(list) : CloseAfter(given \o SubSeq(list, 1, n))
      BY <2>1
    <3>2. QED
      BY <3>1, CloseGentle DEF Gentle
  <2>2. CASE UNCHANGED <<closed, atCleanup, iframe>>
    BY <2>2 DEF Gentle, iframe
  <2>3. QED
    BY <1>2, <2>1, <2>2 DEF HandOver
<1>3. QED
  BY <1>1, <1>2

LEMMA GiveUpGentle == GiveUp => Gentle
  BY PostUpGentle, CloseGentle DEF GiveUp, Gentle

LEMMA EndsGentle ==
  ASSUME NEW why, ReceiverEnds(why) PROVE Gentle
  BY GiveUpGentle DEF ReceiverEnds, Gentle, sockjs, iframe

\* The actions that change nothing of the sender.
Receiving == \/ Receive \/ SockJSCloses
             \/ IframeLoads \/ IframeBuilds \/ IframeTimeout \/ PageReceives
             \/ ServerWrites \/ ServerEnds \/ ServerCloses

LEMMA ReceivingQuiet == SenderInv /\ Receiving => Quiet
<1> SUFFICES ASSUME SenderInv, Receiving PROVE Quiet
  OBVIOUS
<1> USE DEF sockjs, iframe
<1>1. ASSUME Gentle, UNCHANGED kind, UNCHANGED sender PROVE Quiet
  BY <1>1 DEF Gentle, Quiet
<1>2. CASE XhrStarts
  BY <1>1, <1>2, EndsGentle DEF XhrStarts, Gentle
<1>3. CASE XhrChunk
  <2>1. PICK n \in 1..Len(net) :
          HandOver(Complete(text \o SubSeq(net, 1, n)),
                   /\ text' = text \o SubSeq(net, 1, n)
                   /\ bufPos' = NextPos(text \o SubSeq(net, 1, n))
                   /\ net' = SubSeq(net, n + 1, Len(net))
                   /\ UNCHANGED <<request, reason, watching, ended>>)
    BY <1>3 DEF XhrChunk
  <2>2. Gentle
    BY <2>1, HandOverGentle
  <2>3. QED
    BY <1>1, <1>3, <2>2 DEF XhrChunk
<1>4. CASE XhrFinish
  <2>1. Gentle
    BY <1>4, HandOverGentle DEF XhrFinish, NewRequest
  <2>2. QED
    BY <1>1, <1>4, <2>1 DEF XhrFinish
<1>5. CASE XhrFails
  BY <1>1, <1>5, EndsGentle DEF XhrFails
<1>6. CASE FrameArrives
  <2>1. Gentle
    BY <1>6, HandOverGentle DEF FrameArrives
  <2>2. QED
    BY <1>1, <1>6, <2>1 DEF FrameArrives
<1>7. CASE EventSourceError
  BY <1>1, <1>7 DEF EventSourceError, Gentle
<1>8. CASE EventSourceCloses
  BY <1>1, <1>8, EndsGentle DEF EventSourceCloses
<1>9. CASE HtmlfileStarts
  BY <1>1, <1>9 DEF HtmlfileStarts, Gentle
<1>10. CASE HtmlfileTimeout
  BY <1>1, <1>10, EndsGentle DEF HtmlfileTimeout
<1>11. CASE HtmlfileStops
  BY <1>1, <1>11, EndsGentle DEF HtmlfileStops
<1>12. CASE ScriptCalls
  <2>1. Gentle
    BY <1>12, HandOverGentle DEF ScriptCalls, NewRequest
  <2>2. QED
    BY <1>1, <1>12, <2>1 DEF ScriptCalls
<1>13. CASE ScriptFails
  BY <1>1, <1>13, GiveUpGentle DEF ScriptFails
<1>14. CASE SockJSCloses
  BY <1>1, <1>14, CloseGentle DEF SockJSCloses, Gentle
<1>15. CASE IframeLoads
  BY <1>15 DEF IframeLoads, Quiet, SenderInv, SenderTypes
<1>16. CASE IframeBuilds
  BY <1>16 DEF IframeBuilds, Quiet, SenderInv, SenderTypes
<1>17. CASE IframeTimeout
  BY <1>1, <1>17, CloseGentle DEF IframeTimeout, Gentle
<1>18. CASE PageReceives
  BY <1>1, <1>18, CloseGentle DEF PageReceives, Gentle
<1>19. CASE ServerWrites
  BY <1>1, <1>19 DEF ServerWrites, Gentle
<1>20. CASE ServerEnds
  BY <1>1, <1>20 DEF ServerEnds, Gentle
<1>21. CASE ServerCloses
  BY <1>1, <1>21, GiveUpGentle DEF ServerCloses
<1>22. QED
  BY <1>2, <1>3, <1>4, <1>5, <1>6, <1>7, <1>8, <1>9, <1>10, <1>11, <1>12, <1>13, <1>14,
     <1>15, <1>16, <1>17, <1>18, <1>19, <1>20, <1>21 DEF Receiving, Receive

-----------------------------------------------------------------------------
(* What the sender itself does.                                            *)

\* Giving a POST up leaves its batch under way, if the server has not read it.
LEMMA GivingUp ==
  ASSUME SenderTypes, Whole, post # None,
         strays' = strays \cup Abandoned, UNCHANGED <<read, sent>>
  PROVE  Follows'
<1>1. /\ post \in Posts /\ post.batch \in Seq(Nat) /\ post.read \in BOOLEAN
      /\ read \in Seq(Nat) /\ sendBuffer \in Seq(Nat) /\ down \in Seq(Nat)
      /\ Unread \in Seq(Nat) /\ strays = {}
  BY UnreadType DEF SenderTypes, Posts, Whole
<1>2. DEFINE rest == sendBuffer \o down
<1>3. rest \in Seq(Nat) /\ Unread \o rest \in Seq(Nat)
  BY <1>1, NumbersJoin, Zenon
<1>4. (read \o Unread) \o rest = UpTo(sent)
  <2>1. read \o (Unread \o sendBuffer) = (read \o Unread) \o sendBuffer
    BY <1>1, NumbersAssociate, Zenon
  <2>2. read \o Unread \in Seq(Nat)
    BY <1>1, NumbersJoin, Zenon
  <2>3. ((read \o Unread) \o sendBuffer) \o down = (read \o Unread) \o rest
    BY <1>1, <2>2, NumbersAssociate, Zenon
  <2>4. QED
    BY <2>1, <2>3 DEF Whole
<1> HIDE DEF rest
<1>5. CASE post.read
  <2>1. Unread = <<>> /\ strays' = {}
    BY <1>1, <1>5 DEF Unread, Abandoned
  <2>2. read \o Unread = read
    BY <1>1, <2>1, NumbersEmpty, Zenon
  <2>3. QED
    BY <1>3, <1>4, <2>1, <2>2 DEF Follows, UpTo
<1>6. CASE ~post.read
  <2>1. Unread = post.batch /\ strays' = {Unread}
    BY <1>1, <1>6 DEF Unread, Abandoned
  <2>2. QED
    BY <1>1, <1>3, <1>4, <2>1 DEF Follows, UpTo
<1>7. QED
  BY <1>1, <1>5, <1>6

LEMMA StrayTypes ==
  ASSUME SenderTypes PROVE strays \cup Abandoned \subseteq Seq(Nat)
  BY DEF SenderTypes, Abandoned, Posts

LEMMA DoSendKeeps == SenderInv /\ DoSend => SenderInv'
<1> SUFFICES ASSUME SenderInv, DoSend PROVE SenderInv'
  OBVIOUS
<1>1. /\ SenderTypes /\ ~closed /\ life # "removed" /\ sent' = sent + 1 /\ sent' \in Nat
      /\ read \in Seq(Nat) /\ sendBuffer \in Seq(Nat) /\ down \in Seq(Nat)
      /\ Unread \in Seq(Nat)
      /\ UNCHANGED <<kind, closed, life, strays, read, failed>>
      /\ Framed' = Framed
  BY UnreadType DEF SenderInv, SenderTypes, DoSend, sockjs, Framed
<1>2. /\ Unread \o sendBuffer \in Seq(Nat) /\ read \o (Unread \o sendBuffer) \in Seq(Nat)
  BY <1>1, NumbersJoin, Zenon
<1>3. UpTo(sent') = Append(UpTo(sent), sent')
  BY <1>1, UpToType DEF SenderTypes
<1>4. CASE Framed
  <2>1. /\ down' = Append(down, sent') /\ UNCHANGED <<sendBuffer, sendStop, post>>
        /\ Unread' = Unread
    BY <1>4 DEF DoSend, Unread
  <2>2. SenderTypes'
    BY <1>1, <1>4, <2>1 DEF SenderTypes
  <2>3. ASSUME Whole PROVE Whole'
    <3>1. ASSUME NEW n \in Nat
          PROVE  (read \o (Unread \o sendBuffer)) \o Append(down, n)
                   = Append((read \o (Unread \o sendBuffer)) \o down, n)
      BY <1>1, <1>2, NumbersAppend, Zenon
    <3>2. (read \o (Unread \o sendBuffer)) \o Append(down, sent') = UpTo(sent')
      BY <1>1, <1>3, <2>3, <3>1 DEF Whole
    <3>3. read' = read /\ sendBuffer' = sendBuffer /\ strays' = {}
      BY <1>1, <2>1, <2>3 DEF Whole
    <3>4. QED
      BY <2>1, <3>2, <3>3 DEF Whole
  <2>4. QED
    BY <1>1, <1>4, <2>2, <2>3 DEF SenderInv
<1>5. CASE ~Framed
  <2>1. Buffer(sent') /\ down' = down /\ down = <<>>
    BY <1>1, <1>5 DEF DoSend, SenderTypes
  <2>2. SenderKept(Append(Unread \o sendBuffer, sent'))
    BY <1>1, <2>1, BufferEffect
  <2>3. SenderTypes'
    BY <1>1, <1>5, <2>1, <2>2 DEF SenderTypes, SenderKept
  <2>4. ASSUME Whole PROVE Whole'
    <3>0. ASSUME NEW n \in Nat
          PROVE  read \o Append(Unread \o sendBuffer, n)
                   = Append(read \o (Unread \o sendBuffer), n)
      BY <1>1, <1>2, NumbersAppend, Zenon
    <3>1. read \o (Unread' \o sendBuffer') = Append(read \o (Unread \o sendBuffer), sent')
      BY <1>1, <2>2, <3>0 DEF SenderKept
    <3>2. /\ Append(read \o (Unread \o sendBuffer), sent') \in Seq(Nat)
          /\ (read \o (Unread \o sendBuffer)) \o <<>> = read \o (Unread \o sendBuffer)
      BY <1>1, <1>2, NumbersJoin, NumbersEmpty, Zenon
    <3>3. Append(read \o (Unread \o sendBuffer), sent') \o <<>>
            = Append(read \o (Unread \o sendBuffer), sent')
      BY <3>2, NumbersEmpty, Zenon
    <3>4. read \o (Unread \o sendBuffer) = UpTo(sent)
      BY <2>1, <2>4, <3>2 DEF Whole
    <3>5. (read \o (Unread' \o sendBuffer')) \o <<>> = UpTo(sent')
      BY <1>3, <3>1, <3>3, <3>4
    <3>6. read' = read /\ down' = <<>> /\ strays' = {}
      BY <1>1, <2>1, <2>4 DEF Whole
    <3>7. QED
      BY <3>5, <3>6 DEF Whole
  <2>5. QED
    BY <1>1, <1>5, <2>3, <2>4 DEF SenderInv
<1>6. QED
  BY <1>4, <1>5

LEMMA PostSucceedsKeeps == SenderInv /\ PostSucceeds => SenderInv'
<1> SUFFICES ASSUME SenderInv, PostSucceeds PROVE SenderInv'
  OBVIOUS
<1>1. /\ SenderTypes /\ post # None /\ sendStop = "posting" /\ sendStop' = "waiting"
      /\ post' = None /\ strays' = strays \cup Abandoned
      /\ UNCHANGED <<kind, closed, life, down, read, sent, sendBuffer, failed>>
      /\ Framed' = Framed
  BY DEF SenderInv, SenderTypes, PostSucceeds, sockjs, iframe, Framed
<1>2. SenderTypes'
  BY <1>1, StrayTypes DEF SenderTypes
<1>3. CASE kind = "jsonp"
  BY <1>1, <1>2, <1>3 DEF SenderInv
<1>4. CASE kind # "jsonp"
  <2>1. post.read
    BY <1>4 DEF PostSucceeds
  <2>2. Unread = <<>> /\ Unread' = <<>> /\ strays' = strays
    BY <1>1, <2>1 DEF Unread, Abandoned
  <2>3. Whole => Whole'
    BY <1>1, <2>2 DEF Whole, UpTo
  <2>4. QED
    BY <1>1, <1>2, <1>4, <2>3 DEF SenderInv
<1>5. QED
  BY <1>3, <1>4

LEMMA PostFailsKeeps == SenderInv /\ PostFails => SenderInv'
<1> SUFFICES ASSUME SenderInv, PostFails PROVE SenderInv'
  OBVIOUS
<1>1. /\ SenderTypes /\ kind # "jsonp" /\ post # None /\ sendStop = "posting"
      /\ sendStop' = "none" /\ failed' /\ post' = None /\ strays' = strays \cup Abandoned
      /\ UNCHANGED <<kind, read, sent, sendBuffer>>
      /\ Framed' = Framed
  BY DEF SenderInv, SenderTypes, PostFails, Framed
<1>2. /\ UNCHANGED <<life, down>>
      /\ closed => closed'
      /\ ~Framed => closed'
  <2>1. CASE Framed
    BY <2>1, PostUpGentle DEF PostFails, Gentle
  <2>2. CASE ~Framed
    BY <2>2, CloseGentle DEF PostFails, sockjs, iframe
  <2>3. QED
    BY <2>1, <2>2
<1>3. SenderTypes'
  <2>1. strays' \subseteq Seq(Nat)
    BY <1>1, StrayTypes
  <2>2. life' = "removed" => closed'
    BY <1>1, <1>2 DEF SenderTypes
  <2>3. ~Framed' => life' = "built" /\ down' = <<>>
    BY <1>1, <1>2 DEF SenderTypes
  <2>4. QED
    BY <1>1, <1>2, <2>1, <2>2, <2>3 DEF SenderTypes
<1>4. ASSUME ~Framed PROVE Follows'
  <2>1. ~failed /\ life # "removed"
    BY <1>1, <1>4 DEF SenderInv, SenderTypes
  <2>2. QED
    BY <1>1, <2>1, GivingUp DEF SenderInv
<1>5. ~failed' <=> FALSE
  BY <1>1
<1>6. QED
  BY <1>1, <1>2, <1>3, <1>4, <1>5 DEF SenderInv

LEMMA WaitOverKeeps == SenderInv /\ WaitOver => SenderInv'
<1> SUFFICES ASSUME SenderInv, WaitOver PROVE SenderInv'
  OBVIOUS
<1>1. /\ SenderTypes /\ sendStop = "waiting" /\ post = None
      /\ SendSchedule(sendBuffer) /\ sendBuffer \in Seq(Nat) /\ Unread = <<>>
      /\ UNCHANGED <<kind, closed, life, down, strays, read, sent, failed>>
      /\ Framed' = Framed
  BY UnreadType DEF SenderInv, SenderTypes, WaitOver, AfterWait, sockjs, iframe, Framed
<1>2. SenderKept(sendBuffer)
  BY <1>1, ScheduleEffect
<1>3. SenderTypes'
  BY <1>1, <1>2 DEF SenderTypes, SenderKept
<1>4. Unread' \o sendBuffer' = Unread \o sendBuffer
  BY <1>1, <1>2, NumbersEmpty DEF SenderKept
<1>5. Whole => Whole'
  BY <1>1, <1>4 DEF Whole, UpTo
<1>6. QED
  BY <1>1, <1>3, <1>5 DEF SenderInv

LEMMA IframeSendsKeeps == SenderInv /\ IframeSends => SenderInv'
<1> SUFFICES ASSUME SenderInv, IframeSends PROVE SenderInv'
  OBVIOUS
<1>1. /\ SenderTypes /\ down # <<>> /\ life = "built" /\ Framed /\ down' = Tail(down)
      /\ Buffer(Head(down))
      /\ read \in Seq(Nat) /\ sendBuffer \in Seq(Nat) /\ down \in Seq(Nat)
      /\ Unread \in Seq(Nat)
      /\ UNCHANGED <<kind, closed, life, strays, read, sent, failed>>
      /\ Framed' = Framed
  BY UnreadType DEF SenderInv, SenderTypes, IframeSends, sockjs, Framed
<1>2. /\ Head(down) \in Nat /\ Tail(down) \in Seq(Nat)
      /\ Unread \o sendBuffer \in Seq(Nat) /\ read \o (Unread \o sendBuffer) \in Seq(Nat)
  BY <1>1, HeadTailProperties, NumbersJoin
<1>3. SenderKept(Append(Unread \o sendBuffer, Head(down)))
  BY <1>1, <1>2, BufferEffect
<1>4. SenderTypes'
  BY <1>1, <1>2, <1>3 DEF SenderTypes, SenderKept
<1>5. ASSUME Whole PROVE Whole'
  <2>0. read \o Append(Unread \o sendBuffer, Head(down))
          = Append(read \o (Unread \o sendBuffer), Head(down))
    BY <1>1, <1>2, NumbersAppend, Zenon
  <2>1. read \o (Unread' \o sendBuffer') = Append(read \o (Unread \o sendBuffer), Head(down))
    BY <1>3, <2>0 DEF SenderKept
  <2>2. Append(read \o (Unread \o sendBuffer), Head(down)) \o Tail(down)
          = (read \o (Unread \o sendBuffer)) \o down
    BY <1>1, <1>2, NumbersHead, Zenon
  <2>3. (read \o (Unread' \o sendBuffer')) \o Tail(down) = UpTo(sent)
    BY <1>5, <2>1, <2>2 DEF Whole
  <2>4. QED
    BY <1>1, <1>5, <2>3 DEF Whole, UpTo
<1>6. QED
  BY <1>1, <1>4, <1>5 DEF SenderInv

LEMMA IframeRemovedKeeps == SenderInv /\ IframeRemoved => SenderInv'
<1> SUFFICES ASSUME SenderInv, IframeRemoved PROVE SenderInv'
  OBVIOUS
<1>1. /\ SenderTypes /\ Framed /\ Framed' = Framed /\ closed /\ life # "removed"
      /\ life' = "removed" /\ down' = <<>> /\ sendBuffer' = <<>> /\ sendStop' = "none"
      /\ post' = None /\ strays' = strays \cup Abandoned
      /\ UNCHANGED <<kind, closed, read, sent, failed>>
  BY DEF SenderInv, SenderTypes, IframeRemoved, sockjs, Framed
<1>2. SenderTypes'
  <2>1. strays' \subseteq Seq(Nat) /\ <<>> \in Seq(Nat)
    BY <1>1, StrayTypes
  <2>2. QED
    BY <1>1, <2>1 DEF SenderTypes
<1>3. ASSUME Whole PROVE Follows'
  <2>1. CASE post # None
    BY <1>1, <1>3, <2>1, GivingUp
  <2>2. CASE post = None
    <3>1. Unread = <<>> /\ strays' = {}
      BY <1>1, <1>3, <2>2 DEF Unread, Abandoned, Whole
    <3>2. /\ read \in Seq(Nat) /\ sendBuffer \in Seq(Nat) /\ down \in Seq(Nat)
          /\ sendBuffer \o down \in Seq(Nat) /\ <<>> \o sendBuffer = sendBuffer
      BY <1>1, NumbersJoin, NumbersEmpty DEF SenderTypes
    <3>3. (read \o sendBuffer) \o down = read \o (sendBuffer \o down)
      BY <3>2, NumbersAssociate, Zenon
    <3>4. read \o (sendBuffer \o down) = UpTo(sent)
      BY <1>3, <3>1, <3>2, <3>3 DEF Whole
    <3>5. QED
      BY <1>1, <3>1, <3>2, <3>4 DEF Follows, UpTo
  <2>3. QED
    BY <2>1, <2>2
<1>4. QED
  BY <1>1, <1>2, <1>3 DEF SenderInv

LEMMA ServerReadsKeeps == SenderInv /\ ServerReads => SenderInv'
<1> SUFFICES ASSUME SenderInv, ServerReads PROVE SenderInv'
  OBVIOUS
<1>1. /\ SenderTypes /\ post # None /\ ~post.read /\ sendStop = "posting"
      /\ post \in Posts /\ post.batch \in Seq(Nat)
      /\ read' = read \o post.batch
      /\ read \in Seq(Nat) /\ sendBuffer \in Seq(Nat)
      /\ UNCHANGED <<kind, closed, life, down, strays, sent, sendBuffer, sendStop, failed>>
      /\ Framed' = Framed
  BY DEF SenderInv, SenderTypes, ServerReads, sockjs, iframe, Framed, Posts
<1>2. post' \in Posts /\ post'.read
  BY <1>1 DEF ServerReads, Posts
<1>3. SenderTypes'
  <2>1. read' \in Seq(Nat)
    BY <1>1, NumbersJoin
  <2>2. QED
    BY <1>1, <1>2, <2>1 DEF SenderTypes
<1>4. Unread = post.batch /\ Unread' = <<>>
  BY <1>1, <1>2 DEF Unread
<1>5. read' \o (Unread' \o sendBuffer') = read \o (Unread \o sendBuffer)
  <2>1. <<>> \o sendBuffer = sendBuffer
    BY <1>1, NumbersEmpty, Zenon
  <2>2. read \in Seq(Nat) /\ sendBuffer \in Seq(Nat) /\ post.batch \in Seq(Nat)
    BY <1>1
  <2>4. read' \o (Unread' \o sendBuffer') = (read \o post.batch) \o (<<>> \o sendBuffer)
    BY <1>1, <1>4
  <2>5. (read \o post.batch) \o sendBuffer = read \o (post.batch \o sendBuffer)
    BY <2>2, NumbersAssociate, Zenon
  <2>6. QED
    BY <1>4, <2>1, <2>4, <2>5, Zenon
<1>6. Whole => Whole'
  BY <1>1, <1>5 DEF Whole, UpTo
<1>7. QED
  BY <1>1, <1>3, <1>6 DEF SenderInv

LEMMA ServerReadsLateKeeps == SenderInv /\ ServerReadsLate => SenderInv'
<1> SUFFICES ASSUME SenderInv, ServerReadsLate PROVE SenderInv'
  OBVIOUS
<1>1. PICK batch \in strays : read' = read \o batch /\ strays' = strays \ {batch}
  BY DEF ServerReadsLate
<1>2. /\ SenderTypes /\ batch \in Seq(Nat) /\ read \in Seq(Nat)
      /\ UNCHANGED <<kind, closed, life, down, sent, sendBuffer, sendStop, post, failed>>
      /\ Framed' = Framed
  BY <1>1 DEF SenderInv, SenderTypes, ServerReadsLate, sockjs, iframe, Framed
<1>3. SenderTypes'
  <2>1. read' \in Seq(Nat)
    BY <1>1, <1>2, NumbersJoin
  <2>2. QED
    BY <1>1, <1>2, <2>1 DEF SenderTypes
<1>4. ~Whole
  BY <1>1 DEF Whole
<1>5. ASSUME Follows PROVE Follows'
  <2>1. PICK other \in Seq(Nat), rest \in Seq(Nat) :
          strays = {other} /\ (read \o other) \o rest = UpTo(sent)
    BY <1>1, <1>5 DEF Follows
  <2>2. strays' = {} /\ read' \o rest = UpTo(sent)
    BY <1>1, <2>1
  <2>3. QED
    BY <1>2, <2>2 DEF Follows, UpTo
<1>6. QED
  BY <1>2, <1>3, <1>4, <1>5 DEF SenderInv

-----------------------------------------------------------------------------
LEMMA SenderInit == Init => SenderInv
<1> SUFFICES ASSUME Init PROVE SenderInv
  OBVIOUS
<1>1. /\ sent = 0 /\ read = <<>> /\ sendBuffer = <<>> /\ down = <<>> /\ post = None
      /\ strays = {} /\ sendStop = "none" /\ failed = FALSE /\ closed = FALSE
      /\ kind \in Kinds
      /\ life = IF Framed THEN "loading" ELSE "built"
  BY DEF Init
<1>2. SenderTypes
  BY <1>1 DEF SenderTypes
<1>3. Unread = <<>> /\ UpTo(0) = <<>> /\ <<>> \o <<>> = <<>>
  BY <1>1 DEF Unread, UpTo
<1>4. Whole
  BY <1>1, <1>3 DEF Whole
<1>5. ~failed /\ life # "removed"
  BY <1>1
<1>6. QED
  BY <1>2, <1>4, <1>5 DEF SenderInv

LEMMA SenderStep == SenderInv /\ [Next]_vars => SenderInv'
<1> SUFFICES ASSUME SenderInv, [Next]_vars PROVE SenderInv'
  OBVIOUS
<1>1. CASE Receiving
  BY <1>1, ReceivingQuiet, QuietKeeps
<1>2. CASE DoSend
  BY <1>2, DoSendKeeps
<1>3. CASE PostEnds
  BY <1>3, PostSucceedsKeeps, PostFailsKeeps DEF PostEnds
<1>4. CASE WaitOver
  BY <1>4, WaitOverKeeps
<1>5. CASE IframeSends \/ IframeRemoved
  BY <1>5, IframeSendsKeeps, IframeRemovedKeeps
<1>6. CASE ServerReads \/ ServerReadsLate
  BY <1>6, ServerReadsKeeps, ServerReadsLateKeeps
<1>7. CASE UNCHANGED vars
  BY <1>7, QuietKeeps DEF Quiet, vars, sender, sockjs, iframe
<1>8. QED
  BY <1>1, <1>2, <1>3, <1>4, <1>5, <1>6, <1>7 DEF Next, Receiving, Iframe, Server

LEMMA SenderInvImplies == SenderInv => SendsInOrder
<1> SUFFICES ASSUME SenderInv, kind # "jsonp"
             PROVE  /\ ~failed \/ ~Framed => IsPrefix(read, UpTo(sent))
                    /\ ~failed /\ life # "removed" =>
                         read \o Unread \o sendBuffer \o down = UpTo(sent)
  BY DEF SendsInOrder, Unread
<1>1. /\ SenderTypes /\ read \in Seq(Nat) /\ sendBuffer \in Seq(Nat) /\ down \in Seq(Nat)
      /\ Unread \in Seq(Nat)
  BY UnreadType DEF SenderInv, SenderTypes
<1>2. ASSUME Whole
      PROVE  /\ read \o Unread \o sendBuffer \o down = UpTo(sent)
             /\ IsPrefix(read, UpTo(sent))
  <2>1. /\ Unread \o sendBuffer \in Seq(Nat)
        /\ (Unread \o sendBuffer) \o down \in Seq(Nat)
    BY <1>1, NumbersJoin, Zenon
  <2>2. (read \o Unread) \o sendBuffer = read \o (Unread \o sendBuffer)
    BY <1>1, NumbersAssociate, Zenon
  <2>5. (read \o (Unread \o sendBuffer)) \o down = read \o ((Unread \o sendBuffer) \o down)
    BY <1>1, <2>1, NumbersAssociate, Zenon
  <2>3. IsPrefix(read, read \o ((Unread \o sendBuffer) \o down))
    BY <1>1, <2>1, NumbersPrefix, Zenon
  <2>4. QED
    BY <1>2, <2>2, <2>3, <2>5 DEF Whole
<1>3. ASSUME Follows PROVE IsPrefix(read, UpTo(sent))
  <2>1. PICK rest \in Seq(Nat) : read \o rest = UpTo(sent)
    <3>1. CASE \E batch \in Seq(Nat), end \in Seq(Nat) : (read \o batch) \o end = UpTo(sent)
      <4>1. PICK batch \in Seq(Nat), end \in Seq(Nat) : (read \o batch) \o end = UpTo(sent)
        BY <3>1
      <4>3. batch \o end \in Seq(Nat)
        BY NumbersJoin, Zenon
      <4>4. read \o (batch \o end) = UpTo(sent)
        BY <1>1, <4>1, NumbersAssociate, Zenon
      <4>5. QED
        BY <4>3, <4>4
    <3>2. QED
      BY <1>3, <3>1 DEF Follows
  <2>2. QED
    BY <1>1, <2>1, NumbersPrefix
<1>4. QED
  BY <1>2, <1>3 DEF SenderInv

\* However POSTs end and whatever is lost, the server reads messages in the order they
\* were sent, each once, and until a POST fails none of them is missing.
THEOREM SendsKept == Spec => []SendsInOrder
<1>1. Spec => []SenderInv
  BY SenderInit, SenderStep, PTL DEF Spec
<1>2. QED
  BY <1>1, SenderInvImplies, PTL

-----------------------------------------------------------------------------
(* The frames of a response.                                               *)

\* The symbols of frames n + 1 to n + k, each with its line feed.
Pairs(s, n, k) ==
  /\ Len(s) = 2 * k
  /\ \A j \in 1..k : s[2 * j - 1] = n + j /\ s[2 * j] = LF

\* The frames n + 1 to n + m, as they are handed over.
Frames(n, m) == [j \in 1..m |-> n + j]

LEMMA JoinShape ==
  ASSUME NEW s \in Seq(Nat), NEW t \in Seq(Nat)
  PROVE  /\ s \o t \in Seq(Nat) /\ Len(s) \in Nat /\ Len(t) \in Nat
         /\ Len(s \o t) = Len(s) + Len(t)
         /\ DOMAIN s = 1..Len(s) /\ DOMAIN t = 1..Len(t)
         /\ DOMAIN (s \o t) = 1..(Len(s) + Len(t))
         /\ \A i \in 1..Len(s) : (s \o t)[i] = s[i] /\ s[i] \in Nat
         /\ \A i \in 1..Len(t) : (s \o t)[Len(s) + i] = t[i] /\ t[i] \in Nat
<1>1. s \o t \in Seq(Nat) /\ Len(s \o t) = Len(s) + Len(t)
  BY ConcatProperties
<1>2. QED
  BY <1>1, LenProperties, ElementOfSeq

\* Frames that follow one another.
LEMMA NumberedJoin ==
  ASSUME NEW s \in Seq(Nat), NEW t \in Seq(Nat),
         NEW n \in Nat, NEW m \in Nat, NEW p \in Nat, n <= m, m <= p,
         Numbered(s, n, m), Numbered(t, m, p)
  PROVE  Numbered(s \o t, n, p)
<1> DEFINE r == s \o t
           k == Len(s)
           l == Len(t)
<1>1. /\ k \in Nat /\ l \in Nat /\ DOMAIN s = 1..k /\ DOMAIN t = 1..l
      /\ DOMAIN r = 1..(k + l)
      /\ \A i \in 1..k : r[i] = s[i] /\ s[i] \in Nat
      /\ \A i \in 1..l : r[k + i] = t[i] /\ t[i] \in Nat
  BY JoinShape
<1>2. /\ \A i \in 1..k : s[i] # LF => s[i] \in (n + 1)..m
      /\ \A i, j \in 1..k : (i < j /\ s[i] # LF /\ s[j] # LF) => s[i] < s[j]
      /\ \A f \in (n + 1)..m : \E i \in 1..k : s[i] = f
      /\ \A i \in 1..l : t[i] # LF => t[i] \in (m + 1)..p
      /\ \A i, j \in 1..l : (i < j /\ t[i] # LF /\ t[j] # LF) => t[i] < t[j]
      /\ \A f \in (m + 1)..p : \E i \in 1..l : t[i] = f
  BY <1>1 DEF Numbered
<1> HIDE DEF r, k, l
<1>3. ASSUME NEW i \in 1..(k + l)
      PROVE  \/ i \in 1..k /\ r[i] = s[i]
             \/ i - k \in 1..l /\ r[i] = t[i - k]
  <2>1. CASE i <= k
    BY <1>1, <2>1
  <2>2. CASE i > k
    <3>1. i - k \in 1..l /\ k + (i - k) = i
      BY <1>1, <2>2
    <3>2. QED
      BY <1>1, <3>1
  <2>3. QED
    BY <1>1, <2>1, <2>2
<1>4. ASSUME NEW i \in 1..(k + l), r[i] # LF PROVE r[i] \in (n + 1)..p
  <2>1. r[i] \in (n + 1)..m \/ r[i] \in (m + 1)..p
    BY <1>2, <1>3, <1>4
  <2>2. QED
    BY <2>1
<1>5. ASSUME NEW i \in 1..(k + l), NEW j \in 1..(k + l), i < j, r[i] # LF, r[j] # LF
      PROVE  r[i] < r[j]
  <2>1. CASE i \in 1..k /\ j \in 1..k
    BY <1>1, <1>2, <1>5, <2>1
  <2>2. CASE i \in 1..k /\ j - k \in 1..l /\ r[j] = t[j - k]
    BY <1>1, <1>2, <1>5, <2>2
  <2>3. CASE i - k \in 1..l /\ r[i] = t[i - k] /\ j - k \in 1..l /\ r[j] = t[j - k]
    <3>1. i - k < j - k
      BY <1>1, <1>5
    <3>2. QED
      BY <1>2, <1>5, <2>3, <3>1
  <2>4. QED
    BY <1>1, <1>3, <1>5, <2>1, <2>2, <2>3
<1>6. ASSUME NEW f \in (n + 1)..p PROVE \E i \in 1..(k + l) : r[i] = f
  <2>1. CASE f <= m
    <3>1. PICK i \in 1..k : s[i] = f
      BY <1>2, <2>1
    <3>2. QED
      BY <1>1, <3>1
  <2>2. CASE f > m
    <3>1. PICK i \in 1..l : t[i] = f
      BY <1>2, <2>2
    <3>2. k + i \in 1..(k + l)
      BY <1>1
    <3>3. QED
      BY <1>1, <3>1, <3>2
  <2>3. QED
    BY <2>1, <2>2
<1>7. QED
  BY <1>1, <1>4, <1>5, <1>6 DEF Numbered, r

LEMMA FramesShape ==
  ASSUME NEW n \in Nat, NEW m \in Nat
  PROVE  /\ Frames(n, m) \in Seq(Nat) /\ Len(Frames(n, m)) = m
         /\ \A j \in 1..m : Frames(n, m)[j] = n + j
         /\ Numbered(Frames(n, m), n, n + m)
<1>1. /\ Frames(n, m) \in Seq(Nat) /\ Len(Frames(n, m)) = m
      /\ DOMAIN Frames(n, m) = 1..m
      /\ \A j \in 1..m : Frames(n, m)[j] = n + j
  BY DEF Frames
<1>2. ASSUME NEW f \in (n + 1)..(n + m) PROVE \E j \in 1..m : n + j = f
  <2>1. f - n \in 1..m /\ n + (f - n) = f
    OBVIOUS
  <2>2. QED
    BY <2>1
<1>3. \A j \in 1..m : Frames(n, m)[j] \in (n + 1)..(n + m)
  BY <1>1
<1>4. \A i, j \in 1..m : i < j => Frames(n, m)[i] < Frames(n, m)[j]
  BY <1>1
<1>5. \A f \in (n + 1)..(n + m) : \E j \in 1..m : Frames(n, m)[j] = f
  BY <1>1, <1>2
<1>6. QED
  BY <1>1, <1>3, <1>4, <1>5 DEF Numbered

LEMMA PairsNumbered ==
  ASSUME NEW s \in Seq(Nat), NEW n \in Nat, NEW k \in Nat, Pairs(s, n, k)
  PROVE  Numbered(s, n, n + k)
<1>1. DOMAIN s = 1..(2 * k)
  BY DEF Pairs
<1>2. ASSUME NEW i \in 1..(2 * k)
      PROVE  \/ s[i] = LF
             \/ \E j \in 1..k : i = 2 * j - 1 /\ s[i] = n + j
  <2>1. PICK j \in 1..k : i = 2 * j - 1 \/ i = 2 * j
    <3>1. (i + 1) \div 2 \in 1..k
      OBVIOUS
    <3>2. i = 2 * ((i + 1) \div 2) - 1 \/ i = 2 * ((i + 1) \div 2)
      OBVIOUS
    <3>3. QED
      BY <3>1, <3>2
  <2>2. QED
    BY <2>1 DEF Pairs
<1>3. ASSUME NEW f \in (n + 1)..(n + k) PROVE \E i \in 1..(2 * k) : s[i] = f
  <2>1. f - n \in 1..k /\ 2 * (f - n) - 1 \in 1..(2 * k) /\ n + (f - n) = f
    OBVIOUS
  <2>2. QED
    BY <2>1 DEF Pairs
<1>4. ASSUME NEW i \in 1..(2 * k), NEW j \in 1..(2 * k), i < j, s[i] # LF, s[j] # LF
      PROVE  s[i] < s[j]
  BY <1>2, <1>4
<1>5. \A i \in 1..(2 * k) : s[i] # LF => s[i] \in (n + 1)..(n + k)
  BY <1>2
<1>6. QED
  BY <1>1, <1>3, <1>4, <1>5 DEF Numbered

\* What a receiver has not read of the frames that have arrived.
LEMMA PairsRest ==
  ASSUME NEW s \in Seq(Nat), NEW t \in Seq(Nat), NEW n \in Nat, NEW b \in Nat,
         NEW w \in Nat, Pairs(s \o t, n, b + w), 2 * b <= Len(s)
  PROVE  /\ SubSeq(s, 2 * b + 1, Len(s)) \o t \in Seq(Nat)
         /\ Pairs(SubSeq(s, 2 * b + 1, Len(s)) \o t, n + b, w)
<1> DEFINE u == SubSeq(s, 2 * b + 1, Len(s))
<1>1. /\ u \in Seq(Nat) /\ Len(u) = Len(s) - 2 * b /\ Len(u) \in Nat
      /\ \A i \in 1..Len(u) : u[i] = s[2 * b + i]
  <2>1. Len(s) \in Nat /\ \A i \in (2 * b + 1)..Len(s) : s[i] \in Nat
    BY LenProperties, ElementOfSeq
  <2>2. /\ u \in Seq(Nat)
        /\ Len(u) = IF 2 * b + 1 <= Len(s) THEN Len(s) - (2 * b + 1) + 1 ELSE 0
        /\ \A i \in 1..(Len(s) - (2 * b + 1) + 1) : u[i] = s[(2 * b + 1) + i - 1]
    BY <2>1, SubSeqProperties
  <2>3. Len(u) = Len(s) - 2 * b
    <3>1. \A m, c \in Nat : c <= m =>
            (IF c + 1 <= m THEN m - (c + 1) + 1 ELSE 0) = m - c
      OBVIOUS
    <3>2. 2 * b \in Nat /\ 2 * b <= Len(s) /\ Len(s) \in Nat
      BY <2>1
    <3>3. QED
      BY <2>2, <3>1, <3>2, Zenon
  <2>4. ASSUME NEW i \in 1..Len(u) PROVE u[i] = s[2 * b + i]
    <3>1. i \in 1..(Len(s) - (2 * b + 1) + 1) /\ (2 * b + 1) + i - 1 = 2 * b + i
      BY <2>1, <2>3
    <3>2. QED
      BY <2>2, <3>1
  <2>5. Len(u) \in Nat
    BY ONLY <2>2, LenProperties
  <2>6. QED
    BY <2>2, <2>3, <2>4, <2>5, Zenon
<1> HIDE DEF u
<1>2. /\ Len(s) \in Nat /\ Len(t) \in Nat /\ Len(s) + Len(t) = 2 * (b + w)
      /\ \A i \in 1..Len(s) : (s \o t)[i] = s[i]
      /\ \A i \in 1..Len(t) : (s \o t)[Len(s) + i] = t[i]
  BY JoinShape DEF Pairs
<1>3. /\ u \o t \in Seq(Nat) /\ Len(u \o t) = 2 * w
      /\ \A i \in 1..Len(u) : (u \o t)[i] = u[i]
      /\ \A i \in 1..Len(t) : (u \o t)[Len(u) + i] = t[i]
  <2>1. /\ u \o t \in Seq(Nat) /\ Len(u \o t) = Len(u) + Len(t)
        /\ \A i \in 1..Len(u) : (u \o t)[i] = u[i]
        /\ \A i \in 1..Len(t) : (u \o t)[Len(u) + i] = t[i]
    BY <1>1, JoinShape
  <2>2. QED
    BY <1>1, <1>2, <2>1
<1>4. ASSUME NEW i \in 1..(2 * w) PROVE (u \o t)[i] = (s \o t)[2 * b + i]
  <2>1. CASE i <= Len(u)
    <3>1. i \in 1..Len(u) /\ 2 * b + i \in 1..Len(s)
      BY <1>1, <1>2, <2>1
    <3>2. QED
      BY <1>1, <1>2, <1>3, <3>1
  <2>2. CASE i > Len(u)
    <3>1. /\ i - Len(u) \in 1..Len(t)
          /\ Len(u) + (i - Len(u)) = i /\ Len(s) + (i - Len(u)) = 2 * b + i
      BY <1>1, <1>2, <2>2
    <3>2. QED
      BY <1>2, <1>3, <3>1
  <2>3. i <= Len(u) \/ i > Len(u)
    BY ONLY <1>1, i \in 1..(2 * w)
  <2>4. QED
    BY <2>1, <2>2, <2>3, Zenon
<1>5. ASSUME NEW j \in 1..w
      PROVE  (u \o t)[2 * j - 1] = n + b + j /\ (u \o t)[2 * j] = LF
  <2>1. /\ 2 * j - 1 \in 1..(2 * w) /\ 2 * j \in 1..(2 * w) /\ b + j \in 1..(b + w)
        /\ 2 * b + (2 * j - 1) = 2 * (b + j) - 1 /\ 2 * b + 2 * j = 2 * (b + j)
        /\ n + (b + j) = n + b + j
    OBVIOUS
  <2>2. (s \o t)[2 * (b + j) - 1] = n + (b + j) /\ (s \o t)[2 * (b + j)] = LF
    BY <2>1 DEF Pairs
  <2>3. /\ (u \o t)[2 * j - 1] = (s \o t)[2 * b + (2 * j - 1)]
        /\ (u \o t)[2 * j] = (s \o t)[2 * b + 2 * j]
    BY <1>4, <2>1
  <2>4. QED
    BY <2>1, <2>2, <2>3
<1>6. QED
  BY <1>3, <1>5 DEF Pairs, u

\* XhrReceiver has read b of the k frames behind n, and reads those up to the e-th, all
\* of them when none has still to arrive.
Reads(s, t, n, k, b) ==
  \E e \in b..k : /\ LastEnd(s) = 2 * e /\ 2 * e <= Len(s)
                  /\ Complete(s) = Frames(n + b, e - b)
                  /\ t = <<>> => e = k

\* XhrReceiver reads all frames that have arrived in full, and stops behind the last.
LEMMA Reading ==
  ASSUME NEW s \in Seq(Nat), NEW t \in Seq(Nat), NEW n \in Nat, NEW k \in Nat,
         NEW b \in Nat, Pairs(s \o t, n, k), bufPos = 2 * b, 2 * b <= Len(s)
  PROVE  Reads(s, t, n, k, b)
<1> DEFINE e == Len(s) \div 2
           ends == {i \in DOMAIN s : s[i] = LF}
<1>1. /\ Len(s) \in Nat /\ Len(t) \in Nat /\ Len(s) + Len(t) = 2 * k
      /\ DOMAIN s = 1..Len(s)
      /\ \A i \in 1..Len(s) : (s \o t)[i] = s[i]
  BY JoinShape DEF Pairs
<1>2. e \in b..k /\ 2 * e <= Len(s) /\ Len(s) <= 2 * e + 1 /\ e \in Nat
  BY <1>1
<1> HIDE DEF e
<1>3. ASSUME NEW j \in 1..e PROVE s[2 * j - 1] = n + j /\ s[2 * j] = LF
  <2>1. j \in 1..k /\ 2 * j - 1 \in 1..Len(s) /\ 2 * j \in 1..Len(s)
    BY <1>1, <1>2
  <2>2. QED
    BY <1>1, <2>1 DEF Pairs
<1>4. ASSUME NEW i \in ends PROVE i <= 2 * e
  <2>1. CASE i = 2 * e + 1
    <3>1. e + 1 \in 1..k /\ 2 * (e + 1) - 1 = i /\ i \in 1..Len(s)
      BY <1>1, <1>2, <2>1
    <3>2. s[i] = n + (e + 1)
      BY <1>1, <3>1 DEF Pairs
    <3>3. QED
      BY <1>2, <3>2 DEF LF
  <2>2. i \in 1..Len(s)
    BY <1>1
  <2>3. i # 2 * e + 1 => i <= 2 * e
    <3>1. \A x, y, m \in Nat : x <= y /\ y <= m + 1 /\ x # m + 1 => x <= m
      OBVIOUS
    <3>2. 2 * e \in Nat /\ i \in Nat /\ i <= Len(s) /\ Len(s) \in Nat
      BY <1>1, <1>2, <2>2
    <3>3. QED
      BY <1>2, <3>1, <3>2, Zenon
  <2>4. QED
    BY <2>1, <2>3, Zenon
<1>5. LastEnd(s) = 2 * e
  <2>1. CASE e = 0
    <3>1. ends = {}
      BY <1>1, <1>4, <2>1
    <3>2. QED
      BY <2>1, <3>1 DEF LastEnd
  <2>2. CASE e # 0
    <3>1. 2 * e \in ends
      BY <1>1, <1>2, <1>3, <2>2
    <3>2. ends \subseteq Int
      BY <1>1
    <3> HIDE DEF ends
    <3>3. ASSUME NEW i \in ends, \A j \in ends : j <= i PROVE i = 2 * e
      BY <1>2, <1>4, <3>1, <3>2, <3>3
    <3>4. (CHOOSE i \in ends : \A j \in ends : j <= i) = 2 * e
      BY <1>4, <3>1, <3>3
    <3>5. QED
      BY <3>1, <3>4 DEF LastEnd, ends
  <2>3. QED
    BY <2>1, <2>2
<1>6. Complete(s) = Frames(n + b, e - b)
  <2>1. (2 * e - 2 * b) \div 2 = e - b
    BY <1>2
  <2>2. Complete(s) = [j \in 1..(e - b) |-> s[2 * b + 2 * j - 1]]
    BY <1>5, <2>1 DEF Complete
  <2>3. ASSUME NEW j \in 1..(e - b) PROVE s[2 * b + 2 * j - 1] = n + b + j
    <3>1. b + j \in 1..e /\ 2 * (b + j) - 1 = 2 * b + 2 * j - 1 /\ n + (b + j) = n + b + j
      BY <1>2
    <3>2. QED
      BY <1>3, <3>1
  <2>4. QED
    BY <2>2, <2>3 DEF Frames
<1>7. ASSUME t = <<>> PROVE e = k
  BY <1>1, <1>2, <1>7
<1>8. QED
  BY <1>2, <1>5, <1>6, <1>7 DEF Reads

-----------------------------------------------------------------------------
(* What has been given to SockJS, and what is held of the response.        *)

\* SockJS or the page has been given the frames up to last, in order.
Delivered(last) ==
  /\ given = UpTo(Len(given)) /\ Len(given) <= last
  /\ closed => up = <<>> /\ given = atCleanup
  /\ ~Framed => up = <<>>
  /\ ~closed => Numbered(up, Len(given), last)

\* The response holds frames read and not read, the first of these behind last; one
\* that broke holds nothing.
Held(last) ==
  IF broken THEN last <= written /\ text = <<>> /\ net = <<>> /\ bufPos = 0
  ELSE \E b \in 0..last, w \in 0..written :
         /\ bufPos = 2 * b /\ last + w = written
         /\ Pairs(text \o net, last - b, b + w)

Stream == \E last \in 0..written : Delivered(last) /\ Held(last)

Lists ==
  /\ net \in Seq(Nat) /\ text \in Seq(Nat) /\ bufPos \in 0..Len(text)
  /\ given \in Seq(Nat) /\ atCleanup \in Seq(Nat) /\ up \in Seq(Nat)
  /\ written \in 0..MaxFrames

Control ==
  /\ kind \in Kinds
  /\ request \in {"none", "delayed", "running", "ending"}
  /\ reason \in {"network", "permanent"}
  /\ watching \in BOOLEAN /\ ended \in BOOLEAN /\ closed \in BOOLEAN /\ broken \in BOOLEAN
  /\ life \in {"loading", "told", "built", "removed"}
  /\ request # "running" => net = <<>> /\ text = <<>>
  /\ watching => request = "running" /\ kind = "htmlfile" /\ net = <<>>
  /\ ~Xhr => text = <<>>
  /\ kind = "jsonp" => Len(net) <= 2 /\ (~ended => net = <<>>)
  /\ life \in {"loading", "told"} => Framed /\ request = "none"
  /\ ~Framed => life = "built"
  /\ closed /\ ~Framed => request = "none"

\* There is a request for the next frame, or word that there will be none.
Asked ==
  ~closed => \/ request # "none"
             \/ life \in {"loading", "told"}
             \/ \E n \in DOMAIN up : up[n] = CLOSE

ReceiverInv == Control /\ Lists /\ Stream /\ Asked

LEMMA UpToShape ==
  ASSUME NEW n \in Nat
  PROVE  UpTo(n) \in Seq(Nat) /\ Len(UpTo(n)) = n /\ \A i \in 1..n : UpTo(n)[i] = i
  BY DEF UpTo

LEMMA UpToJoin ==
  ASSUME NEW n \in Nat, NEW m \in Nat
  PROVE  UpTo(n) \o Frames(n, m) = UpTo(n + m)
<1> DEFINE s == UpTo(n)
           t == Frames(n, m)
           r == s \o t
           u == UpTo(n + m)
<1>1. /\ s \in Seq(Nat) /\ Len(s) = n /\ \A i \in 1..n : s[i] = i
      /\ u \in Seq(Nat) /\ Len(u) = n + m /\ \A i \in 1..(n + m) : u[i] = i
  BY UpToShape
<1>2. t \in Seq(Nat) /\ Len(t) = m /\ \A j \in 1..m : t[j] = n + j
  BY FramesShape
<1> HIDE DEF s, t, u
<1>3. /\ r \in Seq(Nat) /\ Len(r) = Len(s) + Len(t)
      /\ \A i \in 1..Len(s) : r[i] = s[i]
      /\ \A i \in 1..Len(t) : r[Len(s) + i] = t[i]
  BY <1>1, <1>2, JoinShape
<1> HIDE DEF r
<1>4. ASSUME NEW i \in 1..(n + m) PROVE r[i] = i
  <2>1. CASE i <= n
    BY <1>1, <1>3, <2>1
  <2>2. CASE i > n
    <3>1. i - n \in 1..m /\ n + (i - n) = i
      BY <2>2
    <3>2. QED
      BY <1>1, <1>2, <1>3, <3>1
  <2>3. QED
    BY <2>1, <2>2
<1>5. r = u
  BY <1>1, <1>2, <1>3, <1>4, SeqEqual
<1>6. QED
  BY <1>5 DEF r, s, t, u

LEMMA FramesPart ==
  ASSUME NEW n \in Nat, NEW m \in Nat, NEW k \in 1..m
  PROVE  SubSeq(Frames(n, m), 1, k) = Frames(n, k)
  BY DEF Frames

\* A frame to give leaves none out.
LEMMA EmptyNumbered ==
  ASSUME NEW n \in Nat, NEW last \in Nat, n <= last, Numbered(<<>>, n, last)
  PROVE  last = n
<1>1. \A f \in (n + 1)..last : \E i \in DOMAIN <<>> : <<>>[i] = f
  BY DEF Numbered
<1>2. CASE n < last
  <2>1. last \in (n + 1)..last
    BY <1>2
  <2>2. \E i \in DOMAIN <<>> : <<>>[i] = last
    BY <1>1, <2>1
  <2>3. QED
    BY <2>2
<1>3. QED
  BY <1>2

LEMMA NothingNumbered ==
  ASSUME NEW n \in Nat PROVE Numbered(<<>>, n, n) /\ Numbered(<<CLOSE>>, n, n)
<1>1. Numbered(<<>>, n, n)
  BY DEF Numbered
<1>2. DOMAIN <<CLOSE>> = {1} /\ <<CLOSE>>[1] = LF
  BY DEF CLOSE, LF
<1>3. QED
  BY <1>1, <1>2 DEF Numbered

LEMMA PostUpKeeps ==
  ASSUME Lists, NEW last \in Nat, NEW p \in Nat, NEW list \in Seq(Nat), Framed,
         last <= p, Delivered(last), Numbered(list, last, p), PostUp(list), UNCHANGED kind
  PROVE  /\ Delivered(p)' /\ closed' = closed /\ life' = life
         /\ given' \in Seq(Nat) /\ atCleanup' \in Seq(Nat) /\ up' \in Seq(Nat)
         /\ ~closed => up' = up \o list
<1>1. /\ UNCHANGED <<closed, given, atCleanup, life>>
      /\ up' = IF closed THEN up ELSE up \o list
      /\ Framed'
  BY DEF PostUp, sockjs, Framed
<1>2. given \in Seq(Nat) /\ Len(given) \in Nat /\ up \in Seq(Nat) /\ atCleanup \in Seq(Nat)
  BY DEF Lists
<1>3. Len(given) <= last /\ given = UpTo(Len(given)) /\ (closed => up = <<>> /\ given = atCleanup)
  BY DEF Delivered
<1>4. ASSUME ~closed PROVE Numbered(up \o list, Len(given), p) /\ up \o list \in Seq(Nat)
  <2>1. Numbered(up, Len(given), last)
    BY <1>4 DEF Delivered
  <2>2. QED
    BY <1>2, <1>3, <2>1, NumberedJoin, ConcatProperties
<1>5. Len(given) <= p
  BY <1>2, <1>3
<1>6. CASE closed
  BY <1>1, <1>2, <1>3, <1>5, <1>6 DEF Delivered, UpTo
<1>7. CASE ~closed
  <2>1. up' = up \o list /\ Numbered(up', Len(given'), p) /\ up' \in Seq(Nat)
    BY <1>1, <1>4, <1>7
  <2>2. QED
    BY <1>1, <1>2, <1>3, <1>5, <1>7, <2>1 DEF Delivered, UpTo
<1>8. QED
  BY <1>6, <1>7

\* Closing ends the delivery, whatever the last frames were.
LEMMA CloseKeeps ==
  ASSUME Lists, NEW last \in Nat, NEW g \in Nat, g <= last, ~Framed => up = <<>>,
         CloseAfter(UpTo(g)), UNCHANGED kind
  PROVE  /\ Delivered(last)' /\ closed' = TRUE
         /\ given' \in Seq(Nat) /\ atCleanup' \in Seq(Nat) /\ up' \in Seq(Nat)
         /\ life' = life
         /\ IF Framed THEN UNCHANGED response
            ELSE NoResponse("none") /\ UNCHANGED reason
<1>1. closed' = TRUE /\ given' = UpTo(g) /\ atCleanup' = UpTo(g) /\ (Framed' <=> Framed)
  BY DEF CloseAfter, Framed
<1>2. /\ up' = <<>> /\ life' = life
      /\ IF Framed THEN UNCHANGED response ELSE NoResponse("none") /\ UNCHANGED reason
  BY DEF CloseAfter, LeaveIframe, AbortReceiver, iframe
<1>3. UpTo(g) \in Seq(Nat) /\ Len(UpTo(g)) = g
  BY UpToShape
<1>4. Delivered(last)'
  BY <1>1, <1>2, <1>3 DEF Delivered, UpTo
<1>5. QED
  BY <1>1, <1>2, <1>3, <1>4

\* The frames behind the last one are given to SockJS, or those of them up to the one
\* that makes it close, or they are posted.
LEMMA HandOverKeeps ==
  ASSUME Lists, NEW last \in Nat, NEW m \in Nat, NEW Continue \in BOOLEAN,
         closed => Framed, Delivered(last), HandOver(Frames(last, m), Continue),
         UNCHANGED kind
  PROVE  /\ Delivered(last + m)' /\ life' = life
         /\ given' \in Seq(Nat) /\ atCleanup' \in Seq(Nat) /\ up' \in Seq(Nat)
         /\ \/ Continue /\ closed' = closed /\ \E list \in Seq(Nat) : up' = up \o list
            \/ ~Framed /\ closed' = TRUE /\ NoResponse("none") /\ UNCHANGED reason
<1>1. /\ Frames(last, m) \in Seq(Nat) /\ Len(Frames(last, m)) = m
      /\ Numbered(Frames(last, m), last, last + m) /\ last + m \in Nat /\ last <= last + m
  BY FramesShape
<1>2. CASE Framed
  <2>1. PostUp(Frames(last, m)) /\ Continue
    BY <1>2 DEF HandOver
  <2>2. /\ Delivered(last + m)' /\ closed' = closed /\ life' = life
        /\ given' \in Seq(Nat) /\ atCleanup' \in Seq(Nat) /\ up' \in Seq(Nat)
        /\ ~closed => up' = up \o Frames(last, m)
    BY <1>1, <1>2, <2>1, PostUpKeeps
  <2>3. closed => up' = up /\ up = up \o <<>> /\ <<>> \in Seq(Nat)
    BY <2>1, ConcatEmptySeq DEF PostUp, Lists
  <2>4. \E list \in Seq(Nat) : up' = up \o list
    BY <1>1, <2>2, <2>3
  <2>5. QED
    BY <2>1, <2>2, <2>4
<1>3. CASE ~Framed
  <2>1. /\ ~closed /\ up = <<>> /\ Len(given) \in Nat /\ Len(given) <= last
        /\ given = UpTo(Len(given)) /\ Numbered(up, Len(given), last)
        /\ given \in Seq(Nat) /\ atCleanup \in Seq(Nat)
    BY <1>3 DEF Delivered, Lists
  <2>2. last = Len(given) /\ given = UpTo(last)
    BY <2>1, EmptyNumbered
  <2>3. CASE /\ given' = given \o Frames(last, m) /\ Continue
             /\ UNCHANGED <<closed, atCleanup, iframe>>
    <3>0. given' = UpTo(last + m)
      BY <2>2, <2>3, UpToJoin, Zenon
    <3>1. given' = UpTo(last + m) /\ Len(given') = last + m /\ given' \in Seq(Nat)
      BY <1>1, <3>0, UpToShape
    <3>2. up' = <<>> /\ life' = life /\ closed' = closed /\ atCleanup' = atCleanup
      BY <2>1, <2>3 DEF iframe
    <3>3. Numbered(<<>>, last + m, last + m)
      BY <1>1, NothingNumbered
    <3>4. Framed' <=> Framed
      BY DEF Framed
    <3>5. Delivered(last + m)'
      BY <1>1, <2>1, <3>1, <3>2, <3>3, <3>4 DEF Delivered, UpTo
    <3>6. up' = up \o <<>> /\ <<>> \in Seq(Nat)
      BY <2>1, <3>2
    <3>7. QED
      BY <2>1, <2>3, <3>1, <3>2, <3>5, <3>6
  <2>4. CASE \E n \in 1..Len(Frames(last, m)) :
               CloseAfter(given \o SubSeq(Frames(last, m), 1, n))
    <3>1. PICK n \in 1..m : CloseAfter(given \o SubSeq(Frames(last, m), 1, n))
      BY <1>1, <2>4
    <3>2. given \o SubSeq(Frames(last, m), 1, n) = UpTo(last + n)
      <4>1. SubSeq(Frames(last, m), 1, n) = Frames(last, n)
        BY FramesPart, Zenon
      <4>2. UpTo(last) \o Frames(last, n) = UpTo(last + n)
        BY n \in Nat, UpToJoin
      <4>3. QED
        BY <2>2, <4>1, <4>2, Zenon
    <3>3. last + n \in Nat /\ last + n <= last + m
      OBVIOUS
    <3>4. CloseAfter(UpTo(last + n))
      BY <3>1, <3>2, Zenon
    <3>5. /\ Delivered(last + m)' /\ closed' = TRUE /\ life' = life
          /\ given' \in Seq(Nat) /\ atCleanup' \in Seq(Nat) /\ up' \in Seq(Nat)
          /\ NoResponse("none") /\ UNCHANGED reason
      BY <1>1, <1>3, <2>1, <3>3, <3>4, CloseKeeps
    <3>6. QED
      BY <1>3, <3>5
  <2>5. QED
    BY <1>3, <2>3, <2>4 DEF HandOver
<1>4. QED
  BY <1>2, <1>3

-----------------------------------------------------------------------------
(* What is held of the response, when it changes.                          *)

\* Where the receiver is in the frames it holds.
LEMMA Position ==
  ASSUME Lists, Control, NEW last \in 0..written, Held(last)
  PROVE  \E b \in 0..last, w \in Nat :
           /\ bufPos = 2 * b /\ last + w <= written
           /\ Pairs(text \o net, last - b, b + w)
           /\ broken => text = <<>> /\ net = <<>> /\ w = 0
           /\ ~broken => last + w = written
<1>1. last \in Nat /\ written \in Nat
  BY DEF Lists
<1>2. CASE broken
  <2>1. text = <<>> /\ net = <<>> /\ bufPos = 0 /\ text \o net = <<>>
    BY <1>2 DEF Held
  <2>2. Pairs(<<>>, last - 0, 0 + 0)
    BY DEF Pairs
  <2>3. 0 \in 0..last /\ bufPos = 2 * 0 /\ last + 0 <= written
    BY <1>1, <2>1
  <2>4. QED
    BY <1>1, <1>2, <2>1, <2>2, <2>3
<1>3. CASE ~broken
  <2>1. PICK b \in 0..last, w \in 0..written :
          /\ bufPos = 2 * b /\ last + w = written
          /\ Pairs(text \o net, last - b, b + w)
    BY <1>3 DEF Held
  <2>2. QED
    BY <1>1, <1>3, <2>1
<1>4. QED
  BY <1>2, <1>3 DEF Control

\* Nothing is left of a response that has arrived and been read.
LEMMA HeldAll ==
  ASSUME Lists, Control, NEW last \in 0..written, Held(last), ~broken, text = <<>>, net = <<>>
  PROVE  last = written
<1>1. PICK b \in 0..last, w \in Nat :
        last + w = written /\ Pairs(text \o net, last - b, b + w)
  BY Position
<1>2. Len(text \o net) = 0
  OBVIOUS
<1>3. 0 = 2 * (b + w)
  BY <1>1, <1>2 DEF Pairs
<1>4. QED
  BY <1>1, <1>3

LEMMA HeldEmpty ==
  ASSUME Lists, NEW last \in 0..written, text' = <<>>, net' = <<>>, bufPos' = 0,
         written' = written, broken' \/ last = written
  PROVE  Held(last)'
<1>1. last \in Nat /\ written \in Nat
  BY DEF Lists
<1>2. CASE broken'
  BY <1>1, <1>2 DEF Held
<1>3. CASE ~broken'
  <2>1. last = written
    BY <1>3
  <2>2. Pairs(<<>>, last - 0, 0 + 0) /\ text' \o net' = <<>>
    BY DEF Pairs
  <2>3. 0 \in 0..last /\ 0 \in 0..written' /\ bufPos' = 2 * 0 /\ last + 0 = written'
    BY <1>1, <2>1
  <2>4. QED
    BY <1>3, <2>2, <2>3 DEF Held
<1>4. QED
  BY <1>2, <1>3

LEMMA HeldSame ==
  ASSUME NEW last, Held(last), UNCHANGED <<text, net, bufPos, written, broken>>
  PROVE  Held(last)'
  BY DEF Held

\* The next state of the receiver.
LEMMA EmptyLists ==
  ASSUME Lists, text' = <<>>, net' = <<>>, bufPos' = 0, written' = written,
         given' \in Seq(Nat), atCleanup' \in Seq(Nat), up' \in Seq(Nat)
  PROVE  Lists'
<1>1. <<>> \in Seq(Nat) /\ 0 \in 0..Len(<<>>)
  OBVIOUS
<1>2. QED
  BY <1>1 DEF Lists

LEMMA DeliveredMore ==
  ASSUME NEW last \in Nat, NEW p \in Nat, last <= p, closed', given' \in Seq(Nat),
         Delivered(last)'
  PROVE  Delivered(p)'
<1>1. Len(given') \in Nat /\ Len(given') <= last
  BY DEF Delivered
<1>2. Len(given') <= p
  BY <1>1
<1>3. QED
  BY <1>2 DEF Delivered

\* SockJS has closed and its transport has no response any more.
LEMMA Silenced ==
  ASSUME ReceiverInv, NEW last \in 0..written, Delivered(last)', closed' = TRUE,
         NoResponse("none"), UNCHANGED <<kind, reason, written>>, broken' \in BOOLEAN,
         life' \in {"built", "removed"} \/ (Framed /\ life' = life), ~Framed => life' = life,
         given' \in Seq(Nat), atCleanup' \in Seq(Nat), up' \in Seq(Nat)
  PROVE  ReceiverInv'
<1>1. text' = <<>> /\ net' = <<>> /\ bufPos' = 0
  BY DEF NoResponse
<1>2. Lists'
  BY <1>1, EmptyLists DEF ReceiverInv
<1>3. Framed' = Framed /\ Xhr' = Xhr
  BY DEF Framed, Xhr
<1>4. Control'
  <2>1. request' = "none" /\ ended' = FALSE /\ watching' = (kind = "htmlfile" /\ FALSE)
    BY DEF NoResponse
  <2>2. watching' = FALSE
    BY <2>1, Zenon
  <2>3. Len(net') <= 2
    BY <1>1
  <2>4. QED
    BY <1>1, <1>3, <2>1, <2>2, <2>3 DEF ReceiverInv, Control
<1>5. Stream'
  <2>1. PICK all \in 0..written : all = written /\ all \in Nat /\ last \in Nat /\ last <= all
    BY DEF ReceiverInv, Lists
  <2>2. Delivered(all)'
    BY <2>1, DeliveredMore
  <2>3. Held(all)'
    BY <1>1, <2>1, HeldEmpty DEF ReceiverInv
  <2>4. all \in 0..written'
    BY <2>1
  <2>5. QED
    BY <2>2, <2>3, <2>4 DEF Stream
<1>6. QED
  BY <1>2, <1>4, <1>5 DEF ReceiverInv, Asked

\* The receiver has nothing to read and asks for more, in the same iframe if in one.
LEMMA Restarted ==
  ASSUME ReceiverInv, NEW last \in 0..written, Delivered(last)',
         NewRequest, UNCHANGED <<kind, closed, written>>, broken' \in BOOLEAN,
         broken' \/ last = written, closed => Framed,
         life' \in {"built", "removed"}, ~Framed => life' = life,
         given' \in Seq(Nat), atCleanup' \in Seq(Nat), up' \in Seq(Nat)
  PROVE  ReceiverInv'
<1>1. text' = <<>> /\ net' = <<>> /\ bufPos' = 0 /\ reason' = reason
  BY DEF NoResponse, NewRequest
<1>2. Lists'
  BY <1>1, EmptyLists DEF ReceiverInv
<1>3. Framed' = Framed /\ Xhr' = Xhr
  BY DEF Framed, Xhr
<1>4. request' \in {"delayed", "running"}
  BY DEF NoResponse, NewRequest
<1>5. Control'
  <2>1. /\ ended' = FALSE /\ watching' = (kind = "htmlfile" /\ request' = "running")
        /\ watching' \in BOOLEAN
    BY DEF NoResponse, NewRequest
  <2>2. watching' => request' = "running" /\ kind = "htmlfile"
    BY <2>1, Zenon
  <2>3. Len(net') <= 2
    BY <1>1
  <2>4. QED
    BY <1>1, <1>3, <1>4, <2>1, <2>2, <2>3 DEF ReceiverInv, Control
<1>6. Held(last)'
  BY <1>1, HeldEmpty DEF ReceiverInv
<1>7. QED
  BY <1>2, <1>4, <1>5, <1>6 DEF ReceiverInv, Stream, Asked

\* Closing, whether the transport lives in an iframe that stays a while or not.
LEMMA Closed ==
  ASSUME ReceiverInv, NEW last \in 0..written, NEW g \in 0..last,
         Delivered(last), Held(last), CloseAfter(UpTo(g)),
         UNCHANGED <<kind, written>>, broken' \in BOOLEAN, Framed => broken' = broken
  PROVE  ReceiverInv'
<1>1. last \in Nat /\ g \in Nat /\ g <= last /\ (~Framed => up = <<>>) /\ Lists /\ Control
  BY DEF ReceiverInv, Lists, Delivered
<1>2. /\ Delivered(last)' /\ closed' = TRUE /\ life' = life
      /\ given' \in Seq(Nat) /\ atCleanup' \in Seq(Nat) /\ up' \in Seq(Nat)
      /\ IF Framed THEN UNCHANGED response
         ELSE NoResponse("none") /\ UNCHANGED reason
  BY <1>1, CloseKeeps
<1>3. closed'
  BY <1>2
<1>4. CASE ~Framed
  <2>1. life' \in {"built", "removed"} /\ life' = life
    BY <1>1, <1>2, <1>4 DEF Control
  <2>2. QED
    BY <1>2, <1>3, <1>4, <2>1, Silenced
<1>5. CASE Framed
  <2>1. UNCHANGED <<request, reason, watching, ended, net, text, bufPos, broken, life>>
    BY <1>2, <1>5 DEF response
  <2>2. Framed' = Framed /\ Xhr' = Xhr
    BY DEF Framed, Xhr
  <2>3. Control' /\ Lists'
    BY <1>1, <1>2, <1>3, <1>5, <2>1, <2>2 DEF Control, Lists
  <2>4. Held(last)' /\ last \in 0..written'
    BY <2>1, HeldSame
  <2>5. QED
    BY <1>2, <2>3, <2>4 DEF ReceiverInv, Stream, Asked
<1>6. QED
  BY <1>4, <1>5

\* CloseAfter of what has been given already.
LEMMA ClosedAtOnce ==
  ASSUME ReceiverInv, CloseAfter(given), UNCHANGED <<kind, written>>, broken' \in BOOLEAN,
         Framed => broken' = broken
  PROVE  ReceiverInv'
<1>1. PICK last \in 0..written : Delivered(last) /\ Held(last)
  BY DEF ReceiverInv, Stream
<1>2. PICK g \in 0..last : g = Len(given)
  BY <1>1 DEF ReceiverInv, Lists, Delivered
<1>3. given = UpTo(g)
  BY <1>1, <1>2 DEF Delivered
<1>4. CloseAfter(UpTo(g))
  BY <1>3
<1>5. QED
  BY <1>1, <1>4, Closed

\* The last frame of those that are posted.
LEMMA Announced ==
  ASSUME NEW s \in Seq(Nat)
  PROVE  \E n \in DOMAIN (s \o <<CLOSE>>) : (s \o <<CLOSE>>)[n] = CLOSE
<1>1. <<CLOSE>> \in Seq(Nat) /\ Len(<<CLOSE>>) = 1 /\ <<CLOSE>>[1] = CLOSE
  BY DEF CLOSE
<1>2. /\ DOMAIN (s \o <<CLOSE>>) = 1..(Len(s) + 1) /\ Len(s) \in Nat
      /\ (s \o <<CLOSE>>)[Len(s) + 1] = CLOSE
  BY <1>1, JoinShape
<1>3. QED
  BY <1>2

LEMMA GivesUp ==
  ASSUME ReceiverInv, GiveUp, UNCHANGED <<kind, written>>, broken' \in BOOLEAN,
         request # "none", Framed => broken' \/ (~broken /\ text = <<>> /\ net = <<>>)
  PROVE  ReceiverInv'
<1>1. CASE ~Framed
  BY <1>1, ClosedAtOnce DEF GiveUp
<1>2. CASE Framed
  <2>0. PICK last \in 0..written : Delivered(last) /\ Held(last)
    BY DEF ReceiverInv, Stream
  <2>1. /\ PostUp(<<CLOSE>>) /\ NoResponse("none") /\ reason' = reason
        /\ Lists /\ Control /\ last \in Nat /\ <<CLOSE>> \in Seq(Nat)
        /\ Numbered(<<CLOSE>>, last, last)
    BY <1>2, NothingNumbered DEF GiveUp, ReceiverInv, Lists, CLOSE
  <2>2. /\ Delivered(last)' /\ closed' = closed /\ life' = life
        /\ given' \in Seq(Nat) /\ atCleanup' \in Seq(Nat) /\ up' \in Seq(Nat)
        /\ ~closed => up' = up \o <<CLOSE>>
    <3>1. last <= last
      BY <2>1
    <3>2. QED
      BY <1>2, <2>0, <2>1, <3>1, PostUpKeeps
  <2>3. text' = <<>> /\ net' = <<>> /\ bufPos' = 0 /\ request' = "none" /\ ended' = FALSE
    BY <2>1 DEF NoResponse
  <2>4. broken' \/ last = written
    BY <1>2, <2>0, <2>1, HeldAll
  <2>5. Held(last)'
    BY <2>1, <2>3, <2>4, HeldEmpty
  <2>6. Lists'
    BY <2>1, <2>2, <2>3, EmptyLists
  <2>7. Control'
    <3>1. watching' = (kind = "htmlfile" /\ FALSE)
      BY <2>1 DEF NoResponse
    <3>2. watching' = FALSE
      BY <3>1, Zenon
    <3>3. Len(net') <= 2
      BY <2>3
    <3>4. Framed' = Framed /\ Xhr' = Xhr
      BY DEF Framed, Xhr
    <3>5. QED
      BY <1>2, <2>1, <2>2, <2>3, <3>2, <3>3, <3>4 DEF Control
  <2>8. Asked'
    BY <2>1, <2>2, Announced DEF Lists, Asked
  <2>9. QED
    BY <2>2, <2>5, <2>6, <2>7, <2>8 DEF ReceiverInv, Stream
<1>3. QED
  BY <1>1, <1>2

\* A receiver that ends has nothing more to read, or its response broke.
LEMMA Ends ==
  ASSUME ReceiverInv, NEW why, ReceiverEnds(why), UNCHANGED <<kind, written>>,
         broken' \in BOOLEAN, request # "none",
         broken' \/ (~broken /\ text = <<>> /\ net = <<>>)
  PROVE  ReceiverInv'
<1>1. CASE why = "permanent"
  BY <1>1, GivesUp DEF ReceiverEnds
<1>2. CASE why # "permanent"
  <2>1. PICK last \in 0..written : Delivered(last) /\ Held(last)
    BY DEF ReceiverInv, Stream
  <2>2. NewRequest /\ UNCHANGED <<given, closed, atCleanup, life, up, down>>
    BY <1>2 DEF ReceiverEnds, sockjs, iframe
  <2>3. Lists /\ Control
    BY DEF ReceiverInv
  <2>4. Delivered(last)'
    BY <2>1, <2>2 DEF Delivered, Framed
  <2>5. broken' \/ last = written
    BY <2>1, <2>3, HeldAll
  <2>6. life' \in {"built", "removed"} /\ (closed => Framed)
    BY <2>2, <2>3 DEF Control
  <2>7. given' \in Seq(Nat) /\ atCleanup' \in Seq(Nat) /\ up' \in Seq(Nat)
    BY <2>2, <2>3 DEF Lists
  <2>8. QED
    BY <2>2, <2>4, <2>5, <2>6, <2>7, Restarted
<1>3. QED
  BY <1>1, <1>2

-----------------------------------------------------------------------------
(* The actions of the receivers.                                           *)

LEMMA XhrStartsKeeps == ReceiverInv /\ XhrStarts => ReceiverInv'
<1> SUFFICES ASSUME ReceiverInv, XhrStarts PROVE ReceiverInv'
  OBVIOUS
<1>1. /\ Xhr /\ request = "delayed" /\ UNCHANGED <<kind, written, broken>>
      /\ Control /\ Lists /\ text = <<>> /\ net = <<>> /\ broken \in BOOLEAN
  BY DEF XhrStarts, ReceiverInv, Control, server
<1>2. CASE ReceiverEnds("permanent")
  BY <1>1, <1>2, Ends
<1>3. CASE /\ request' = "running"
           /\ UNCHANGED <<reason, watching, ended, net, text, bufPos, sockjs, iframe>>
  <2>1. UNCHANGED <<kind, reason, watching, ended, net, text, bufPos, given, closed,
                    atCleanup, life, up, written, broken>>
    BY <1>1, <1>3 DEF sockjs, iframe
  <2>2. Framed' = Framed /\ Xhr' = Xhr
    BY <2>1 DEF Framed, Xhr
  <2>3. Stream'
    <3>1. PICK last \in 0..written : Delivered(last) /\ Held(last)
      BY DEF ReceiverInv, Stream
    <3>2. Delivered(last)' /\ Held(last)'
      BY <2>1, <2>2, <3>1, HeldSame DEF Delivered
    <3>3. QED
      BY <2>1, <3>2 DEF Stream
  <2>4. Control' /\ Lists' /\ Asked'
    BY <1>1, <1>3, <2>1, <2>2 DEF Control, Lists, Asked
  <2>5. QED
    BY <2>3, <2>4 DEF ReceiverInv
<1>4. QED
  BY <1>2, <1>3 DEF XhrStarts

\* A text in two parts.
LEMMA Parted ==
  ASSUME NEW s \in Seq(Nat), NEW t \in Seq(Nat), NEW n \in 1..Len(t)
  PROVE  /\ SubSeq(t, 1, n) \in Seq(Nat) /\ SubSeq(t, n + 1, Len(t)) \in Seq(Nat)
         /\ s \o SubSeq(t, 1, n) \in Seq(Nat)
         /\ Len(s \o SubSeq(t, 1, n)) = Len(s) + n
         /\ (s \o SubSeq(t, 1, n)) \o SubSeq(t, n + 1, Len(t)) = s \o t
<1>1. Len(t) \in Nat /\ \A i \in 1..Len(t) : t[i] \in Nat
  BY LenProperties, ElementOfSeq
<1>2. /\ SubSeq(t, 1, n) \in Seq(Nat) /\ Len(SubSeq(t, 1, n)) = n
      /\ SubSeq(t, n + 1, Len(t)) \in Seq(Nat)
      /\ Len(SubSeq(t, n + 1, Len(t))) = Len(t) - n
      /\ \A i \in 1..n : SubSeq(t, 1, n)[i] = t[i]
      /\ \A i \in 1..(Len(t) - n) : SubSeq(t, n + 1, Len(t))[i] = t[n + i]
  BY <1>1
<1> DEFINE p == SubSeq(t, 1, n)
           q == SubSeq(t, n + 1, Len(t))
<1>3. /\ p \in Seq(Nat) /\ Len(p) = n /\ q \in Seq(Nat) /\ Len(q) = Len(t) - n
      /\ \A i \in 1..n : p[i] = t[i]
      /\ \A i \in 1..(Len(t) - n) : q[i] = t[n + i]
  BY <1>2
<1> HIDE DEF p, q
<1>4. p \o q = t
  <2>1. /\ p \o q \in Seq(Nat) /\ Len(p \o q) = Len(p) + Len(q)
        /\ \A i \in 1..Len(p) : (p \o q)[i] = p[i]
        /\ \A i \in 1..Len(q) : (p \o q)[Len(p) + i] = q[i]
    BY <1>3, JoinShape
  <2>2. ASSUME NEW i \in 1..Len(t) PROVE (p \o q)[i] = t[i]
    <3>1. CASE i <= n
      BY <1>3, <2>1, <3>1
    <3>2. CASE i > n
      <4>1. i - n \in 1..(Len(t) - n) /\ n + (i - n) = i
        BY <1>1, <3>2
      <4>2. q[i - n] = t[n + (i - n)]
        BY <1>3, <4>1, Zenon
      <4>3. (p \o q)[n + (i - n)] = q[i - n]
        BY <1>3, <2>1, <4>1, Zenon
      <4>4. QED
        BY <4>1, <4>2, <4>3, Zenon
    <3>3. i <= n \/ i > n
      BY <1>1
    <3>4. QED
      BY <3>1, <3>2, <3>3, Zenon
  <2>3. Len(p \o q) = Len(t)
    BY <1>1, <1>3, <2>1
  <2>4. QED
    BY <2>1, <2>2, <2>3, SeqEqual
<1>5. (s \o p) \o q = s \o t /\ s \o p \in Seq(Nat) /\ Len(s \o p) = Len(s) + n
  <2>1. (s \o p) \o q = s \o (p \o q)
    BY <1>3, NumbersAssociate, Zenon
  <2>2. s \o p \in Seq(Nat) /\ Len(s \o p) = Len(s) + Len(p)
    BY <1>3, ConcatProperties
  <2>3. QED
    BY <1>3, <1>4, <2>1, <2>2, Zenon
<1>6. QED
  BY <1>3, <1>5 DEF p, q

LEMMA XhrChunkKeeps == ReceiverInv /\ XhrChunk => ReceiverInv'
<1> SUFFICES ASSUME ReceiverInv, XhrChunk PROVE ReceiverInv'
  OBVIOUS
<1>1. PICK n \in 1..Len(net) :
        HandOver(Complete(text \o SubSeq(net, 1, n)),
                 /\ text' = text \o SubSeq(net, 1, n)
                 /\ bufPos' = NextPos(text \o SubSeq(net, 1, n))
                 /\ net' = SubSeq(net, n + 1, Len(net))
                 /\ UNCHANGED <<request, reason, watching, ended>>)
  BY DEF XhrChunk
<1>2. /\ Xhr /\ request = "running" /\ UNCHANGED <<kind, written, broken>>
      /\ Control /\ Lists /\ broken \in BOOLEAN /\ closed \in BOOLEAN
      /\ closed => Framed
  BY DEF XhrChunk, ReceiverInv, Control, server
<1>3. PICK last \in 0..written : Delivered(last) /\ Held(last)
  BY DEF ReceiverInv, Stream
<1>4. PICK b \in 0..last, w \in Nat :
        /\ bufPos = 2 * b /\ last + w <= written
        /\ Pairs(text \o net, last - b, b + w)
        /\ broken => text = <<>> /\ net = <<>> /\ w = 0
        /\ ~broken => last + w = written
  BY <1>2, <1>3, Position
<1>5. /\ ~broken /\ last + w = written /\ last \in Nat /\ written \in Nat /\ b \in Nat
      /\ last - b \in Nat /\ b + w \in Nat
  <2>1. net # <<>>
    BY <1>1
  <2>2. QED
    BY <1>2, <1>4, <2>1 DEF Lists
<1>6. PICK s \in Seq(Nat), t \in Seq(Nat) :
        /\ s = text \o SubSeq(net, 1, n) /\ t = SubSeq(net, n + 1, Len(net))
        /\ s \o t = text \o net /\ Len(s) = Len(text) + n
  <2>1. text \in Seq(Nat) /\ net \in Seq(Nat)
    BY <1>2 DEF Lists
  <2>2. /\ SubSeq(net, n + 1, Len(net)) \in Seq(Nat)
        /\ text \o SubSeq(net, 1, n) \in Seq(Nat)
        /\ Len(text \o SubSeq(net, 1, n)) = Len(text) + n
        /\ (text \o SubSeq(net, 1, n)) \o SubSeq(net, n + 1, Len(net)) = text \o net
    BY <2>1, Parted, Zenon
  <2>3. QED
    BY <2>2, Zenon
<1>7. 2 * b <= Len(s)
  <2>1. Len(text) \in Nat /\ 2 * b <= Len(text) /\ 2 * b \in Nat /\ n \in Nat
    BY <1>2, <1>4 DEF Lists
  <2>2. \A i, j, k \in Nat : i <= j => i <= j + k
    OBVIOUS
  <2>3. QED
    BY <1>6, <2>1, <2>2, Zenon
<1>8. PICK e \in b..(b + w) : /\ LastEnd(s) = 2 * e /\ 2 * e <= Len(s)
                              /\ Complete(s) = Frames((last - b) + b, e - b)
  <2>1. Pairs(s \o t, last - b, b + w) /\ bufPos = 2 * b
    BY <1>4, <1>6, Zenon
  <2>2. Reads(s, t, last - b, b + w, b)
    BY <1>5, <1>6, <1>7, <2>1, Reading, Zenon
  <2>3. QED
    BY <2>2 DEF Reads
<1>9. PICK m \in Nat, l \in 0..written, v \in 0..written :
        /\ m = e - b /\ l = last + m /\ l \in Nat /\ e \in 0..l
        /\ l - e = last - b /\ e + v = b + w /\ l + v = written /\ (last - b) + b = last
  <2>1. e - b \in Nat /\ last + (e - b) \in 0..written /\ w - (e - b) \in 0..written
    BY <1>4, <1>5, <1>8
  <2>2. QED
    BY <1>4, <1>5, <1>8, <2>1
<1>10. Complete(text \o SubSeq(net, 1, n)) = Frames(last, m)
  BY <1>6, <1>8, <1>9, Zenon
<1>11. /\ Delivered(last + m)' /\ life' = life
       /\ given' \in Seq(Nat) /\ atCleanup' \in Seq(Nat) /\ up' \in Seq(Nat)
       /\ \/ /\ text' = text \o SubSeq(net, 1, n)
             /\ bufPos' = NextPos(text \o SubSeq(net, 1, n))
             /\ net' = SubSeq(net, n + 1, Len(net))
             /\ UNCHANGED <<request, reason, watching, ended>>
             /\ closed' = closed /\ \E list \in Seq(Nat) : up' = up \o list
          \/ ~Framed /\ closed' = TRUE /\ NoResponse("none") /\ UNCHANGED reason
  <2>1. HandOver(Frames(last, m),
                 /\ text' = text \o SubSeq(net, 1, n)
                 /\ bufPos' = NextPos(text \o SubSeq(net, 1, n))
                 /\ net' = SubSeq(net, n + 1, Len(net))
                 /\ UNCHANGED <<request, reason, watching, ended>>)
    BY <1>1, <1>10, Zenon
  <2>2. QED
    BY <1>2, <1>3, <1>5, <2>1, HandOverKeeps
<1>12. Delivered(l)'
  BY <1>9, <1>11 DEF Delivered
<1>13. CASE ~Framed /\ closed' = TRUE /\ NoResponse("none") /\ UNCHANGED reason
  <2>1. life' \in {"built", "removed"} /\ life' = life
    BY <1>2, <1>11, <1>13 DEF Control
  <2>2. QED
    BY <1>2, <1>11, <1>12, <1>13, <2>1, Silenced
<1>14. CASE /\ text' = s /\ bufPos' = 2 * e /\ net' = t
            /\ UNCHANGED <<request, reason, watching, ended>>
            /\ closed' = closed /\ \E list \in Seq(Nat) : up' = up \o list
  <2>1. Framed' = Framed /\ Xhr' = Xhr /\ kind # "jsonp" /\ kind # "htmlfile"
    BY <1>2 DEF Framed, Xhr
  <2>2. Held(l)'
    <3>1. Pairs(text' \o net', l - e, e + v)
      BY <1>4, <1>6, <1>9, <1>14, Zenon
    <3>2. e \in 0..l /\ v \in 0..written' /\ l + v = written' /\ bufPos' = 2 * e /\ ~broken'
      BY <1>2, <1>5, <1>9, <1>14
    <3>3. QED
      BY <3>1, <3>2 DEF Held
  <2>3. Lists'
    BY <1>2, <1>8, <1>11, <1>14 DEF Lists
  <2>4. Control'
    BY <1>2, <1>11, <1>14, <2>1 DEF Control
  <2>5. QED
    BY <1>2, <1>9, <1>12, <1>14, <2>2, <2>3, <2>4 DEF ReceiverInv, Stream, Asked
<1>15. QED
  BY <1>6, <1>8, <1>11, <1>13, <1>14 DEF NextPos

LEMMA XhrFinishKeeps == ReceiverInv /\ XhrFinish => ReceiverInv'
<1> SUFFICES ASSUME ReceiverInv, XhrFinish PROVE ReceiverInv'
  OBVIOUS
<1>1. /\ Xhr /\ request = "running" /\ UNCHANGED <<kind, written, broken>>
      /\ HandOver(Complete(text \o net), NewRequest)
      /\ Control /\ Lists /\ broken \in BOOLEAN /\ closed \in BOOLEAN
      /\ closed => Framed
  BY DEF XhrFinish, ReceiverInv, Control, server
<1>2. PICK last \in 0..written : Delivered(last) /\ Held(last)
  BY DEF ReceiverInv, Stream
<1>3. PICK b \in 0..last, w \in Nat :
        /\ bufPos = 2 * b /\ last + w <= written
        /\ Pairs(text \o net, last - b, b + w)
        /\ broken => text = <<>> /\ net = <<>> /\ w = 0
        /\ ~broken => last + w = written
  BY <1>1, <1>2, Position
<1>4. /\ last \in Nat /\ written \in Nat /\ b \in Nat /\ last - b \in Nat /\ b + w \in Nat
      /\ (last - b) + b = last /\ (b + w) - b = w
  BY <1>1, <1>3 DEF Lists
<1>5. PICK s \in Seq(Nat) : s = text \o net /\ Len(s) = Len(text) + Len(net) /\ s \o <<>> = s
  <2>1. /\ text \o net \in Seq(Nat) /\ Len(text \o net) = Len(text) + Len(net)
        /\ (text \o net) \o <<>> = text \o net
    BY <1>1, ConcatProperties, ConcatEmptySeq DEF Lists
  <2>2. QED
    BY <2>1, Zenon
<1>6. 2 * b <= Len(s)
  <2>1. Len(text) \in Nat /\ 2 * b <= Len(text) /\ 2 * b \in Nat /\ Len(net) \in Nat
    BY <1>1, <1>3 DEF Lists
  <2>2. \A i, j, k \in Nat : i <= j => i <= j + k
    OBVIOUS
  <2>3. QED
    BY <1>5, <2>1, <2>2, Zenon
<1>7. Complete(text \o net) = Frames(last, w)
  <2>0. PICK t \in Seq(Nat) : t = <<>>
    <3>1. <<>> \in Seq(Nat)
      OBVIOUS
    <3>2. QED
      BY <3>1, Zenon
  <2>1. /\ Pairs(s \o t, last - b, b + w) /\ bufPos = 2 * b /\ b \in Nat
        /\ last - b \in Nat /\ b + w \in Nat /\ 2 * b <= Len(s)
    BY <1>3, <1>4, <1>5, <1>6, <2>0
  <2>2. Reads(s, t, last - b, b + w, b)
    BY <1>5, <2>1, Reading, Zenon
  <2>3. Complete(s) = Frames((last - b) + b, (b + w) - b)
    BY <2>0, <2>2 DEF Reads
  <2>4. QED
    BY <1>4, <1>5, <2>3
<1>8. /\ Delivered(last + w)' /\ life' = life
      /\ given' \in Seq(Nat) /\ atCleanup' \in Seq(Nat) /\ up' \in Seq(Nat)
      /\ \/ NewRequest /\ closed' = closed /\ \E list \in Seq(Nat) : up' = up \o list
         \/ ~Framed /\ closed' = TRUE /\ NoResponse("none") /\ UNCHANGED reason
  <2>1. HandOver(Frames(last, w), NewRequest)
    BY <1>1, <1>7, Zenon
  <2>2. NewRequest \in BOOLEAN
    BY DEF NewRequest
  <2>3. QED
    BY <1>1, <1>2, <1>4, <2>1, <2>2, HandOverKeeps
<1>9. PICK l \in 0..written : l = last + w
  BY <1>3, <1>4
<1>10. Delivered(l)' /\ life' \in {"built", "removed"} /\ (broken' \/ l = written)
  BY <1>1, <1>3, <1>8, <1>9 DEF Delivered, Control
<1>11. CASE NewRequest /\ closed' = closed
  BY <1>1, <1>8, <1>10, <1>11, Restarted
<1>12. CASE ~Framed /\ closed' = TRUE /\ NoResponse("none") /\ UNCHANGED reason
  BY <1>1, <1>8, <1>10, <1>12, Silenced
<1>13. QED
  BY <1>8, <1>11, <1>12

LEMMA XhrFailsKeeps == ReceiverInv /\ XhrFails => ReceiverInv'
<1> SUFFICES ASSUME ReceiverInv, XhrFails PROVE ReceiverInv'
  OBVIOUS
<1>1. /\ request = "running" /\ ReceiverEnds("permanent") /\ broken' = TRUE
      /\ UNCHANGED <<kind, written>>
  BY DEF XhrFails
<1>2. QED
  BY <1>1, Ends

\* A receiver that is given whole frames takes the next one.
LEMMA FirstFrame ==
  ASSUME Lists, Control, NEW last \in 0..written, Held(last), ~Xhr, net # <<>>
  PROVE  /\ ~broken /\ bufPos = 0 /\ text = <<>> /\ last + 1 \in 0..written
         /\ <<Head(net)>> = Frames(last, 1)
         /\ \E w \in 0..written : /\ last + 1 + w = written /\ Len(net) = 2 * (w + 1)
                                  /\ SubSeq(net, 3, Len(net)) \in Seq(Nat)
                                  /\ Pairs(SubSeq(net, 3, Len(net)), last + 1, w)
<1>1. PICK b \in 0..last, w \in Nat :
        /\ bufPos = 2 * b /\ last + w <= written
        /\ Pairs(text \o net, last - b, b + w)
        /\ broken => text = <<>> /\ net = <<>> /\ w = 0
        /\ ~broken => last + w = written
  BY Position
<1>2. /\ text = <<>> /\ bufPos = 0 /\ ~broken /\ text \o net = net /\ net \in Seq(Nat)
      /\ last \in Nat /\ written \in Nat
  BY <1>1, ConcatEmptySeq DEF Lists, Control
<1>3. b = 0 /\ last + w = written
  BY <1>1, <1>2
<1>4. Pairs(net, last, w)
  BY <1>1, <1>2, <1>3
<1>5. Len(net) = 2 * w /\ w # 0
  <2>1. Len(net) = 2 * w
    BY <1>4 DEF Pairs
  <2>2. Len(net) # 0
    BY <1>2, EmptySeq
  <2>3. QED
    BY <2>1, <2>2
<1>6. net[2 * 1 - 1] = last + 1 /\ 2 * 1 - 1 = 1
  BY <1>4, <1>5 DEF Pairs
<1>7. <<Head(net)>> = Frames(last, 1)
  <2>1. Head(net) = last + 1
    BY <1>2, <1>6
  <2>2. Frames(last, 1) = <<last + 1>>
    BY DEF Frames
  <2>3. QED
    BY <2>1, <2>2
<1>8. PICK v \in Nat : w = 1 + v
  <2>1. w - 1 \in Nat /\ w = 1 + (w - 1)
    BY <1>5
  <2>2. QED
    BY <2>1
<1>9. SubSeq(net, 3, Len(net)) \in Seq(Nat) /\ Pairs(SubSeq(net, 3, Len(net)), last + 1, v)
  <2>1. net \o <<>> = net /\ <<>> \in Seq(Nat)
    BY <1>2, ConcatEmptySeq
  <2>2. Pairs(net \o <<>>, last, 1 + v) /\ 2 * 1 <= Len(net)
    BY <1>4, <1>5, <1>8, <2>1
  <2>3. /\ SubSeq(net, 2 * 1 + 1, Len(net)) \o <<>> \in Seq(Nat)
        /\ Pairs(SubSeq(net, 2 * 1 + 1, Len(net)) \o <<>>, last + 1, v)
    BY <1>2, <2>1, <2>2, PairsRest
  <2>4. SubSeq(net, 3, Len(net)) \in Seq(Nat)
    BY <1>2
  <2>5. SubSeq(net, 2 * 1 + 1, Len(net)) \o <<>> = SubSeq(net, 3, Len(net))
    BY <2>4, ConcatEmptySeq
  <2>6. QED
    BY <2>3, <2>4, <2>5
<1>10. v \in 0..written /\ last + 1 + v = written /\ last + 1 \in 0..written /\ w = v + 1
  BY <1>2, <1>3, <1>8
<1>11. QED
  BY <1>2, <1>5, <1>7, <1>9, <1>10

LEMMA FrameArrivesKeeps == ReceiverInv /\ FrameArrives => ReceiverInv'
<1> SUFFICES ASSUME ReceiverInv, FrameArrives PROVE ReceiverInv'
  OBVIOUS
<1>1. /\ kind \in {"eventsource", "htmlfile"} /\ request = "running" /\ net # <<>>
      /\ UNCHANGED <<kind, written, broken>>
      /\ HandOver(<<Head(net)>>,
                  /\ net' = SubSeq(net, 3, Len(net))
                  /\ UNCHANGED <<request, reason, watching, ended, text, bufPos>>)
      /\ Control /\ Lists /\ broken \in BOOLEAN /\ closed \in BOOLEAN /\ Framed /\ ~Xhr
  BY DEF FrameArrives, ReceiverInv, Control, server, Framed, Xhr
<1>2. PICK last \in 0..written : Delivered(last) /\ Held(last)
  BY DEF ReceiverInv, Stream
<1>3. /\ ~broken /\ bufPos = 0 /\ text = <<>> /\ last + 1 \in 0..written
      /\ <<Head(net)>> = Frames(last, 1)
      /\ \E w \in 0..written : /\ last + 1 + w = written /\ Len(net) = 2 * (w + 1)
                               /\ SubSeq(net, 3, Len(net)) \in Seq(Nat)
                               /\ Pairs(SubSeq(net, 3, Len(net)), last + 1, w)
  BY <1>1, <1>2, FirstFrame
<1>4. PICK w \in 0..written : /\ last + 1 + w = written
                              /\ SubSeq(net, 3, Len(net)) \in Seq(Nat)
                              /\ Pairs(SubSeq(net, 3, Len(net)), last + 1, w)
  BY <1>3
<1>5. /\ Delivered(last + 1)' /\ life' = life
      /\ given' \in Seq(Nat) /\ atCleanup' \in Seq(Nat) /\ up' \in Seq(Nat)
      /\ net' = SubSeq(net, 3, Len(net))
      /\ UNCHANGED <<request, reason, watching, ended, text, bufPos, closed>>
      /\ \E list \in Seq(Nat) : up' = up \o list
  <2>1. HandOver(Frames(last, 1),
                 /\ net' = SubSeq(net, 3, Len(net))
                 /\ UNCHANGED <<request, reason, watching, ended, text, bufPos>>)
    BY <1>1, <1>3, Zenon
  <2>2. last \in Nat /\ 1 \in Nat
    BY <1>1 DEF Lists
  <2>3. /\ Delivered(last + 1)' /\ life' = life
        /\ given' \in Seq(Nat) /\ atCleanup' \in Seq(Nat) /\ up' \in Seq(Nat)
        /\ \/ /\ net' = SubSeq(net, 3, Len(net))
              /\ UNCHANGED <<request, reason, watching, ended, text, bufPos>>
              /\ closed' = closed /\ \E list \in Seq(Nat) : up' = up \o list
           \/ ~Framed /\ closed' = TRUE /\ NoResponse("none") /\ UNCHANGED reason
    BY <1>1, <1>2, <2>1, <2>2, HandOverKeeps
  <2>4. QED
    BY <1>1, <2>3
<1>6. PICK l \in 0..written : l = last + 1
  BY <1>3
<1>7. Delivered(l)'
  BY <1>5, <1>6 DEF Delivered
<1>8. Held(l)'
  <2>1. text' \o net' = SubSeq(net, 3, Len(net))
    BY <1>3, <1>4, <1>5, ConcatEmptySeq
  <2>2. l - 0 = last + 1 /\ 0 + w = w /\ 0 \in 0..l /\ w \in 0..written' /\ l + w = written'
        /\ bufPos' = 2 * 0 /\ ~broken'
    BY <1>1, <1>3, <1>4, <1>5, <1>6
  <2>3. Pairs(text' \o net', l - 0, 0 + w)
    BY <1>4, <2>1, <2>2, Zenon
  <2>4. QED
    BY <2>2, <2>3 DEF Held
<1>9. Framed' = Framed /\ Xhr' = Xhr
  BY <1>1 DEF Framed, Xhr
<1>10. Lists'
  BY <1>1, <1>3, <1>4, <1>5 DEF Lists
<1>11. Control'
  <2>1. ~watching
    BY <1>1 DEF Control
  <2>2. QED
    BY <1>1, <1>3, <1>5, <1>9, <2>1 DEF Control
<1>12. QED
  BY <1>1, <1>5, <1>6, <1>7, <1>8, <1>10, <1>11 DEF ReceiverInv, Stream, Asked

LEMMA ScriptCallsKeeps == ReceiverInv /\ ScriptCalls => ReceiverInv'
<1> SUFFICES ASSUME ReceiverInv, ScriptCalls PROVE ReceiverInv'
  OBVIOUS
<1>1. /\ kind = "jsonp" /\ request = "running" /\ net # <<>>
      /\ UNCHANGED <<kind, written, broken>> /\ HandOver(<<Head(net)>>, NewRequest)
      /\ Control /\ Lists /\ broken \in BOOLEAN /\ closed \in BOOLEAN /\ ~Framed /\ ~Xhr
      /\ ~closed /\ Len(net) <= 2 /\ life = "built"
  BY DEF ScriptCalls, ReceiverInv, Control, server, Framed, Xhr
<1>2. PICK last \in 0..written : Delivered(last) /\ Held(last)
  BY DEF ReceiverInv, Stream
<1>3. /\ last + 1 \in 0..written /\ <<Head(net)>> = Frames(last, 1)
      /\ \E w \in 0..written : last + 1 + w = written /\ Len(net) = 2 * (w + 1)
  BY <1>1, <1>2, FirstFrame
<1>4. last + 1 = written
  <2>1. PICK w \in 0..written : last + 1 + w = written /\ Len(net) = 2 * (w + 1)
    BY <1>3
  <2>2. w = 0 /\ last \in Nat
    BY <1>1, <2>1 DEF Lists
  <2>3. QED
    BY <2>1, <2>2
<1>5. /\ Delivered(last + 1)' /\ life' = life
      /\ given' \in Seq(Nat) /\ atCleanup' \in Seq(Nat) /\ up' \in Seq(Nat)
      /\ \/ NewRequest /\ closed' = closed
         \/ ~Framed /\ closed' = TRUE /\ NoResponse("none") /\ UNCHANGED reason
  <2>1. HandOver(Frames(last, 1), NewRequest)
    BY <1>1, <1>3, Zenon
  <2>2. last \in Nat /\ 1 \in Nat /\ NewRequest \in BOOLEAN
    BY <1>1 DEF Lists, NewRequest
  <2>3. /\ Delivered(last + 1)' /\ life' = life
        /\ given' \in Seq(Nat) /\ atCleanup' \in Seq(Nat) /\ up' \in Seq(Nat)
        /\ \/ NewRequest /\ closed' = closed /\ \E list \in Seq(Nat) : up' = up \o list
           \/ ~Framed /\ closed' = TRUE /\ NoResponse("none") /\ UNCHANGED reason
    BY <1>1, <1>2, <2>1, <2>2, HandOverKeeps
  <2>4. QED
    BY <2>3
<1>6. PICK l \in 0..written : l = last + 1 /\ l = written
  BY <1>3, <1>4
<1>7. Delivered(l)' /\ life' \in {"built", "removed"}
  BY <1>1, <1>5, <1>6 DEF Delivered
<1>8. CASE NewRequest /\ closed' = closed
  BY <1>1, <1>5, <1>6, <1>7, <1>8, Restarted
<1>9. CASE ~Framed /\ closed' = TRUE /\ NoResponse("none") /\ UNCHANGED reason
  BY <1>1, <1>5, <1>7, <1>9, Silenced
<1>10. QED
  BY <1>5, <1>8, <1>9

LEMMA ScriptFailsKeeps == ReceiverInv /\ ScriptFails => ReceiverInv'
<1> SUFFICES ASSUME ReceiverInv, ScriptFails PROVE ReceiverInv'
  OBVIOUS
<1>1. /\ ~Framed /\ request = "running" /\ GiveUp /\ UNCHANGED <<kind, written, broken>>
      /\ broken \in BOOLEAN
  BY DEF ScriptFails, ReceiverInv, Control, server, Framed
<1>2. QED
  BY <1>1, GivesUp

LEMMA EventSourceErrorKeeps == ReceiverInv /\ EventSourceError => ReceiverInv'
<1> SUFFICES ASSUME ReceiverInv, EventSourceError PROVE ReceiverInv'
  OBVIOUS
<1>1. /\ kind = "eventsource" /\ request = "running" /\ NoResponse("ending")
      /\ UNCHANGED <<kind, given, closed, atCleanup, life, up, written>>
      /\ reason' \in {"network", "permanent"} /\ Control /\ Lists /\ text = <<>>
      /\ Framed /\ Framed' = Framed /\ Xhr' = Xhr /\ ~Xhr
  BY DEF EventSourceError, ReceiverInv, Control, sockjs, iframe, Framed, Xhr
<1>2. broken' \in BOOLEAN /\ (~broken' => ~broken /\ net = <<>>)
  <2>1. broken \in BOOLEAN
    BY <1>1 DEF Control
  <2>2. broken' = TRUE \/ broken' = (broken \/ ~ended \/ net # <<>>)
    BY DEF EventSourceError, BreaksOff
  <2>3. (broken \/ ~ended \/ net # <<>>) \in BOOLEAN
    OBVIOUS
  <2>4. QED
    BY <2>2, <2>3, Zenon
<1>3. PICK last \in 0..written : Delivered(last) /\ Held(last)
  BY DEF ReceiverInv, Stream
<1>4. broken' \/ last = written
  BY <1>1, <1>2, <1>3, HeldAll
<1>5. text' = <<>> /\ net' = <<>> /\ bufPos' = 0 /\ request' = "ending" /\ ended' = FALSE
  BY <1>1 DEF NoResponse
<1>6. Held(last)' /\ Delivered(last)'
  BY <1>1, <1>3, <1>4, <1>5, HeldEmpty DEF Delivered
<1>7. Lists'
  BY <1>1, <1>5, EmptyLists DEF Lists
<1>8. Control'
  <2>1. watching' = (kind = "htmlfile" /\ FALSE)
    BY <1>1 DEF NoResponse
  <2>2. watching' = FALSE
    BY <2>1, Zenon
  <2>3. QED
    BY <1>1, <1>2, <1>5, <2>2 DEF Control
<1>9. QED
  BY <1>1, <1>5, <1>6, <1>7, <1>8 DEF ReceiverInv, Stream, Asked

LEMMA EventSourceClosesKeeps == ReceiverInv /\ EventSourceCloses => ReceiverInv'
<1> SUFFICES ASSUME ReceiverInv, EventSourceCloses PROVE ReceiverInv'
  OBVIOUS
<1>1. /\ request = "ending" /\ ReceiverEnds(reason) /\ UNCHANGED <<kind, written, broken>>
      /\ broken \in BOOLEAN /\ text = <<>> /\ net = <<>>
  BY DEF EventSourceCloses, ReceiverInv, Control, server
<1>2. QED
  BY <1>1, Ends

LEMMA HtmlfileTimeoutKeeps == ReceiverInv /\ HtmlfileTimeout => ReceiverInv'
<1> SUFFICES ASSUME ReceiverInv, HtmlfileTimeout PROVE ReceiverInv'
  OBVIOUS
<1>1. /\ request = "running" /\ ReceiverEnds("permanent")
      /\ UNCHANGED <<kind, written, broken>>
      /\ broken \in BOOLEAN /\ text = <<>> /\ net = <<>>
  BY DEF HtmlfileTimeout, ReceiverInv, Control, server, Xhr
<1>2. QED
  BY <1>1, Ends

LEMMA HtmlfileStopsKeeps == ReceiverInv /\ HtmlfileStops => ReceiverInv'
<1> SUFFICES ASSUME ReceiverInv, HtmlfileStops PROVE ReceiverInv'
  OBVIOUS
<1>1. /\ request = "running" /\ ReceiverEnds("network") /\ UNCHANGED <<kind, written>>
      /\ text = <<>> /\ broken' = (broken \/ ~ended \/ net # <<>>)
  BY DEF HtmlfileStops, BreaksOff, ReceiverInv, Control, Xhr
<1>2. broken' \in BOOLEAN /\ (~broken' => ~broken /\ net = <<>>)
  BY <1>1, Zenon
<1>3. QED
  BY <1>1, <1>2, Ends

-----------------------------------------------------------------------------
(* The page, the iframe and the server.                                    *)

LEMMA SockJSClosesKeeps == ReceiverInv /\ (SockJSCloses \/ IframeTimeout) => ReceiverInv'
<1> SUFFICES ASSUME ReceiverInv, SockJSCloses \/ IframeTimeout PROVE ReceiverInv'
  OBVIOUS
<1>1. CloseAfter(given) /\ UNCHANGED <<kind, written, broken>> /\ broken \in BOOLEAN
  BY DEF SockJSCloses, IframeTimeout, ReceiverInv, Control, server
<1>2. QED
  BY <1>1, ClosedAtOnce

\* The first frame that waits for the page is the next one.
LEMMA NextNumbered ==
  ASSUME NEW s \in Seq(Nat), NEW n \in Nat, NEW m \in Nat, Numbered(s, n, m),
         s # <<>>, Head(s) # LF
  PROVE  Head(s) = n + 1 /\ n + 1 <= m /\ Numbered(Tail(s), n + 1, m)
<1>1. /\ Len(s) \in Nat \ {0} /\ DOMAIN s = 1..Len(s) /\ Head(s) = s[1]
      /\ Tail(s) \in Seq(Nat) /\ DOMAIN Tail(s) = 1..(Len(s) - 1)
      /\ \A i \in 1..(Len(s) - 1) : Tail(s)[i] = s[i + 1]
      /\ \A i \in 1..Len(s) : s[i] \in Nat
  BY EmptySeq, HeadTailProperties, ElementOfSeq, LenProperties
<1>2. /\ \A i \in 1..Len(s) : s[i] # LF => s[i] \in (n + 1)..m
      /\ \A i, j \in 1..Len(s) : (i < j /\ s[i] # LF /\ s[j] # LF) => s[i] < s[j]
      /\ \A k \in (n + 1)..m : \E i \in 1..Len(s) : s[i] = k
  BY <1>1 DEF Numbered
<1>3. s[1] # LF /\ 1 \in 1..Len(s) /\ s[1] \in (n + 1)..m /\ n + 1 \in (n + 1)..m
  BY <1>1, <1>2
<1>4. PICK i \in 1..Len(s) : s[i] = n + 1
  BY <1>2, <1>3
<1>5. s[1] = n + 1
  <2>1. CASE i = 1
    BY <1>4, <2>1
  <2>2. CASE i > 1
    <3>1. s[i] # LF
      BY <1>4 DEF LF
    <3>2. s[1] < s[i]
      BY <1>2, <1>3, <2>2, <3>1
    <3>3. QED
      BY <1>3, <1>4, <3>2
  <2>3. QED
    BY <2>1, <2>2
<1>6. ASSUME NEW j \in 1..(Len(s) - 1), Tail(s)[j] # LF
      PROVE  Tail(s)[j] \in (n + 1 + 1)..m
  <2>1. /\ j + 1 \in 1..Len(s) /\ 1 < j + 1 /\ Tail(s)[j] = s[j + 1]
    BY <1>1
  <2>2. s[1] < s[j + 1] /\ s[j + 1] \in (n + 1)..m
    BY <1>2, <1>3, <1>6, <2>1
  <2>3. QED
    BY <1>5, <2>1, <2>2
<1>7. ASSUME NEW j \in 1..(Len(s) - 1), NEW k \in 1..(Len(s) - 1), j < k,
             Tail(s)[j] # LF, Tail(s)[k] # LF
      PROVE  Tail(s)[j] < Tail(s)[k]
  <2>1. j + 1 \in 1..Len(s) /\ k + 1 \in 1..Len(s)
    BY <1>1
  <2>2. j + 1 < k + 1
    BY <1>1, <1>7
  <2>3. Tail(s)[j] = s[j + 1] /\ Tail(s)[k] = s[k + 1]
    BY <1>1
  <2>4. s[j + 1] # LF /\ s[k + 1] # LF
    BY <1>7, <2>3, Zenon
  <2>5. QED
    BY <1>2, <2>1, <2>2, <2>3, <2>4, Zenon
<1>8. ASSUME NEW k \in (n + 1 + 1)..m PROVE \E j \in 1..(Len(s) - 1) : Tail(s)[j] = k
  <2>1. PICK j \in 1..Len(s) : s[j] = k
    BY <1>2, <1>8
  <2>2. j # 1 /\ j - 1 \in 1..(Len(s) - 1) /\ (j - 1) + 1 = j
    BY <1>1, <1>5, <2>1
  <2>3. QED
    BY <1>1, <2>1, <2>2
<1>9. Numbered(Tail(s), n + 1, m)
  <2>1. /\ \A j \in DOMAIN Tail(s) : Tail(s)[j] # LF => Tail(s)[j] \in (n + 1 + 1)..m
        /\ \A j, k \in DOMAIN Tail(s) :
             (j < k /\ Tail(s)[j] # LF /\ Tail(s)[k] # LF) => Tail(s)[j] < Tail(s)[k]
        /\ \A k \in (n + 1 + 1)..m : \E j \in DOMAIN Tail(s) : Tail(s)[j] = k
    BY <1>1, <1>6, <1>7, <1>8, Zenon
  <2>2. QED
    BY <2>1 DEF Numbered
<1>10. QED
  BY <1>1, <1>3, <1>5, <1>9

LEMMA PageReceivesKeeps == ReceiverInv /\ PageReceives => ReceiverInv'
<1> SUFFICES ASSUME ReceiverInv, PageReceives PROVE ReceiverInv'
  OBVIOUS
<1>1. /\ up # <<>> /\ UNCHANGED <<kind, written, broken>> /\ broken \in BOOLEAN
      /\ Control /\ Lists /\ Asked
  BY DEF PageReceives, ReceiverInv, Control, server
<1>2. PICK last \in 0..written : Delivered(last) /\ Held(last)
  BY DEF ReceiverInv, Stream
<1>3. PICK g \in Nat : g = Len(given)
  BY <1>1 DEF Lists
<1>4. /\ ~closed /\ Framed /\ given = UpTo(g) /\ g <= last /\ last \in Nat
      /\ Numbered(up, g, last) /\ up \in Seq(Nat) /\ CLOSE = LF
  BY <1>1, <1>2, <1>3 DEF Delivered, Lists, CLOSE, LF
<1>5. ASSUME Head(up) # CLOSE
      PROVE  /\ Append(given, Head(up)) = UpTo(g + 1) /\ g + 1 <= last
             /\ Numbered(Tail(up), g + 1, last)
  <2>1. Head(up) = g + 1 /\ g + 1 <= last /\ Numbered(Tail(up), g + 1, last)
    BY <1>1, <1>4, <1>5, NextNumbered
  <2>2. QED
    BY <1>4, <2>1, UpToType
<1>6. CASE /\ Head(up) # CLOSE /\ given' = Append(given, Head(up)) /\ up' = Tail(up)
           /\ UNCHANGED <<response, closed, atCleanup, life, down>>
  <2>1. UNCHANGED <<kind, request, reason, watching, ended, net, text, bufPos, closed,
                    atCleanup, life, written, broken>>
    BY <1>1, <1>6 DEF response
  <2>2. Framed' = Framed /\ Xhr' = Xhr
    BY <2>1 DEF Framed, Xhr
  <2>3. given' = UpTo(g + 1) /\ Len(given') = g + 1 /\ given' \in Seq(Nat)
    <3>1. g + 1 \in Nat /\ given' = UpTo(g + 1)
      BY <1>3, <1>5, <1>6
    <3>2. QED
      BY <3>1, UpToShape
  <2>4. up' \in Seq(Nat)
    BY <1>1, <1>4, <1>6, HeadTailProperties
  <2>5. Delivered(last)'
    BY <1>4, <1>5, <1>6, <2>1, <2>2, <2>3 DEF Delivered, UpTo
  <2>6. Held(last)' /\ last \in 0..written'
    BY <1>2, <2>1, HeldSame
  <2>7. Lists'
    BY <1>1, <2>1, <2>3, <2>4 DEF Lists
  <2>8. Control'
    BY <1>1, <2>1, <2>2 DEF Control
  <2>9. Asked'
    <3>1. ASSUME NEW n \in DOMAIN up, up[n] = CLOSE
          PROVE  \E i \in DOMAIN up' : up'[i] = CLOSE
      <4>1. /\ Len(up) \in Nat \ {0} /\ DOMAIN up = 1..Len(up) /\ Head(up) = up[1]
            /\ DOMAIN up' = 1..(Len(up) - 1)
            /\ \A i \in 1..(Len(up) - 1) : up'[i] = up[i + 1]
        BY <1>1, <1>4, <1>6, EmptySeq, HeadTailProperties, LenProperties
      <4>2. n # 1
        BY <1>6, <3>1, <4>1
      <4>3. n - 1 \in 1..(Len(up) - 1) /\ (n - 1) + 1 = n
        BY <4>1, <4>2
      <4>4. up'[n - 1] = CLOSE
        BY <3>1, <4>1, <4>3
      <4>5. QED
        BY <4>1, <4>3, <4>4
    <3>2. QED
      BY <1>1, <2>1, <3>1 DEF Asked
  <2>10. QED
    BY <2>5, <2>6, <2>7, <2>8, <2>9 DEF ReceiverInv, Stream
<1>7. CASE CloseAfter(IF Head(up) = CLOSE THEN given ELSE Append(given, Head(up)))
  <2>1. CASE Head(up) = CLOSE
    BY <1>1, <1>7, <2>1, ClosedAtOnce
  <2>2. CASE Head(up) # CLOSE
    <3>1. PICK h \in 0..last : h = g + 1
      BY <1>3, <1>5, <2>2
    <3>2. CloseAfter(UpTo(h))
      BY <1>5, <1>7, <2>2, <3>1
    <3>3. QED
      BY <1>1, <1>2, <3>2, Closed
  <2>3. QED
    BY <2>1, <2>2
<1>8. QED
  BY <1>6, <1>7 DEF PageReceives

LEMMA PostFailsReceives == ReceiverInv /\ PostFails => ReceiverInv'
<1> SUFFICES ASSUME ReceiverInv, PostFails PROVE ReceiverInv'
  OBVIOUS
<1>1. /\ UNCHANGED <<kind, written, broken>> /\ broken \in BOOLEAN /\ Control /\ Lists /\ Asked
  BY DEF PostFails, ReceiverInv, Control, server
<1>2. PICK last \in 0..written : Delivered(last) /\ Held(last)
  BY DEF ReceiverInv, Stream
<1>3. Framed' = Framed /\ Xhr' = Xhr
  BY <1>1 DEF Framed, Xhr
<1>4. CASE Framed
  <2>1. /\ PostUp(<<CLOSE>>) /\ last \in Nat /\ <<CLOSE>> \in Seq(Nat) /\ last <= last
        /\ Numbered(<<CLOSE>>, last, last)
        /\ UNCHANGED <<request, reason, watching, ended, net, text, bufPos>>
    BY <1>1, <1>4, NothingNumbered DEF PostFails, Lists, CLOSE, response
  <2>2. /\ Delivered(last)' /\ closed' = closed /\ life' = life
        /\ given' \in Seq(Nat) /\ atCleanup' \in Seq(Nat) /\ up' \in Seq(Nat)
        /\ ~closed => up' = up \o <<CLOSE>>
    BY <1>1, <1>2, <1>4, <2>1, PostUpKeeps
  <2>3. Held(last)' /\ last \in 0..written'
    BY <1>1, <1>2, <2>1, HeldSame
  <2>4. Lists'
    BY <1>1, <2>1, <2>2 DEF Lists
  <2>5. Control'
    BY <1>1, <1>3, <2>1, <2>2 DEF Control
  <2>6. Asked'
    BY <1>1, <2>2, Announced DEF Asked, Lists
  <2>7. QED
    BY <2>2, <2>3, <2>4, <2>5, <2>6 DEF ReceiverInv, Stream
<1>5. CASE ~Framed /\ ~closed
  BY <1>1, <1>5, ClosedAtOnce DEF PostFails
<1>6. CASE ~Framed /\ closed
  <2>1. UNCHANGED <<kind, request, reason, watching, ended, net, text, bufPos, given, closed,
                    atCleanup, life, up, written, broken>>
    BY <1>1, <1>6 DEF PostFails, response, sockjs, iframe
  <2>2. Delivered(last)' /\ Held(last)' /\ last \in 0..written'
    BY <1>2, <1>3, <2>1, HeldSame DEF Delivered
  <2>3. Control' /\ Lists' /\ Asked'
    BY <1>1, <1>3, <2>1 DEF Control, Lists, Asked
  <2>4. QED
    BY <2>2, <2>3 DEF ReceiverInv, Stream
<1>7. QED
  BY <1>4, <1>5, <1>6

LEMMA IframeLoadsKeeps == ReceiverInv /\ IframeLoads => ReceiverInv'
<1> SUFFICES ASSUME ReceiverInv, IframeLoads PROVE ReceiverInv'
  OBVIOUS
<1>1. /\ life = "loading" /\ life' = "told" /\ Control /\ Lists
      /\ UNCHANGED <<kind, request, reason, watching, ended, net, text, bufPos, given, closed,
                     atCleanup, up, written, broken>>
      /\ Framed' = Framed /\ Xhr' = Xhr
  BY DEF IframeLoads, ReceiverInv, response, sockjs, server, Framed, Xhr
<1>2. PICK last \in 0..written : Delivered(last) /\ Held(last)
  BY DEF ReceiverInv, Stream
<1>3. Delivered(last)' /\ Held(last)' /\ last \in 0..written'
  BY <1>1, <1>2, HeldSame DEF Delivered
<1>4. Control' /\ Lists' /\ Asked'
  BY <1>1 DEF Control, Lists, Asked
<1>5. QED
  BY <1>3, <1>4 DEF ReceiverInv, Stream

LEMMA IframeBuildsKeeps == ReceiverInv /\ IframeBuilds => ReceiverInv'
<1> SUFFICES ASSUME ReceiverInv, IframeBuilds PROVE ReceiverInv'
  OBVIOUS
<1>1. /\ Framed /\ life' = "built" /\ NewRequest /\ Control /\ Lists
      /\ UNCHANGED <<kind, given, closed, atCleanup, up, written, broken>>
      /\ broken \in BOOLEAN /\ text = <<>> /\ net = <<>>
      /\ given \in Seq(Nat) /\ atCleanup \in Seq(Nat) /\ up \in Seq(Nat)
  BY DEF IframeBuilds, ReceiverInv, Control, Lists, sockjs, server
<1>2. PICK last \in 0..written : Delivered(last) /\ Held(last)
  BY DEF ReceiverInv, Stream
<1>3. broken' \/ last = written
  BY <1>1, <1>2, HeldAll
<1>4. Delivered(last)'
  BY <1>1, <1>2 DEF Delivered, Framed
<1>5. QED
  BY <1>1, <1>3, <1>4, Restarted

LEMMA IframeRemovedReceives == ReceiverInv /\ IframeRemoved => ReceiverInv'
<1> SUFFICES ASSUME ReceiverInv, IframeRemoved PROVE ReceiverInv'
  OBVIOUS
<1>1. /\ Framed /\ closed /\ life' = "removed" /\ NoResponse("none") /\ Control /\ Lists
      /\ UNCHANGED <<kind, reason, given, closed, atCleanup, up, written, broken>>
      /\ broken \in BOOLEAN /\ closed' = TRUE
      /\ given \in Seq(Nat) /\ atCleanup \in Seq(Nat) /\ up \in Seq(Nat)
  BY DEF IframeRemoved, ReceiverInv, Control, Lists, sockjs, server
<1>2. PICK last \in 0..written : Delivered(last) /\ Held(last)
  BY DEF ReceiverInv, Stream
<1>3. Delivered(last)'
  BY <1>1, <1>2 DEF Delivered, Framed
<1>4. QED
  BY <1>1, <1>3, Silenced

\* One more frame in the response.
LEMMA PairsMore ==
  ASSUME NEW s \in Seq(Nat), NEW n \in Nat, NEW k \in Nat, Pairs(s, n, k)
  PROVE  /\ s \o <<n + k + 1, LF>> \in Seq(Nat)
         /\ Pairs(s \o <<n + k + 1, LF>>, n, k + 1)
<1> DEFINE t == <<n + k + 1, LF>>
           r == s \o t
<1>1. t \in Seq(Nat) /\ Len(t) = 2 /\ t[1] = n + (k + 1) /\ t[2] = LF
  BY DEF LF
<1> HIDE DEF t
<1>2. /\ r \in Seq(Nat) /\ Len(s) = 2 * k /\ Len(r) = 2 * (k + 1)
      /\ \A i \in 1..(2 * k) : r[i] = s[i]
      /\ r[2 * k + 1] = t[1] /\ r[2 * k + 2] = t[2]
  <2>1. /\ r \in Seq(Nat) /\ Len(r) = Len(s) + Len(t)
        /\ \A i \in 1..Len(s) : r[i] = s[i]
        /\ \A i \in 1..Len(t) : r[Len(s) + i] = t[i]
    BY <1>1, JoinShape
  <2>2. Len(s) = 2 * k
    BY DEF Pairs
  <2> HIDE DEF r
  <2>3. 1 \in 1..Len(t) /\ 2 \in 1..Len(t)
    BY <1>1
  <2>4. r[Len(s) + 1] = t[1] /\ r[Len(s) + 2] = t[2]
    BY <2>1, <2>3, Zenon
  <2>5. Len(r) = 2 * (k + 1)
    BY <1>1, <2>1, <2>2
  <2>6. QED
    BY <2>1, <2>2, <2>4, <2>5, Zenon
<1> HIDE DEF r
<1>3. ASSUME NEW j \in 1..(k + 1) PROVE r[2 * j - 1] = n + j /\ r[2 * j] = LF
  <2>1. CASE j \in 1..k
    <3>1. 2 * j - 1 \in 1..(2 * k) /\ 2 * j \in 1..(2 * k)
      BY <2>1
    <3>2. s[2 * j - 1] = n + j /\ s[2 * j] = LF
      BY <2>1 DEF Pairs
    <3>3. QED
      BY <1>2, <3>1, <3>2
  <2>2. CASE j = k + 1
    <3>1. 2 * j - 1 = 2 * k + 1 /\ 2 * j = 2 * k + 2
      BY <2>2
    <3>2. QED
      BY <1>1, <1>2, <2>2, <3>1
  <2>3. QED
    BY <2>1, <2>2
<1>4. QED
  BY <1>2, <1>3 DEF Pairs, r, t

LEMMA ServerWritesKeeps == ReceiverInv /\ ServerWrites => ReceiverInv'
<1> SUFFICES ASSUME ReceiverInv, ServerWrites PROVE ReceiverInv'
  OBVIOUS
<1>1. /\ request = "running" /\ ~watching /\ ~ended /\ ~broken /\ written < MaxFrames
      /\ written' = written + 1 /\ net' = net \o <<written', LF>> /\ ended' = (kind = "jsonp")
      /\ UNCHANGED <<kind, request, reason, watching, text, bufPos, given, closed,
                     atCleanup, life, up, broken>>
      /\ Framed' = Framed /\ Xhr' = Xhr /\ Control /\ Lists /\ Asked
      /\ written \in Nat /\ written' \in 0..MaxFrames
      /\ net \in Seq(Nat) /\ text \in Seq(Nat)
  BY TransportAssumption
     DEF ServerWrites, Listening, ReceiverInv, Control, Lists, sockjs, iframe, Framed, Xhr
<1>2. PICK last \in 0..written : Delivered(last) /\ Held(last)
  BY DEF ReceiverInv, Stream
<1>3. PICK b \in 0..last, w \in Nat :
        /\ bufPos = 2 * b /\ last + w = written /\ Pairs(text \o net, last - b, b + w)
  BY <1>1, <1>2, Position
<1>4. /\ last \in Nat /\ last - b \in Nat /\ b + w \in Nat
      /\ (last - b) + (b + w) + 1 = written' /\ (b + w) + 1 = b + (w + 1)
      /\ w + 1 \in 0..written' /\ last + (w + 1) = written' /\ last \in 0..written'
  BY <1>1, <1>3
<1>5. PICK two \in Seq(Nat) : two = <<written', LF>> /\ Len(two) = 2
  <2>1. <<written', LF>> \in Seq(Nat) /\ Len(<<written', LF>>) = 2
    BY <1>1 DEF LF
  <2>2. QED
    BY <2>1, Zenon
<1>6. text \o net' = (text \o net) \o two /\ net' \in Seq(Nat) /\ Len(net') = Len(net) + 2
  <2>1. (text \o net) \o two = text \o (net \o two)
    BY <1>1, NumbersAssociate, Zenon
  <2>2. net \o two \in Seq(Nat) /\ Len(net \o two) = Len(net) + Len(two)
    BY <1>1, ConcatProperties
  <2>3. net' = net \o two
    BY <1>1, <1>5
  <2>4. QED
    BY <1>5, <2>1, <2>2, <2>3
<1>7. Pairs(text' \o net', last - b, b + (w + 1))
  <2>1. text \o net \in Seq(Nat)
    BY <1>1, ConcatProperties
  <2>2. Pairs((text \o net) \o <<(last - b) + (b + w) + 1, LF>>, last - b, (b + w) + 1)
    BY <1>3, <1>4, <2>1, PairsMore
  <2>3. text' \o net' = (text \o net) \o <<(last - b) + (b + w) + 1, LF>>
    BY <1>1, <1>4, <1>5, <1>6
  <2>4. QED
    BY <1>4, <2>2, <2>3, Zenon
<1>8. Held(last)'
  BY <1>1, <1>3, <1>4, <1>7 DEF Held
<1>9. Delivered(last)'
  BY <1>1, <1>2 DEF Delivered
<1>10. Lists'
  BY <1>1, <1>6 DEF Lists
<1>11. Control'
  <2>1. kind = "jsonp" => ended' = TRUE /\ Len(net') <= 2
    <3>1. kind = "jsonp" => net = <<>>
      BY <1>1 DEF Control
    <3>2. kind = "jsonp" => Len(net') = 2
      BY <1>6, <3>1
    <3>3. kind = "jsonp" => Len(net') <= 2
      BY <3>2
    <3>4. kind = "jsonp" => ended' = TRUE
      BY <1>1, Zenon
    <3>5. QED
      BY <3>3, <3>4
  <2>2. ended' \in BOOLEAN
    BY <1>1
  <2>3. QED
    BY <1>1, <2>1, <2>2 DEF Control
<1>12. QED
  BY <1>1, <1>4, <1>8, <1>9, <1>10, <1>11 DEF ReceiverInv, Stream, Asked

LEMMA ServerEndsKeeps == ReceiverInv /\ ServerEnds => ReceiverInv'
<1> SUFFICES ASSUME ReceiverInv, ServerEnds PROVE ReceiverInv'
  OBVIOUS
<1>1. /\ ended' = TRUE /\ Control /\ Lists /\ Asked
      /\ UNCHANGED <<kind, request, reason, watching, net, text, bufPos, given, closed,
                     atCleanup, life, up, written, broken>>
      /\ Framed' = Framed /\ Xhr' = Xhr
  BY DEF ServerEnds, ReceiverInv, sockjs, iframe, server, Framed, Xhr
<1>2. PICK last \in 0..written : Delivered(last) /\ Held(last)
  BY DEF ReceiverInv, Stream
<1>3. Delivered(last)' /\ Held(last)' /\ last \in 0..written'
  BY <1>1, <1>2, HeldSame DEF Delivered
<1>4. Control' /\ Lists' /\ Asked'
  BY <1>1 DEF Control, Lists, Asked
<1>5. QED
  BY <1>3, <1>4 DEF ReceiverInv, Stream

LEMMA HtmlfileStartsKeeps == ReceiverInv /\ HtmlfileStarts => ReceiverInv'
<1> SUFFICES ASSUME ReceiverInv, HtmlfileStarts PROVE ReceiverInv'
  OBVIOUS
<1>1. /\ watching' = FALSE /\ Control /\ Lists /\ Asked
      /\ UNCHANGED <<kind, request, reason, ended, net, text, bufPos, given, closed,
                     atCleanup, life, up, written, broken>>
      /\ Framed' = Framed /\ Xhr' = Xhr
  BY DEF HtmlfileStarts, ReceiverInv, sockjs, iframe, server, Framed, Xhr
<1>2. PICK last \in 0..written : Delivered(last) /\ Held(last)
  BY DEF ReceiverInv, Stream
<1>3. Delivered(last)' /\ Held(last)' /\ last \in 0..written'
  BY <1>1, <1>2, HeldSame DEF Delivered
<1>4. Control' /\ Lists' /\ Asked'
  BY <1>1 DEF Control, Lists, Asked
<1>5. QED
  BY <1>3, <1>4 DEF ReceiverInv, Stream

LEMMA ServerClosesKeeps == ReceiverInv /\ ServerCloses => ReceiverInv'
<1> SUFFICES ASSUME ReceiverInv, ServerCloses PROVE ReceiverInv'
  OBVIOUS
<1>1. /\ request = "running" /\ broken /\ broken' = broken /\ GiveUp
      /\ UNCHANGED <<kind, written>> /\ broken \in BOOLEAN
  BY DEF ServerCloses, Listening, ReceiverInv, Control, server
<1>2. QED
  BY <1>1, GivesUp

\* What the sender does leaves the receiver alone.
LEMMA Untouched ==
  ReceiverInv /\ UNCHANGED <<kind, response, sockjs, life, up, server>> => ReceiverInv'
<1> SUFFICES ASSUME ReceiverInv, UNCHANGED <<kind, response, sockjs, life, up, server>>
             PROVE  ReceiverInv'
  OBVIOUS
<1>1. /\ Control /\ Lists /\ Asked
      /\ UNCHANGED <<kind, request, reason, watching, ended, net, text, bufPos, given,
                     closed, atCleanup, life, up, written, broken>>
      /\ Framed' = Framed /\ Xhr' = Xhr
  BY DEF ReceiverInv, response, sockjs, server, Framed, Xhr
<1>2. PICK last \in 0..written : Delivered(last) /\ Held(last)
  BY DEF ReceiverInv, Stream
<1>3. Delivered(last)' /\ Held(last)' /\ last \in 0..written'
  BY <1>1, <1>2, HeldSame DEF Delivered
<1>4. Control' /\ Lists' /\ Asked'
  BY <1>1 DEF Control, Lists, Asked
<1>5. QED
  BY <1>3, <1>4 DEF ReceiverInv, Stream

LEMMA ReceiverInit == Init => ReceiverInv
<1> SUFFICES ASSUME Init PROVE ReceiverInv
  OBVIOUS
<1>1. /\ kind \in Kinds /\ reason = "network" /\ watching = FALSE /\ ended = FALSE
      /\ net = <<>> /\ text = <<>> /\ bufPos = 0 /\ given = <<>> /\ closed = FALSE
      /\ atCleanup = <<>> /\ up = <<>> /\ written = 0 /\ broken = FALSE
      /\ request = IF Framed THEN "none" ELSE IF Xhr THEN "delayed" ELSE "running"
      /\ life = IF Framed THEN "loading" ELSE "built"
  BY DEF Init
<1>2. /\ request \in {"none", "delayed", "running"} /\ life \in {"loading", "built"}
      /\ life = "loading" => Framed /\ request = "none"
      /\ ~Framed => life = "built" /\ request # "none"
      /\ Framed => life = "loading"
  BY <1>1
<1>3. Lists
  BY <1>1, TransportAssumption DEF Lists
<1>4. Control
  <2>1. Len(net) <= 2
    BY <1>1
  <2>2. QED
    BY <1>1, <1>2, <2>1 DEF Control
<1>5. Asked
  BY <1>1, <1>2 DEF Asked
<1>6. Delivered(0)
  <2>1. UpTo(0) = <<>> /\ Len(<<>>) = 0
    BY DEF UpTo
  <2>2. QED
    BY <1>1, <2>1, NothingNumbered DEF Delivered
<1>7. Held(0)
  <2>1. Pairs(text \o net, 0 - 0, 0 + 0) /\ 0 \in 0..0 /\ 0 \in 0..written /\ bufPos = 2 * 0
    BY <1>1 DEF Pairs
  <2>2. QED
    BY <1>1, <2>1 DEF Held
<1>8. QED
  BY <1>1, <1>3, <1>4, <1>5, <1>6, <1>7 DEF ReceiverInv, Stream

LEMMA ReceiverStep == ReceiverInv /\ [Next]_vars => ReceiverInv'
<1> SUFFICES ASSUME ReceiverInv, [Next]_vars PROVE ReceiverInv'
  OBVIOUS
<1>1. CASE Receive
  BY <1>1, XhrStartsKeeps, XhrChunkKeeps, XhrFinishKeeps, XhrFailsKeeps, FrameArrivesKeeps,
     EventSourceErrorKeeps, EventSourceClosesKeeps, HtmlfileStartsKeeps,
     HtmlfileTimeoutKeeps, HtmlfileStopsKeeps, ScriptCallsKeeps, ScriptFailsKeeps
     DEF Receive
<1>2. CASE SockJSCloses
  BY <1>2, SockJSClosesKeeps
<1>3. CASE DoSend \/ PostSucceeds \/ WaitOver \/ IframeSends
  BY <1>3, Untouched DEF DoSend, PostSucceeds, WaitOver, IframeSends, iframe
<1>4. CASE PostFails
  BY <1>4, PostFailsReceives
<1>5. CASE IframeLoads \/ IframeBuilds \/ IframeTimeout \/ PageReceives \/ IframeRemoved
  BY <1>5, IframeLoadsKeeps, IframeBuildsKeeps, SockJSClosesKeeps, PageReceivesKeeps,
     IframeRemovedReceives
<1>6. CASE ServerWrites \/ ServerEnds \/ ServerCloses
  BY <1>6, ServerWritesKeeps, ServerEndsKeeps, ServerClosesKeeps
<1>7. CASE ServerReads \/ ServerReadsLate
  BY <1>7, Untouched DEF ServerReads, ServerReadsLate, iframe
<1>8. CASE UNCHANGED vars
  BY <1>8, Untouched DEF vars, iframe
<1>9. QED
  BY <1>1, <1>2, <1>3, <1>4, <1>5, <1>6, <1>7, <1>8 DEF Next, PostEnds, Iframe, Server

LEMMA ReceiverInvImplies == ReceiverInv => StreamIntact
<1> SUFFICES ASSUME ReceiverInv PROVE StreamIntact
  OBVIOUS
<1>1. PICK last \in 0..written : Delivered(last) /\ Held(last)
  BY DEF ReceiverInv, Stream
<1>2. /\ Control /\ Lists /\ Asked /\ last \in Nat /\ written \in Nat /\ last <= written
      /\ net \in Seq(Nat) /\ text \in Seq(Nat) /\ up \in Seq(Nat)
  BY DEF ReceiverInv, Lists
<1>3. PICK g \in Nat : g = Len(given) /\ g <= last /\ given = UpTo(g)
  BY <1>1, <1>2 DEF Delivered, Lists
<1>4. IsPrefix(given, UpTo(written))
  <2>1. PICK k \in Nat : g + k = written
    <3>1. written - g \in Nat /\ g + (written - g) = written
      BY <1>2, <1>3
    <3>2. QED
      BY <3>1
  <2>2. /\ UpTo(g) \o Frames(g, k) = UpTo(g + k)
        /\ UpTo(g) \in Seq(Nat) /\ Frames(g, k) \in Seq(Nat)
    BY UpToJoin, UpToShape, FramesShape
  <2>3. QED
    BY <1>3, <2>1, <2>2, PartIsPrefix
<1>5. ASSUME ~closed, ~broken PROVE Numbered(OnTheirWay, g, written)
  <2>1. PICK b \in 0..last, w \in Nat :
          /\ bufPos = 2 * b /\ last + w = written
          /\ Pairs(text \o net, last - b, b + w)
    BY <1>1, <1>2, <1>5, Position
  <2>2. /\ b \in Nat /\ last - b \in Nat /\ (last - b) + b = last /\ 2 * b <= Len(text)
    BY <1>2, <2>1 DEF Lists
  <2>3. PICK rest \in Seq(Nat) : /\ rest = SubSeq(text, bufPos + 1, Len(text)) \o net
                                 /\ Pairs(rest, last, w)
    <3>1. /\ SubSeq(text, 2 * b + 1, Len(text)) \o net \in Seq(Nat)
          /\ Pairs(SubSeq(text, 2 * b + 1, Len(text)) \o net, (last - b) + b, w)
      BY <1>2, <2>1, <2>2, PairsRest
    <3>2. QED
      BY <2>1, <2>2, <3>1
  <2>4. Numbered(rest, last, written)
    BY <1>2, <2>1, <2>3, PairsNumbered
  <2>5. Numbered(up, g, last)
    BY <1>1, <1>3, <1>5 DEF Delivered
  <2>6. Numbered(up \o rest, g, written)
    BY <1>2, <1>3, <2>4, <2>5, NumberedJoin
  <2>7. QED
    BY <2>3, <2>6 DEF OnTheirWay
<1>6. closed => given = atCleanup
  BY <1>1 DEF Delivered
<1>7. QED
  BY <1>2, <1>3, <1>4, <1>5, <1>6 DEF StreamIntact, Asked

\* However the texts of a response are cut, whichever receiver reads them and whatever
\* responses end or break, SockJS is given the frames of its session in order, each once,
\* none is lost on the way to it, and there is a request for the next or word that there
\* will be none.
THEOREM StreamKept == Spec => []StreamIntact
<1>1. Spec => []ReceiverInv
  BY ReceiverInit, ReceiverStep, PTL DEF Spec
<1>2. QED
  BY <1>1, ReceiverInvImplies, PTL

-----------------------------------------------------------------------------
(* The types.                                                              *)

\* What SenderTypes does not say.
PostTypes ==
  /\ sent <= MaxMessages /\ failed \in BOOLEAN
  /\ post # None => post.batch # <<>>

LEMMA ScheduleFills ==
  ASSUME NEW list, SendSchedule(list), PostTypes
  PROVE  post' # None => post'.batch # <<>>
  BY DEF SendSchedule, Worth, PostTypes

LEMMA BufferFills ==
  ASSUME NEW message, Buffer(message), PostTypes
  PROVE  post' # None => post'.batch # <<>>
  BY ScheduleFills DEF Buffer, PostTypes

LEMMA PostTypesStep == SenderInv /\ PostTypes /\ [Next]_vars => PostTypes'
<1> SUFFICES ASSUME SenderInv, PostTypes, [Next]_vars PROVE PostTypes'
  OBVIOUS
<1>1. CASE Receiving \/ UNCHANGED vars
  <2>1. UNCHANGED <<sent, failed, post>>
    BY <1>1, ReceivingQuiet DEF Quiet, sender, vars
  <2>2. QED
    BY <2>1 DEF PostTypes
<1>2. CASE DoSend
  <2>1. post' # None => post'.batch # <<>>
    BY <1>2, BufferFills DEF DoSend, PostTypes
  <2>2. sent' <= MaxMessages /\ failed' = failed
    BY <1>2, TransportAssumption DEF DoSend, SenderInv, SenderTypes
  <2>3. QED
    BY <2>1, <2>2 DEF PostTypes
<1>3. CASE PostSucceeds \/ PostFails \/ IframeRemoved
  <2>1. post' = None /\ sent' = sent /\ (failed' = failed \/ failed' = TRUE)
    BY <1>3 DEF PostSucceeds, PostFails, IframeRemoved
  <2>2. QED
    BY <2>1 DEF PostTypes
<1>4. CASE WaitOver \/ IframeSends
  <2>1. UNCHANGED <<sent, failed>>
    BY <1>4 DEF WaitOver, IframeSends
  <2>2. post' # None => post'.batch # <<>>
    BY <1>4, ScheduleFills, BufferFills DEF WaitOver, AfterWait, IframeSends
  <2>3. QED
    BY <2>1, <2>2 DEF PostTypes
<1>5. CASE ServerReads
  <2>1. UNCHANGED <<sent, failed>> /\ post # None /\ post \in Posts
        /\ post' = [post EXCEPT !.read = TRUE]
    BY <1>5 DEF ServerReads, SenderInv, SenderTypes
  <2>2. post'.batch = post.batch
    BY <2>1 DEF Posts
  <2>3. QED
    BY <2>1, <2>2 DEF PostTypes
<1>6. CASE ServerReadsLate
  BY <1>6 DEF ServerReadsLate, PostTypes
<1>7. QED
  BY <1>1, <1>2, <1>3, <1>4, <1>5, <1>6 DEF Next, Receiving, PostEnds, Iframe, Server

LEMMA TypesFollow == SenderInv /\ ReceiverInv /\ PostTypes => TypeOK
<1> SUFFICES ASSUME SenderInv, ReceiverInv, PostTypes PROVE TypeOK
  OBVIOUS
<1>1. SenderTypes /\ Control /\ Lists
  BY DEF SenderInv, ReceiverInv
<1>2. sent \in 0..MaxMessages
  BY <1>1, TransportAssumption DEF SenderTypes, PostTypes
<1>3. IF sendStop = "posting"
      THEN post \in [batch : Seq(Nat) \ {<<>>}, read : BOOLEAN]
      ELSE post = None
  <2>1. CASE sendStop = "posting"
    <3>1. post \in Posts /\ post # None
      BY <1>1, <2>1, TransportAssumption DEF SenderTypes, Posts
    <3>2. QED
      BY <2>1, <3>1 DEF Posts, PostTypes
  <2>2. QED
    BY <1>1, <2>1 DEF SenderTypes
<1>4. QED
  BY <1>1, <1>2, <1>3 DEF SenderTypes, Control, Lists, PostTypes, TypeOK

\* Every variable keeps its type: the receiver never reads past what has arrived, a POST
\* is under way exactly while the sender waits for it, and it never carries nothing.
THEOREM TransportTypes == Spec => []TypeOK
<1>1. Init => PostTypes
  <2>1. Init => sent = 0 /\ post = None /\ failed = FALSE
    BY DEF Init
  <2>2. 0 <= MaxMessages
    BY TransportAssumption
  <2>3. QED
    BY <2>1, <2>2 DEF PostTypes
<1>2. Spec => [](SenderInv /\ PostTypes)
  <2>1. Init => SenderInv /\ PostTypes
    BY <1>1, SenderInit
  <2>2. (SenderInv /\ PostTypes) /\ [Next]_vars => (SenderInv /\ PostTypes)'
    BY SenderStep, PostTypesStep
  <2>3. QED
    BY <2>1, <2>2, PTL DEF Spec
<1>3. Spec => []ReceiverInv
  BY ReceiverInit, ReceiverStep, PTL DEF Spec
<1>4. QED
  BY <1>2, <1>3, TypesFollow, PTL

=============================================================================
