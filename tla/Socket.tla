------------------------------- MODULE Socket -------------------------------
(***************************************************************************)
(* What a browser's socket promises to the program that uses it, whatever   *)
(* carries it: it opens at most once, hands over messages only while it is  *)
(* open, and tells exactly once that it has closed, after everything else.  *)
(* StompClient is specified over this, SockJS is shown to implement it.     *)
(***************************************************************************)
EXTENDS Naturals

VARIABLES
  state,     \* "connecting", "open", "closing" (closed, not yet told) or "closed"
  opens,     \* open events told
  messages,  \* messages handed over
  closes     \* close events told

socket == <<state, opens, messages, closes>>

Init ==
  /\ state = "connecting"
  /\ opens = 0
  /\ messages = 0
  /\ closes = 0

Open ==
  /\ state = "connecting"
  /\ state' = "open"
  /\ opens' = opens + 1
  /\ UNCHANGED <<messages, closes>>

\* One frame may bring several messages.
Receive ==
  /\ state = "open"
  /\ messages' \in Nat /\ messages' > messages
  /\ UNCHANGED <<state, opens, closes>>

\* Closed by the client, by the server or by a failure.
Close ==
  /\ state \in {"connecting", "open"}
  /\ state' = "closing"
  /\ UNCHANGED <<opens, messages, closes>>

TellClose ==
  /\ state = "closing"
  /\ state' = "closed"
  /\ closes' = closes + 1
  /\ UNCHANGED <<opens, messages>>

Next == Open \/ Receive \/ Close \/ TellClose

Spec == Init /\ [][Next]_socket /\ WF_socket(TellClose)

=============================================================================
