------------------------------ MODULE MCSockJS ------------------------------
(* Environments of SockJS for TLC.                                         *)
EXTENDS SockJS

\* A browser of today on the page, which connects when the document is loaded.
Modern ==
  [enabled     |-> {"websocket", "xhr-streaming", "xhr-polling", "iframe-eventsource",
                    "iframe-xhr-polling", "jsonp-polling"},
   receiver    |-> "ajax", null_origin |-> FALSE, early |-> FALSE]

\* Internet Explorer 9 and 7, connecting from the head of a page.
Explorer9 ==
  [enabled     |-> {"xdr-streaming", "xdr-polling", "iframe-htmlfile",
                    "iframe-xhr-polling", "jsonp-polling"},
   receiver    |-> "ajax", null_origin |-> FALSE, early |-> TRUE]

Explorer7 ==
  [enabled     |-> {"jsonp-polling"},
   receiver    |-> "fake", null_origin |-> FALSE, early |-> TRUE]

Opera12 ==
  [enabled     |-> {"websocket", "iframe-eventsource", "iframe-xhr-polling",
                    "jsonp-polling"},
   receiver    |-> "iframe", null_origin |-> FALSE, early |-> FALSE]

\* Modern ones that connect too early, or from a page without an origin.
Hasty     == [Modern EXCEPT !.early = TRUE]
Sandboxed == [Modern EXCEPT !.null_origin = TRUE]

SomeBrowsers == {Modern, Explorer9, Explorer7, Opera12, Hasty, Sandboxed}
=============================================================================
