--------------------------- MODULE MCStompClient ----------------------------
(* Instances of StompClient for TLC.                                       *)
EXTENDS StompClient

\* Two of the page's destinations stand for all of them.
PageOne == <<"prices">>

SomeCharacters == {<<"x">>, LF, Wide}

\* Nothing, an empty line within a text, a character of two bytes.
SomeBodies == {<<>>, <<<<"x">>, LF, LF, Wide>>}

OneBody == {<<>>}

\* A server with and without heartbeats, of the client's version or an old one.
SomeBeats == {<<0, 0>>, <<1, 1>>}
Beating   == {<<1, 1>>}
Own       == <<1, 1>>
=============================================================================
