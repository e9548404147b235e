----------------------------- MODULE StompFrame -----------------------------
(***************************************************************************)
(* The frames of STOMP as stomp.js writes and reads them.  Data is a        *)
(* sequence of lines and characters, each a tuple: a command or a character *)
(* is <<x>>, a header line <<name, value>>.  Header values are opaque.      *)
(***************************************************************************)
EXTENDS Integers, Sequences, FiniteSets

LF  == <<"LF">>
NUL == <<"NUL">>

\* A character that is one in a string and two bytes in UTF-8.
Wide == <<"wide">>

\* A frame has a command, a sequence of header lines and a body of characters.
Frame(command, headers, body) ==
  [command |-> command, headers |-> headers, body |-> body]

Has(headers, name) == \E n \in DOMAIN headers : headers[n][1] = name

\* The reader takes the lines last to first, so that the first one of a name counts.
Value(headers, name) ==
  headers[CHOOSE n \in DOMAIN headers :
            /\ headers[n][1] = name
            /\ \A m \in 1..(n - 1) : headers[m][1] # name][2]

\* Faulty variants: the last empty line divides a frame; line feeds between frames
\* belong to the next.
LastDivider(ends) == CHOOSE i \in ends : \A j \in ends : j <= i
SkippedNever(data, n) == FALSE

-----------------------------------------------------------------------------
SizeOfUTF8(body) == Len(body) + Cardinality({n \in DOMAIN body : body[n] = Wide})

\* The header lines as they are written, with the length of a body that is not empty.
Lines(f) ==
  IF f.body = <<>> THEN f.headers
  ELSE Append(f.headers, <<"content-length", SizeOfUTF8(f.body)>>)

\* Frame.toString: the command and the header lines with a line feed behind each, an
\* empty line, the body.
HeadLines(lines) == [n \in 1..(2 * Len(lines)) |-> IF n % 2 = 0 THEN LF ELSE lines[(n + 1) \div 2]]

Text(f) == HeadLines(<<<<f.command>>>> \o Lines(f)) \o <<LF>> \o f.body

Marshall(f) == Text(f) \o <<NUL>>

\* substring(start, start + length): the length in bytes is used to count
\* characters, and what is longer than the text stops at its end.
BodyOf(rest, length) ==
  SubSeq(rest, 1, IF length < Len(rest) THEN length ELSE Len(rest))

\* The first empty line divides the headers from the body.
Divider(ends) == CHOOSE i \in ends : \A j \in ends : i <= j

\* unmarshallSingle, for a text that ends where its NUL was.  The first line, which may
\* be empty, is the command, and every second symbol from there to the divider a header
\* line.  Without a divider there is nothing but a body, less its first character.
UnmarshallSingle(text) ==
  LET ends    == {i \in 1..(Len(text) - 1) : text[i] = LF /\ text[i + 1] = LF}
      divider == IF ends = {} THEN 0 ELSE Divider(ends)
      named   == IF divider = 0 \/ text[1] = LF THEN 0 ELSE 1
      headers == [n \in 1..((divider - 1 - named) \div 2) |-> text[2 * n + named]]
      rest    == SubSeq(text, divider + 2, Len(text))
  IN  Frame(IF named = 1 THEN text[1][1] ELSE "", headers,
            IF Has(headers, "content-length")
            THEN BodyOf(rest, Value(headers, "content-length")) ELSE rest)

\* Line feeds that follow a NUL are heartbeats and belong to no frame.
Skipped(data, n) ==
  \E m \in 1..(n - 1) : data[m] = NUL /\ \A k \in (m + 1)..n : data[k] = LF

\* Frame.unmarshall: the data is split at every NUL, and empty parts are dropped.  What
\* is left of the parts begins where a symbol of a frame follows none.
Belongs(data, n) == data[n] # NUL /\ ~Skipped(data, n)

Starts(data) ==
  {n \in DOMAIN data : Belongs(data, n) /\ (n = 1 \/ ~Belongs(data, n - 1))}

EndOf(data, n) ==
  CHOOSE m \in n..Len(data) : /\ \A k \in n..m : data[k] # NUL
                              /\ m = Len(data) \/ data[m + 1] = NUL

InOrder(numbers) ==
  CHOOSE list \in [1..Cardinality(numbers) -> numbers] :
    \A i, j \in DOMAIN list : i < j => list[i] < list[j]

Unmarshall(data) ==
  LET starts == InOrder(Starts(data))
  IN  [n \in DOMAIN starts |->
         UnmarshallSingle(SubSeq(data, starts[n], EndOf(data, starts[n])))]

\* What the reader makes of a frame: the length is a header line to it.
AsRead(f) == [f EXCEPT !.headers = Lines(f)]

=============================================================================
