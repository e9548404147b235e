------------------------- MODULE StompClientProofs --------------------------
(***************************************************************************)
(* What the STOMP client gives the page, for any destinations, bodies and    *)
(* heartbeats: what a frame is written as is read as the same frame, and an  *)
(* induction over the steps of client, server and socket, in which every     *)
(* frame on its way belongs to the one destination its id was drawn for.     *)
(***************************************************************************)
EXTENDS StompClient, SequenceTheorems, FiniteSetTheorems, TLAPS

-----------------------------------------------------------------------------
(* One frame, written and read.                                            *)

\* The lines of a frame and of its text.
LEMMA LinesType ==
  ASSUME NEW H, NEW headers \in Seq(H), NEW command, NEW body
  PROVE  LET f == Frame(command, headers, body)
             T == H \cup {<<"content-length", SizeOfUTF8(body)>>}
         IN  Lines(f) \in Seq(T)
<1> DEFINE f == Frame(command, headers, body)
           T == H \cup {<<"content-length", SizeOfUTF8(body)>>}
<1>1. f.headers = headers /\ f.body = body
  BY DEF Frame
<1>2. headers \in Seq(T)
  OBVIOUS
<1>3. QED
  BY <1>1, <1>2, AppendProperties DEF Lines

LEMMA HeadType ==
  ASSUME NEW T, NEW lines \in Seq(T)
  PROVE  /\ HeadLines(lines) \in Seq(T \cup {LF})
         /\ Len(HeadLines(lines)) = 2 * Len(lines)
         /\ \A n \in 1..Len(lines) :
              /\ HeadLines(lines)[2 * n] = LF
              /\ HeadLines(lines)[2 * n - 1] = lines[n]
<1> DEFINE h == HeadLines(lines)
           L == Len(lines)
<1>1. L \in Nat
  OBVIOUS
<1>2. ASSUME NEW n \in 1..(2 * L) PROVE n % 2 # 0 => (n + 1) \div 2 \in 1..L
  BY <1>1
<1>3. \A n \in 1..(2 * L) :
        (IF n % 2 = 0 THEN LF ELSE lines[(n + 1) \div 2]) \in T \cup {LF}
  BY <1>2
<1>4. h = [n \in 1..(2 * L) |-> IF n % 2 = 0 THEN LF ELSE lines[(n + 1) \div 2]]
  BY DEF HeadLines
<1>5. 2 * L \in Nat
  BY <1>1
<1>6. h \in Seq(T \cup {LF}) /\ Len(h) = 2 * L
  BY <1>3, <1>4, <1>5
<1>7. ASSUME NEW n \in 1..L
      PROVE  h[2 * n] = LF /\ h[2 * n - 1] = lines[n]
  <2>1. 2 * n \in 1..(2 * L) /\ (2 * n) % 2 = 0
    BY <1>1
  <2>2. 2 * n - 1 \in 1..(2 * L) /\ (2 * n - 1) % 2 # 0 /\ (2 * n - 1 + 1) \div 2 = n
    BY <1>1
  <2>3. QED
    BY <1>4, <2>1, <2>2
<1>8. QED
  BY <1>6, <1>7

\* A concatenation, symbol by symbol.
LEMMA JoinForm ==
  ASSUME NEW T, NEW s \in Seq(T), NEW t \in Seq(T)
  PROVE  /\ s \o t \in Seq(T) /\ Len(s \o t) = Len(s) + Len(t)
         /\ \A n \in 1..Len(s) : (s \o t)[n] = s[n]
         /\ \A n \in 1..Len(t) : (s \o t)[Len(s) + n] = t[n]
  BY ConcatProperties

\* The text of a frame, symbol by symbol.
LengthLine(body) == <<"content-length", SizeOfUTF8(body)>>

Divides(f) == 2 * (Len(Lines(f)) + 1)

TextShape(H, C, f) ==
  /\ Lines(f) \in Seq(H \cup {LengthLine(f.body)})
  /\ Text(f) \in Seq(H \cup C \cup {LengthLine(f.body), <<f.command>>, LF})
  /\ Len(Text(f)) = Divides(f) + 1 + Len(f.body)
  /\ Text(f)[1] = <<f.command>>
  /\ \A n \in 1..Len(Lines(f)) : Text(f)[2 * n + 1] = Lines(f)[n]
  /\ \A n \in 1..(Len(Lines(f)) + 1) : Text(f)[2 * n] = LF
  /\ Text(f)[Divides(f) + 1] = LF
  /\ \A n \in 1..Len(f.body) : Text(f)[Divides(f) + 1 + n] = f.body[n]

LEMMA TextForm ==
  ASSUME NEW H, NEW headers \in Seq(H), NEW command, NEW C, NEW body \in Seq(C)
  PROVE  TextShape(H, C, Frame(command, headers, body))
<1> DEFINE f == Frame(command, headers, body)
           size == <<"content-length", SizeOfUTF8(body)>>
           ls == Lines(f)
           L == Len(ls) + 1
           first == <<<<command>>>>
           all == first \o ls
           head == HeadLines(all)
           blank == <<LF>>
           g == head \o blank
           T == H \cup C \cup {size, <<command>>, LF}
<1>1. ls \in Seq(H \cup {size}) /\ ls \in Seq(T)
  BY LinesType
<1>2. first \in Seq(T) /\ Len(first) = 1 /\ first[1] = <<command>>
  OBVIOUS
<1>4. T \cup {LF} = T
  OBVIOUS
<1> HIDE DEF size, ls, first, T
<1>3. /\ all \in Seq(T) /\ Len(all) = L /\ all[1] = <<command>>
      /\ \A n \in 1..(L - 1) : all[n + 1] = ls[n]
      /\ L \in Nat /\ L > 0
  <2>1. Len(ls) \in Nat
    BY <1>1
  <2>2. /\ all \in Seq(T) /\ Len(all) = 1 + Len(ls) /\ all[1] = first[1]
        /\ \A n \in 1..Len(ls) : all[1 + n] = ls[n]
    BY <1>1, <1>2, JoinForm
  <2> HIDE DEF all
  <2>3. QED
    BY <1>2, <2>1, <2>2
<1> HIDE DEF all
<1> HIDE DEF L
<1>5. /\ head \in Seq(T) /\ Len(head) = 2 * L
      /\ \A n \in 1..L : head[2 * n] = LF /\ head[2 * n - 1] = all[n]
  BY <1>3, <1>4, HeadType
<1>6. Text(f) = (head \o blank) \o body
  BY DEF Text, Frame, head, all, first, ls
<1>7. /\ body \in Seq(T) /\ Len(body) \in Nat
      /\ blank \in Seq(T) /\ Len(blank) = 1 /\ blank[1] = LF
  BY DEF T
<1> HIDE DEF head, blank, f
<1>8. /\ g \in Seq(T) /\ Len(g) = 2 * L + 1
      /\ \A n \in 1..(2 * L) : g[n] = head[n]
      /\ g[2 * L + 1] = LF
  <2>1. /\ g \in Seq(T) /\ Len(g) = Len(head) + 1
        /\ \A n \in 1..Len(head) : g[n] = head[n]
        /\ \A n \in 1..Len(blank) : g[Len(head) + n] = blank[n]
    BY <1>5, <1>7, JoinForm
  <2> HIDE DEF g
  <2>2. QED
    BY <1>3, <1>5, <1>7, <2>1
<1>9. /\ Text(f) \in Seq(T) /\ Len(Text(f)) = 2 * L + 1 + Len(body)
      /\ \A n \in 1..(2 * L) : Text(f)[n] = head[n]
      /\ Text(f)[2 * L + 1] = LF
      /\ \A n \in 1..Len(body) : Text(f)[2 * L + 1 + n] = body[n]
  <2> HIDE DEF g
  <2>1. Text(f) = g \o body
    BY <1>6 DEF g
  <2>2. /\ Text(f) \in Seq(T) /\ Len(Text(f)) = Len(g) + Len(body)
        /\ \A n \in 1..Len(g) : Text(f)[n] = g[n]
        /\ \A n \in 1..Len(body) : Text(f)[Len(g) + n] = body[n]
    <3>1. g \in Seq(T) /\ body \in Seq(T)
      BY <1>7, <1>8
    <3>2. /\ g \o body \in Seq(T) /\ Len(g \o body) = Len(g) + Len(body)
          /\ \A n \in 1..Len(g) : (g \o body)[n] = g[n]
          /\ \A n \in 1..Len(body) : (g \o body)[Len(g) + n] = body[n]
      BY <3>1, JoinForm
    <3>3. QED
      BY <2>1, <3>2
  <2>3. /\ 2 * L \in Nat /\ 2 * L + 1 \in 1..Len(g)
        /\ \A n \in 1..(2 * L) : n \in 1..Len(g)
    BY <1>3, <1>8
  <2>4. /\ \A n \in 1..(2 * L) : Text(f)[n] = head[n]
        /\ Text(f)[2 * L + 1] = LF
    BY <1>8, <2>2, <2>3
  <2>5. \A n \in 1..Len(body) : Text(f)[2 * L + 1 + n] = body[n]
    BY <1>8, <2>2
  <2>6. QED
    BY <1>8, <2>2, <2>4, <2>5
<1>10. Text(f)[1] = <<command>>
  <2>1. 1 \in 1..L /\ 2 * 1 - 1 = 1 /\ 1 \in 1..(2 * L)
    BY <1>3
  <2>2. head[1] = all[1]
    BY <1>5, <2>1
  <2>3. QED
    BY <1>3, <1>9, <2>1, <2>2
<1>11. \A n \in 1..(L - 1) : Text(f)[2 * n + 1] = ls[n]
  <2> TAKE n \in 1..(L - 1)
  <2>1. n + 1 \in 1..L /\ 2 * (n + 1) - 1 = 2 * n + 1 /\ 2 * n + 1 \in 1..(2 * L)
    BY <1>3
  <2>2. head[2 * n + 1] = all[n + 1]
    BY <1>5, <2>1
  <2>3. QED
    BY <1>3, <1>9, <2>1, <2>2
<1>12. \A n \in 1..L : Text(f)[2 * n] = LF
  <2> TAKE n \in 1..L
  <2>1. 2 * n \in 1..(2 * L)
    BY <1>3
  <2>2. QED
    BY <1>5, <1>9, <2>1
<1>13. f.command = command /\ f.body = body
  BY DEF f, Frame
<1>14. /\ LengthLine(f.body) = size /\ L - 1 = Len(Lines(f)) /\ Divides(f) = 2 * L
       /\ ls = Lines(f) /\ Len(ls) \in Nat
  BY <1>1, <1>13 DEF LengthLine, Divides, L, ls, size
<1>15. T = H \cup C \cup {size, <<command>>, LF}
  BY DEF T
<1>16. TextShape(H, C, f)
  BY <1>1, <1>3, <1>9, <1>10, <1>11, <1>12, <1>13, <1>14, <1>15 DEF TextShape
<1>17. QED
  BY <1>16 DEF f

\* A length in bytes is not smaller than one in characters.
LEMMA SizeBounds ==
  ASSUME NEW C, NEW body \in Seq(C)
  PROVE  SizeOfUTF8(body) \in Nat /\ SizeOfUTF8(body) >= Len(body)
<1> DEFINE wide == {n \in DOMAIN body : body[n] = Wide}
<1>1. IsFiniteSet(1..Len(body)) /\ wide \subseteq 1..Len(body) /\ Len(body) \in Nat
  BY FS_Interval
<1>2. Cardinality(wide) \in Nat
  BY <1>1, FS_Subset, FS_CardinalityType
<1>3. QED
  BY <1>1, <1>2 DEF SizeOfUTF8

\* Value finds the only line of a name.
LEMMA ValueFound ==
  ASSUME NEW H, NEW headers \in Seq(H), NEW name, NEW k \in 1..Len(headers),
         headers[k][1] = name, \A m \in 1..Len(headers) : headers[m][1] = name => m = k
  PROVE  Value(headers, name) = headers[k][2]
<1> DEFINE First(n) == /\ headers[n][1] = name
                       /\ \A m \in 1..(n - 1) : headers[m][1] # name
<1>1. DOMAIN headers = 1..Len(headers) /\ Len(headers) \in Nat
  OBVIOUS
<1>2. First(k)
  BY <1>1
<1>3. \A n \in DOMAIN headers : First(n) => n = k
  BY <1>1
<1>4. (CHOOSE n \in DOMAIN headers : First(n)) = k
  BY <1>1, <1>2, <1>3
<1>5. QED
  BY <1>4 DEF Value

\* unmarshallSingle gives back what was written.
LEMMA FrameRead ==
  ASSUME NEW H, NEW headers \in Seq(H), NEW command, NEW C, NEW body \in Seq(C),
         <<command>> # LF, \A h \in H : h # LF /\ h[1] # "content-length"
  PROVE  LET f == Frame(command, headers, body)
         IN  UnmarshallSingle(Text(f)) = AsRead(f)
<1> DEFINE f == Frame(command, headers, body)
           size == <<"content-length", SizeOfUTF8(body)>>
           ls == Lines(f)
           L == Len(ls) + 1
           text == Text(f)
           ends == {i \in 1..(Len(text) - 1) : text[i] = LF /\ text[i + 1] = LF}
           divider == IF ends = {} THEN 0 ELSE Divider(ends)
           named == IF divider = 0 \/ text[1] = LF THEN 0 ELSE 1
           found == [n \in 1..((divider - 1 - named) \div 2) |-> text[2 * n + named]]
           rest == SubSeq(text, divider + 2, Len(text))
<1>1. size # LF /\ size[1] = "content-length"
  BY DEF LF
<1>20. TextShape(H, C, f)
  BY TextForm
<1>21. f.command = command /\ f.body = body
  BY DEF Frame
<1>2. /\ ls \in Seq(H \cup {size})
      /\ text \in Seq(H \cup C \cup {size, <<command>>, LF})
      /\ Len(text) = 2 * L + 1 + Len(body)
      /\ text[1] = <<command>>
      /\ \A n \in 1..(L - 1) : text[2 * n + 1] = ls[n]
      /\ \A n \in 1..L : text[2 * n] = LF
      /\ text[2 * L + 1] = LF
      /\ \A n \in 1..Len(body) : text[2 * L + 1 + n] = body[n]
  <2>1. /\ L - 1 = Len(Lines(f)) /\ L = Len(Lines(f)) + 1
        /\ Divides(f) = 2 * L /\ LengthLine(body) = size
    <3>1. Len(Lines(f)) \in Nat
      BY <1>20 DEF TextShape
    <3>2. QED
      BY <3>1 DEF Divides, LengthLine
  <2> HIDE DEF L, f
  <2>2. QED
    BY <1>20, <1>21, <2>1 DEF TextShape
<1>3. ls = IF body = <<>> THEN headers ELSE Append(headers, size)
  BY DEF Lines, Frame
<1>4. \E T : text \in Seq(T)
  BY <1>2
<1> HIDE DEF text, ls, size
<1>5. /\ L \in Nat /\ L > 0 /\ Len(body) \in Nat /\ Len(ls) \in Nat
      /\ \A n \in 1..(L - 1) : ls[n] \in H \cup {size}
  BY <1>2
<1> HIDE DEF L
<1>6. \A n \in 1..(L - 1) : ls[n] # LF
  BY <1>1, <1>5
<1>7. 2 * L \in ends
  BY <1>2, <1>5
<1>8. ASSUME NEW i \in ends PROVE 2 * L <= i
  <2>1. i \in Nat /\ i >= 1 /\ text[i] = LF /\ text[i + 1] = LF
    BY <1>2, <1>5
  <2>2. SUFFICES ASSUME i < 2 * L PROVE FALSE
    BY <1>5, <2>1
  <2>3. CASE i = 1
    BY <1>2, <2>1, <2>3
  <2>4. ASSUME NEW n \in Nat, i = 2 * n PROVE FALSE
    <3>1. n \in 1..(L - 1) /\ i + 1 = 2 * n + 1
      BY <1>5, <2>1, <2>2, <2>4
    <3>2. text[2 * n + 1] = ls[n] /\ ls[n] # LF
      BY <1>2, <1>6, <3>1
    <3>3. text[2 * n + 1] = LF
      BY <2>1, <3>1
    <3>4. QED
      BY <3>2, <3>3
  <2>5. ASSUME NEW n \in Nat, i = 2 * n + 1, i # 1 PROVE FALSE
    <3>1. n \in 1..(L - 1)
      BY <1>5, <2>1, <2>2, <2>5
    <3>2. QED
      BY <1>2, <1>6, <2>1, <2>5, <3>1
  <2>6. \E n \in Nat : i = 2 * n \/ i = 2 * n + 1
    <3>1. i \div 2 \in Nat /\ (i = 2 * (i \div 2) \/ i = 2 * (i \div 2) + 1)
      BY <2>1
    <3>2. QED
      BY <3>1
  <2>7. QED
    BY <2>3, <2>4, <2>5, <2>6
<1>9. divider = 2 * L
  <2>1. \A i \in ends : i \in Int
    BY <1>2, <1>5
  <2>2. 2 * L \in Int
    BY <1>5
  <2> HIDE DEF ends
  <2>3. Divider(ends) = 2 * L
    BY <1>7, <1>8, <2>1, <2>2 DEF Divider
  <2>4. ends # {}
    BY <1>7
  <2>5. QED
    BY <2>3, <2>4
<1>10. named = 1 /\ text[1][1] = command
  BY <1>2, <1>5, <1>9
<1>11. found = ls
  <2>1. (2 * L - 1 - 1) \div 2 = L - 1 /\ L - 1 = Len(ls)
    BY <1>5 DEF L
  <2> HIDE DEF divider, named
  <2>2. found = [n \in 1..Len(ls) |-> text[2 * n + 1]]
    BY <1>9, <1>10, <2>1
  <2>3. ls = [n \in 1..Len(ls) |-> ls[n]]
    BY <1>2
  <2>4. QED
    BY <1>2, <2>1, <2>2, <2>3
<1>12. rest = body
  <2>1. rest = SubSeq(text, 2 * L + 2, 2 * L + 1 + Len(body))
    BY <1>2, <1>9
  <2>2. PICK T : text \in Seq(T)
    BY <1>4
  <2>3. rest = [n \in 1..Len(body) |-> text[2 * L + 1 + n]]
    <3>1. /\ 2 * L + 2 \in 1..(Len(text) + 1)
          /\ 2 * L + 1 + Len(body) \in (2 * L + 2 - 1)..Len(text)
          /\ 2 * L + 1 + Len(body) - (2 * L + 2) + 1 = Len(body)
      BY <1>2, <1>5
    <3>2. /\ SubSeq(text, 2 * L + 2, 2 * L + 1 + Len(body)) \in Seq(T)
          /\ Len(SubSeq(text, 2 * L + 2, 2 * L + 1 + Len(body))) = Len(body)
          /\ \A n \in 1..Len(body) :
               SubSeq(text, 2 * L + 2, 2 * L + 1 + Len(body))[n] = text[2 * L + 2 + n - 1]
      BY <1>2, <1>5, <2>2, <3>1
    <3>3. \A n \in 1..Len(body) : 2 * L + 2 + n - 1 = 2 * L + 1 + n
      BY <1>5
    <3> HIDE DEF rest
    <3>4. QED
      BY <2>1, <3>2, <3>3
  <2>4. body = [n \in 1..Len(body) |-> body[n]]
    OBVIOUS
  <2>5. QED
    BY <1>2, <2>3, <2>4
<1> HIDE DEF ends, divider, named, found, rest
<1>13. UnmarshallSingle(text)
         = Frame(command, ls, IF Has(ls, "content-length")
                              THEN BodyOf(body, Value(ls, "content-length")) ELSE body)
  <2>1. UnmarshallSingle(text)
          = Frame(IF named = 1 THEN text[1][1] ELSE "", found,
                  IF Has(found, "content-length")
                  THEN BodyOf(rest, Value(found, "content-length")) ELSE rest)
    BY DEF UnmarshallSingle, ends, divider, named, found, rest
  <2>2. QED
    BY <1>10, <1>11, <1>12, <2>1
<1>14. AsRead(f) = Frame(command, ls, body)
  BY DEF AsRead, Frame, ls
<1>15. CASE body = <<>>
  <2>1. ~Has(ls, "content-length")
    BY <1>3, <1>15 DEF Has
  <2>2. QED
    BY <1>13, <1>14, <2>1 DEF text
<1>16. CASE body # <<>>
  <2>1. /\ Len(ls) = Len(headers) + 1 /\ ls[Len(headers) + 1] = size /\ Len(headers) \in Nat
        /\ \A n \in 1..Len(headers) : ls[n] = headers[n]
    BY <1>3, <1>16, AppendProperties
  <2>2. \A m \in 1..Len(ls) : ls[m][1] = "content-length" => m = Len(headers) + 1
    BY <2>1
  <2>3. Has(ls, "content-length")
    BY <1>1, <1>2, <2>1 DEF Has
  <2>4. Value(ls, "content-length") = size[2]
    <3>1. /\ Len(headers) + 1 \in 1..Len(ls) /\ ls \in Seq(H \cup {size})
          /\ ls[Len(headers) + 1][1] = "content-length"
      BY <1>1, <1>2, <2>1
    <3>2. Value(ls, "content-length") = ls[Len(headers) + 1][2]
      BY <2>2, <3>1, ValueFound
    <3>3. QED
      BY <2>1, <3>2
  <2>5. size[2] = SizeOfUTF8(body)
    BY DEF size
  <2>6. BodyOf(body, SizeOfUTF8(body)) = body
    <3>1. SizeOfUTF8(body) \in Nat /\ SizeOfUTF8(body) >= Len(body) /\ Len(body) \in Nat
      BY SizeBounds
    <3>2. BodyOf(body, SizeOfUTF8(body)) = SubSeq(body, 1, Len(body))
      BY <3>1 DEF BodyOf
    <3>3. QED
      BY <3>2
  <2>7. QED
    BY <1>13, <1>14, <2>3, <2>4, <2>5, <2>6 DEF text
<1>17. QED
  BY <1>15, <1>16 DEF text, f

-----------------------------------------------------------------------------
(* Several frames in one data.                                             *)

\* The data is cut where its first NUL is.
LEMMA EndFound ==
  ASSUME NEW T, NEW data \in Seq(T), NEW n \in 1..Len(data), NEW m \in n..Len(data),
         \A k \in n..m : data[k] # NUL, m = Len(data) \/ data[m + 1] = NUL
  PROVE  EndOf(data, n) = m
<1> DEFINE Ends(e) == /\ \A k \in n..e : data[k] # NUL
                      /\ e = Len(data) \/ data[e + 1] = NUL
<1>1. Len(data) \in Nat
  OBVIOUS
<1>2. Ends(m)
  OBVIOUS
<1>3. ASSUME NEW e \in n..Len(data), Ends(e) PROVE e = m
  <2>1. ~(e < m)
    <3>1. e < m => e + 1 \in n..m /\ e # Len(data)
      BY <1>1
    <3>2. QED
      BY <1>3, <3>1
  <2>2. ~(m < e)
    <3>1. m < e => m + 1 \in n..e /\ m # Len(data)
      BY <1>1
    <3>2. QED
      BY <1>3, <3>1
  <2>3. QED
    BY <1>1, <2>1, <2>2
<1>4. (CHOOSE e \in n..Len(data) : Ends(e)) = m
  <2> HIDE DEF Ends
  <2>1. QED
    BY <1>2, <1>3
<1>5. QED
  BY <1>4 DEF EndOf

\* A frame that comes alone is read alone.
LEMMA OneRead ==
  ASSUME NEW T, NEW t \in Seq(T), NUL \notin T, t # <<>>
  PROVE  Unmarshall(t \o <<NUL>>) = <<UnmarshallSingle(t)>>
<1> DEFINE data == t \o <<NUL>>
           N == Len(t)
<1>1. /\ data \in Seq(T \cup {NUL}) /\ Len(data) = N + 1 /\ N \in Nat /\ N > 0
      /\ \A n \in 1..N : data[n] = t[n] /\ data[n] # NUL
      /\ data[N + 1] = NUL
  <2>1. t \in Seq(T \cup {NUL}) /\ <<NUL>> \in Seq(T \cup {NUL})
    OBVIOUS
  <2>2. /\ data \in Seq(T \cup {NUL}) /\ Len(data) = N + 1
        /\ \A n \in 1..N : data[n] = t[n]
        /\ data[N + 1] = NUL
    BY <2>1
  <2>3. N \in Nat /\ N > 0 /\ \A n \in 1..N : t[n] \in T
    OBVIOUS
  <2>4. QED
    BY <2>2, <2>3
<1> HIDE DEF data
<1>2. \A n \in 1..N : Belongs(data, n)
  BY <1>1 DEF Belongs, Skipped
<1>3. Starts(data) = {1}
  <2>1. ~Belongs(data, N + 1)
    BY <1>1 DEF Belongs
  <2>2. DOMAIN data = 1..(N + 1)
    BY <1>1
  <2>3. \A n \in 1..(N + 1) : n = 1 \/ n = N + 1 \/ (n - 1 \in 1..N /\ n \in 1..N)
    BY <1>1
  <2>4. 1 \in 1..N /\ 1 \in 1..(N + 1)
    BY <1>1
  <2>5. QED
    BY <1>2, <2>1, <2>2, <2>3, <2>4 DEF Starts
<1>4. InOrder({1}) = <<1>>
  <2>1. Cardinality({1}) = 1
    BY FS_Singleton
  <2>2. <<1>> \in [1..1 -> {1}] /\ \A list \in [1..1 -> {1}] : list = <<1>>
    OBVIOUS
  <2>3. \A i, j \in DOMAIN <<1>> : i < j => <<1>>[i] < <<1>>[j]
    OBVIOUS
  <2>4. QED
    BY <2>1, <2>2, <2>3 DEF InOrder
<1>5. EndOf(data, 1) = N
  <2>1. 1 \in 1..Len(data) /\ N \in 1..Len(data)
    BY <1>1
  <2>2. QED
    BY <1>1, <2>1, EndFound
<1>6. SubSeq(data, 1, N) = t
  <2>1. SubSeq(data, 1, N) = [n \in 1..N |-> data[n]]
    BY <1>1
  <2>2. t = [n \in 1..N |-> t[n]]
    OBVIOUS
  <2>3. QED
    BY <1>1, <2>1, <2>2
<1>7. Unmarshall(data) = [n \in {1} |-> UnmarshallSingle(t)]
  <2>1. DOMAIN <<1>> = {1} /\ <<1>>[1] = 1
    OBVIOUS
  <2>2. QED
    BY <1>3, <1>4, <1>5, <1>6, <2>1 DEF Unmarshall
<1>8. QED
  BY <1>7 DEF data

\* Two frames with line feeds behind them are read one after the other.
LEMMA TwoRead ==
  ASSUME NEW T, NEW t \in Seq(T), NEW u \in Seq(T), NUL \notin T, t # <<>>, u # <<>>,
         t[1] # LF, u[1] # LF
  PROVE  Unmarshall((((t \o <<NUL>>) \o <<LF>>) \o (u \o <<NUL>>)) \o <<LF>>)
           = <<UnmarshallSingle(t), UnmarshallSingle(u)>>
<1> DEFINE data == (((t \o <<NUL>>) \o <<LF>>) \o (u \o <<NUL>>)) \o <<LF>>
           N == Len(t)
           M == Len(u)
           S == T \cup {NUL, LF}
<1>1. /\ data \in Seq(S) /\ Len(data) = N + M + 4
      /\ \A n \in 1..N : data[n] = t[n]
      /\ data[N + 1] = NUL /\ data[N + 2] = LF
      /\ \A n \in 1..M : data[N + 2 + n] = u[n]
      /\ data[N + M + 3] = NUL /\ data[N + M + 4] = LF
  <2> DEFINE a == t \o <<NUL>>
             b == a \o <<LF>>
             c == u \o <<NUL>>
             d == b \o c
  <2>1. t \in Seq(S) /\ u \in Seq(S) /\ <<NUL>> \in Seq(S) /\ <<LF>> \in Seq(S)
    OBVIOUS
  <2>2. /\ Len(<<NUL>>) = 1 /\ <<NUL>>[1] = NUL /\ Len(<<LF>>) = 1 /\ <<LF>>[1] = LF
        /\ N \in Nat /\ M \in Nat
    OBVIOUS
  <2> HIDE DEF S
  <2>3. /\ a \in Seq(S) /\ Len(a) = N + 1 /\ \A n \in 1..N : a[n] = t[n]
        /\ a[N + 1] = NUL
    BY <2>1, <2>2
  <2>4. /\ c \in Seq(S) /\ Len(c) = M + 1 /\ \A n \in 1..M : c[n] = u[n]
        /\ c[M + 1] = NUL
    BY <2>1, <2>2
  <2> HIDE DEF a, c
  <2>5. /\ b \in Seq(S) /\ Len(b) = N + 2 /\ \A n \in 1..(N + 1) : b[n] = a[n]
        /\ b[N + 2] = LF
    BY <2>1, <2>2, <2>3
  <2> HIDE DEF b
  <2>6. /\ d \in Seq(S) /\ Len(d) = N + M + 3 /\ \A n \in 1..(N + 2) : d[n] = b[n]
        /\ \A n \in 1..(M + 1) : d[N + 2 + n] = c[n]
    <3>1. /\ d \in Seq(S) /\ Len(d) = Len(b) + Len(c) /\ \A n \in 1..Len(b) : d[n] = b[n]
          /\ \A n \in 1..Len(c) : d[Len(b) + n] = c[n]
      <4>1. b \in Seq(S) /\ c \in Seq(S)
        BY <2>4, <2>5
      <4>2. QED
        BY <4>1, JoinForm
    <3> HIDE DEF d
    <3>2. Len(b) + Len(c) = N + M + 3
      BY <2>2, <2>4, <2>5
    <3>3. QED
      BY <2>4, <2>5, <3>1, <3>2
  <2> HIDE DEF d
  <2>7. data = d \o <<LF>>
    BY DEF a, b, c, d
  <2> HIDE DEF data
  <2>8. /\ data \in Seq(S) /\ Len(data) = N + M + 4
        /\ \A n \in 1..(N + M + 3) : data[n] = d[n]
        /\ data[N + M + 4] = LF
    <3>1. /\ d \o <<LF>> \in Seq(S) /\ Len(d \o <<LF>>) = Len(d) + Len(<<LF>>)
          /\ \A n \in 1..Len(d) : (d \o <<LF>>)[n] = d[n]
          /\ \A n \in 1..Len(<<LF>>) : (d \o <<LF>>)[Len(d) + n] = <<LF>>[n]
      <4>1. d \in Seq(S) /\ <<LF>> \in Seq(S)
        BY <2>1, <2>6
      <4>2. QED
        BY <4>1, JoinForm
    <3>2. 1 \in 1..Len(<<LF>>) /\ Len(d) + 1 = N + M + 4
      BY <2>2, <2>6
    <3>3. QED
      BY <2>2, <2>6, <2>7, <3>1, <3>2
  <2>9. data[N + M + 3] = NUL /\ data[N + 1] = NUL /\ data[N + 2] = LF
    <3>1. /\ M + 1 \in 1..(M + 1) /\ N + 2 + (M + 1) = N + M + 3
          /\ N + M + 3 \in 1..(N + M + 3)
          /\ N + 1 \in 1..(N + 1) /\ N + 1 \in 1..(N + 2) /\ N + 1 \in 1..(N + M + 3)
          /\ N + 2 \in 1..(N + 2) /\ N + 2 \in 1..(N + M + 3)
      BY <2>2
    <3>2. data[N + 1] = NUL /\ data[N + 2] = LF
      BY <2>3, <2>5, <2>6, <2>8, <3>1
    <3>3. d[N + 2 + (M + 1)] = NUL
      BY <2>4, <2>6, <3>1
    <3>4. QED
      BY <2>8, <3>1, <3>2, <3>3
  <2>10. \A n \in 1..N : data[n] = t[n]
    <3>1. \A n \in 1..N : n \in 1..(N + 1) /\ n \in 1..(N + 2) /\ n \in 1..(N + M + 3)
      BY <2>2
    <3>2. QED
      BY <2>3, <2>5, <2>6, <2>8, <3>1
  <2>11. \A n \in 1..M : data[N + 2 + n] = u[n]
    <3>1. \A n \in 1..M : n \in 1..(M + 1) /\ N + 2 + n \in 1..(N + M + 3)
      BY <2>2
    <3>2. QED
      BY <2>4, <2>6, <2>8, <3>1
  <2>12. QED
    BY <2>8, <2>9, <2>10, <2>11
<1>2. /\ N \in Nat /\ N > 0 /\ M \in Nat /\ M > 0
      /\ \A n \in 1..N : t[n] # NUL
      /\ \A n \in 1..M : u[n] # NUL
      /\ LF # NUL
  BY DEF LF, NUL
<1> HIDE DEF data, N, M, S
<1>3. \A n \in 1..(N + M + 4) :
        \/ n \in 1..N \/ n \in {N + 1, N + 2, N + M + 3, N + M + 4}
        \/ n - (N + 2) \in 1..M /\ N + 2 + (n - (N + 2)) = n
  BY <1>2
<1>4. \A n \in 1..N : Belongs(data, n)
  <2>1. \A n \in 1..N : data[n] # NUL
    BY <1>1, <1>2
  <2>2. \A n \in 1..N : \A m \in 1..(n - 1) : m \in 1..N
    BY <1>2
  <2>3. QED
    BY <2>1, <2>2 DEF Belongs, Skipped
<1>5. \A n \in 1..M : Belongs(data, N + 2 + n)
  <2> TAKE n \in 1..M
  <2>1. data[N + 2 + n] # NUL
    BY <1>1, <1>2
  <2>2. ASSUME Skipped(data, N + 2 + n) PROVE FALSE
    <3>0. PICK m \in 1..((N + 2 + n) - 1) :
                 data[m] = NUL /\ \A k \in (m + 1)..(N + 2 + n) : data[k] = LF
      BY <2>2 DEF Skipped
    <3>1. m = N + 1
      <4>1. \/ m \in 1..N \/ m = N + 1 \/ m = N + 2
            \/ m - (N + 2) \in 1..M /\ N + 2 + (m - (N + 2)) = m
        BY <1>2, <3>0
      <4>2. m \notin 1..N /\ m # N + 2
        BY <1>1, <1>2, <3>0
      <4>3. ~(m - (N + 2) \in 1..M /\ N + 2 + (m - (N + 2)) = m)
        <5>1. \A k \in 1..M : data[N + 2 + k] # NUL
          BY <1>1, <1>2
        <5>2. QED
          BY <3>0, <5>1
      <4>4. QED
        BY <4>1, <4>2, <4>3
    <3>2. N + 2 + 1 \in (m + 1)..(N + 2 + n) /\ 1 \in 1..M
      BY <1>2, <3>0, <3>1
    <3>3. data[N + 2 + 1] = u[1] /\ data[N + 2 + 1] = LF
      BY <1>1, <3>0, <3>2
    <3>4. QED
      BY <3>3
  <2>3. QED
    BY <2>1, <2>2 DEF Belongs
<1>6. /\ ~Belongs(data, N + 1) /\ ~Belongs(data, N + 2)
      /\ ~Belongs(data, N + M + 3) /\ ~Belongs(data, N + M + 4)
  <2>1. ~Belongs(data, N + 1) /\ ~Belongs(data, N + M + 3)
    BY <1>1 DEF Belongs
  <2>2. Skipped(data, N + 2)
    <3>1. N + 1 \in 1..((N + 2) - 1) /\ \A k \in (N + 1 + 1)..(N + 2) : k = N + 2
      BY <1>2
    <3>2. data[N + 1] = NUL /\ \A k \in (N + 1 + 1)..(N + 2) : data[k] = LF
      BY <1>1, <3>1
    <3>3. QED
      BY <3>1, <3>2 DEF Skipped
  <2>3. Skipped(data, N + M + 4)
    <3>1. /\ N + M + 3 \in 1..((N + M + 4) - 1)
          /\ \A k \in (N + M + 3 + 1)..(N + M + 4) : k = N + M + 4
      BY <1>2
    <3>2. data[N + M + 3] = NUL /\ \A k \in (N + M + 3 + 1)..(N + M + 4) : data[k] = LF
      BY <1>1, <3>1
    <3>3. QED
      BY <3>1, <3>2 DEF Skipped
  <2>4. QED
    BY <2>1, <2>2, <2>3 DEF Belongs
<1>7. Starts(data) = {1, N + 3}
  <2>1. DOMAIN data = 1..(N + M + 4)
    BY <1>1, <1>2
  <2>2. 1 \in Starts(data) /\ N + 3 \in Starts(data)
    <3>1. 1 \in 1..N /\ 1 \in 1..(N + M + 4) /\ N + 2 + 1 = N + 3 /\ 1 \in 1..M
          /\ N + 3 \in 1..(N + M + 4) /\ (N + 3) - 1 = N + 2
      BY <1>2
    <3>2. Belongs(data, 1) /\ Belongs(data, N + 3)
      BY <1>4, <1>5, <3>1
    <3>3. 1 \in Starts(data)
      BY <2>1, <3>1, <3>2 DEF Starts
    <3>4. ~Belongs(data, (N + 3) - 1)
      BY <1>6, <3>1
    <3>5. QED
      BY <2>1, <3>1, <3>2, <3>3, <3>4 DEF Starts
  <2>3. ASSUME NEW n \in Starts(data) PROVE n \in {1, N + 3}
    <3>1. /\ n \in 1..(N + M + 4) /\ Belongs(data, n)
          /\ n = 1 \/ ~Belongs(data, n - 1)
      BY <2>1 DEF Starts
    <3>2. CASE n \in 1..N
      <4>1. n = 1 \/ n - 1 \in 1..N
        BY <1>2, <3>2
      <4>2. QED
        BY <1>4, <3>1, <4>1
    <3>3. CASE n - (N + 2) \in 1..M /\ N + 2 + (n - (N + 2)) = n
      <4>1. n = N + 3 \/ (n - 1 - (N + 2) \in 1..M /\ N + 2 + (n - 1 - (N + 2)) = n - 1)
        BY <1>2, <3>1, <3>3
      <4>2. QED
        BY <1>5, <3>1, <4>1
    <3>4. QED
      BY <1>3, <1>6, <3>1, <3>2, <3>3
  <2>4. QED
    BY <2>2, <2>3
<1>8. InOrder({1, N + 3}) = <<1, N + 3>>
  <2> DEFINE list == <<1, N + 3>>
             Sorted(l) == \A i, j \in DOMAIN l : i < j => l[i] < l[j]
  <2>1. Cardinality({1, N + 3}) = 2
    <3>1. IsFiniteSet({1}) /\ Cardinality({1}) = 1
      BY FS_Singleton
    <3>2. N + 3 \notin {1}
      BY <1>2
    <3>3. Cardinality({1} \cup {N + 3}) = Cardinality({1}) + 1
      BY <3>1, <3>2, FS_AddElement
    <3>4. {1} \cup {N + 3} = {1, N + 3}
      OBVIOUS
    <3>5. Cardinality({1, N + 3}) = Cardinality({1}) + 1
      BY <3>3, <3>4, Zenon
    <3>6. QED
      BY <3>1, <3>5
  <2>2. list \in [1..2 -> {1, N + 3}] /\ Sorted(list)
    BY <1>2
  <2>3. ASSUME NEW l \in [1..2 -> {1, N + 3}], Sorted(l) PROVE l = list
    <3>1. l[1] < l[2] /\ l[1] \in {1, N + 3} /\ l[2] \in {1, N + 3}
      BY <2>3
    <3>2. l[1] = 1 /\ l[2] = N + 3
      BY <1>2, <3>1
    <3>3. QED
      BY <3>2
  <2>4. (CHOOSE l \in [1..2 -> {1, N + 3}] : Sorted(l)) = list
    <3> HIDE DEF Sorted, list
    <3>1. QED
      BY <2>2, <2>3
  <2>5. QED
    BY <2>1, <2>4 DEF InOrder
<1>9. EndOf(data, 1) = N /\ EndOf(data, N + 3) = N + M + 2
  <2>1. EndOf(data, 1) = N
    <3>1. 1 \in 1..Len(data) /\ N \in 1..Len(data)
      BY <1>1, <1>2
    <3>2. \A k \in 1..N : data[k] # NUL
      BY <1>1, <1>2
    <3>3. QED
      BY <1>1, <3>1, <3>2, EndFound
  <2>2. EndOf(data, N + 3) = N + M + 2
    <3>1. /\ N + 3 \in 1..Len(data) /\ N + M + 2 \in (N + 3)..Len(data)
          /\ N + M + 2 + 1 = N + M + 3
      BY <1>1, <1>2
    <3>2. \A k \in (N + 3)..(N + M + 2) : k - (N + 2) \in 1..M /\ N + 2 + (k - (N + 2)) = k
      BY <1>2
    <3>3. \A k \in (N + 3)..(N + M + 2) : data[k] # NUL
      <4>1. \A k \in 1..M : data[N + 2 + k] # NUL
        BY <1>1, <1>2
      <4>2. QED
        BY <3>2, <4>1
    <3>4. QED
      BY <1>1, <3>1, <3>3, EndFound
  <2>3. QED
    BY <2>1, <2>2
<1>10. SubSeq(data, 1, N) = t
  <2>1. SubSeq(data, 1, N) = [n \in 1..N |-> data[n]]
    BY <1>1, <1>2
  <2>2. t = [n \in 1..N |-> t[n]]
    BY DEF N
  <2>3. QED
    BY <1>1, <2>1, <2>2
<1>11. SubSeq(data, N + 3, N + M + 2) = u
  <2> DEFINE part == SubSeq(data, N + 3, N + M + 2)
  <2>1. /\ part \in Seq(S) /\ Len(part) = M
        /\ \A n \in 1..M : part[n] = data[N + 3 + n - 1]
    <3>1. /\ N + 3 \in 1..(Len(data) + 1) /\ N + M + 2 \in (N + 3 - 1)..Len(data)
          /\ N + M + 2 - (N + 3) + 1 = M
      BY <1>1, <1>2
    <3>2. QED
      BY <1>1, <1>2, <3>1
  <2>2. \A n \in 1..M : N + 3 + n - 1 = N + 2 + n
    BY <1>2
  <2>3. \A n \in 1..M : part[n] = u[n]
    BY <1>1, <2>1, <2>2
  <2> HIDE DEF part
  <2>4. part = [n \in 1..M |-> part[n]] /\ u = [n \in 1..M |-> u[n]]
    BY <2>1 DEF M
  <2>5. QED
    BY <2>3, <2>4 DEF part
<1>12. QED
  <2> DEFINE list == <<1, N + 3>>
  <2>1. DOMAIN list = {1, 2} /\ list[1] = 1 /\ list[2] = N + 3
    OBVIOUS
  <2>2. Unmarshall(data) = [n \in DOMAIN list |->
                              UnmarshallSingle(SubSeq(data, list[n], EndOf(data, list[n])))]
    BY <1>7, <1>8 DEF Unmarshall
  <2> HIDE DEF list
  <2>3. Unmarshall(data) = [n \in {1, 2} |-> IF n = 1 THEN UnmarshallSingle(t)
                                                       ELSE UnmarshallSingle(u)]
    BY <1>9, <1>10, <1>11, <2>1, <2>2
  <2>4. QED
    BY <2>3 DEF data

-----------------------------------------------------------------------------
(* What the server sends.                                                  *)

Commands == {"CONNECTED", "MESSAGE", "ERROR"}

Values == Versions \cup HeartBeats \cup Destinations \cup Ids \cup {"refused"}

HeaderLines ==
  {"version", "heart-beat", "destination", "subscription", "message"} \X Values

\* Frames that a text tells from others: no NUL, no name of the reader's own.
Legible ==
  {Frame(command, headers, body) :
     command \in Commands, headers \in Seq(HeaderLines), body \in Seq(Characters)}

Symbols ==
  HeaderLines \cup Characters \cup {LF} \cup {<<command>> : command \in Commands}
    \cup {<<"content-length", n>> : n \in Nat}

Messages == {Message(d, id, body) : d \in Destinations, id \in Ids, body \in Bodies}

Sendable ==
  {Connected(version, beat) : version \in Versions, beat \in HeartBeats}
    \cup {Refusal} \cup Messages

Alone(f) == [sent |-> <<f>>, data |-> Marshall(f)]
Pair(f, g) ==
  [sent |-> <<f, g>>, data |-> Marshall(f) \o <<LF>> \o Marshall(g) \o <<LF>>]
Beat == [sent |-> <<>>, data |-> <<LF>>]

Parcels ==
  {Beat} \cup {Alone(f) : f \in Sendable} \cup {Pair(f, g) : f \in Messages, g \in Messages}

Readable == {AsRead(f) : f \in Sendable}

LEMMA LegibleFrame ==
  ASSUME NEW command \in Commands, NEW headers \in Seq(HeaderLines),
         NEW body \in Seq(Characters)
  PROVE  Frame(command, headers, body) \in Legible
  BY DEF Legible

LEMMA SendableLegible == Sendable \subseteq Legible
<1>1. ASSUME NEW version \in Versions, NEW beat \in HeartBeats
      PROVE  Connected(version, beat) \in Legible
  <2>1. <<"version", version>> \in HeaderLines /\ <<"heart-beat", beat>> \in HeaderLines
    BY DEF HeaderLines, Values
  <2>2. <<<<"version", version>>, <<"heart-beat", beat>>>> \in Seq(HeaderLines)
    BY <2>1
  <2>3. <<>> \in Seq(Characters) /\ "CONNECTED" \in Commands
    BY DEF Commands
  <2>4. QED
    BY <2>2, <2>3, LegibleFrame DEF Connected
<1>2. Refusal \in Legible
  <2>1. <<"message", "refused">> \in HeaderLines
    BY DEF HeaderLines, Values
  <2>2. <<<<"message", "refused">>>> \in Seq(HeaderLines)
    BY <2>1
  <2>3. <<>> \in Seq(Characters) /\ "ERROR" \in Commands
    BY DEF Commands
  <2>4. QED
    BY <2>2, <2>3, LegibleFrame DEF Refusal
<1>3. ASSUME NEW d \in Destinations, NEW id \in Ids, NEW body \in Bodies
      PROVE  Message(d, id, body) \in Legible
  <2>1. <<"destination", d>> \in HeaderLines /\ <<"subscription", id>> \in HeaderLines
    BY DEF HeaderLines, Values
  <2>2. <<<<"destination", d>>, <<"subscription", id>>>> \in Seq(HeaderLines)
    BY <2>1
  <2>3. body \in Seq(Characters) /\ "MESSAGE" \in Commands
    BY StompAssumption DEF Commands
  <2>4. QED
    BY <2>2, <2>3, LegibleFrame DEF Message
<1>4. QED
  BY <1>1, <1>2, <1>3 DEF Sendable, Messages

LEMMA SymbolsFacts ==
  /\ NUL \notin Symbols
  /\ \A h \in HeaderLines : h # LF /\ h[1] # "content-length"
  /\ \A command \in Commands : <<command>> # LF
<1>1. \A x, y : <<x, y>> # NUL /\ <<x, y>> # LF
  BY DEF LF, NUL
<1>2. \A h \in HeaderLines : \E x, y : h = <<x, y>> /\ x # "content-length"
  BY DEF HeaderLines
<1>3. \A x, y : <<x, y>>[1] = x
  OBVIOUS
<1>4. \A h \in HeaderLines : h # NUL /\ h # LF /\ h[1] # "content-length"
  BY <1>1, <1>2, <1>3
<1>5. \A command \in Commands : <<command>> # NUL /\ <<command>> # LF
  BY DEF Commands, NUL, LF
<1>6. LF # NUL
  BY DEF LF, NUL
<1>7. NUL \notin Symbols
  BY <1>1, <1>4, <1>5, <1>6, StompAssumption DEF Symbols
<1>8. QED
  BY <1>4, <1>5, <1>7

\* The text of such a frame can be cut out of data and read.
LEMMA TextRead ==
  ASSUME NEW f \in Legible
  PROVE  /\ Text(f) \in Seq(Symbols) /\ Text(f) # <<>> /\ Text(f)[1] # LF
         /\ UnmarshallSingle(Text(f)) = AsRead(f)
<1>1. PICK command \in Commands, headers \in Seq(HeaderLines), body \in Seq(Characters) :
        f = Frame(command, headers, body)
  BY DEF Legible
<1>2. f.command = command /\ f.body = body
  BY <1>1 DEF Frame
<1>3. <<command>> # LF /\ \A h \in HeaderLines : h # LF /\ h[1] # "content-length"
  BY SymbolsFacts
<1>4. TextShape(HeaderLines, Characters, f)
  BY <1>1, TextForm
<1>5. UnmarshallSingle(Text(f)) = AsRead(f)
  <2>1. UnmarshallSingle(Text(Frame(command, headers, body)))
          = AsRead(Frame(command, headers, body))
    BY <1>3, FrameRead
  <2>2. QED
    BY <1>1, <2>1
<1>6. Text(f) \in Seq(Symbols)
  <2> DEFINE own == HeaderLines \cup Characters \cup {LengthLine(f.body), <<f.command>>, LF}
  <2>1. SizeOfUTF8(body) \in Nat
    BY SizeBounds
  <2>2. LengthLine(f.body) \in Symbols
    BY <1>2, <2>1 DEF LengthLine, Symbols
  <2>3. <<f.command>> \in Symbols
    BY <1>2 DEF Symbols
  <2>4. own \subseteq Symbols
    BY <2>2, <2>3 DEF Symbols
  <2>5. Text(f) \in Seq(own)
    BY <1>4 DEF TextShape
  <2> HIDE DEF own
  <2>6. QED
    BY <2>4, <2>5
<1>7. Text(f)[1] = <<command>>
  BY <1>2, <1>4 DEF TextShape
<1>8. Len(Text(f)) \in Nat /\ Len(Text(f)) >= 1
  <2>1. Len(Lines(f)) \in Nat /\ Len(f.body) \in Nat
    BY <1>2, <1>4 DEF TextShape
  <2>2. Len(Text(f)) = 2 * (Len(Lines(f)) + 1) + 1 + Len(f.body)
    BY <1>4 DEF TextShape, Divides
  <2>3. \A x, y \in Nat : 2 * (x + 1) + 1 + y \in Nat /\ 2 * (x + 1) + 1 + y >= 1
    OBVIOUS
  <2>4. QED
    BY <2>1, <2>2, <2>3, Zenon
<1>9. Text(f) # <<>>
  <2>1. ASSUME Text(f) = <<>> PROVE FALSE
    <3>1. Len(Text(f)) = 0
      BY <2>1
    <3>2. QED
      BY <1>8, <3>1
  <2>2. QED
    BY <2>1
<1>10. QED
  BY <1>3, <1>5, <1>6, <1>7, <1>9

LEMMA ParcelRead ==
  ASSUME NEW p \in Parcels, p # Beat
  PROVE  Unmarshall(p.data) = [k \in DOMAIN p.sent |-> AsRead(p.sent[k])]
<1>1. ASSUME NEW f \in Sendable, p = Alone(f)
      PROVE  Unmarshall(p.data) = [k \in DOMAIN p.sent |-> AsRead(p.sent[k])]
  <2>1. p.data = Text(f) \o <<NUL>> /\ p.sent = <<f>>
    BY <1>1 DEF Alone, Marshall
  <2>2. f \in Legible
    BY SendableLegible
  <2>3. Unmarshall(Text(f) \o <<NUL>>) = <<UnmarshallSingle(Text(f))>>
    BY <2>2, TextRead, SymbolsFacts, OneRead
  <2>4. Unmarshall(p.data) = <<AsRead(f)>>
    BY <2>1, <2>2, <2>3, TextRead
  <2>5. [k \in DOMAIN <<f>> |-> AsRead(<<f>>[k])] = <<AsRead(f)>>
    <3> DEFINE r == AsRead(f)
    <3>1. DOMAIN <<f>> = 1..1 /\ \A k \in 1..1 : AsRead(<<f>>[k]) = r
      OBVIOUS
    <3> HIDE DEF r
    <3>2. [k \in DOMAIN <<f>> |-> AsRead(<<f>>[k])] = [k \in 1..1 |-> r]
      BY <3>1
    <3>3. <<r>> = [k \in 1..1 |-> r]
      OBVIOUS
    <3>4. QED
      BY <3>2, <3>3 DEF r
  <2>6. QED
    BY <2>1, <2>4, <2>5
<1>2. ASSUME NEW f \in Messages, NEW g \in Messages, p = Pair(f, g)
      PROVE  Unmarshall(p.data) = [k \in DOMAIN p.sent |-> AsRead(p.sent[k])]
  <2>1. /\ p.data = (((Text(f) \o <<NUL>>) \o <<LF>>) \o (Text(g) \o <<NUL>>)) \o <<LF>>
        /\ p.sent = <<f, g>>
    BY <1>2 DEF Pair, Marshall
  <2>2. f \in Legible /\ g \in Legible
    BY SendableLegible DEF Sendable
  <2>3. /\ Text(f) \in Seq(Symbols) /\ Text(f) # <<>> /\ Text(f)[1] # LF
        /\ Text(g) \in Seq(Symbols) /\ Text(g) # <<>> /\ Text(g)[1] # LF
        /\ UnmarshallSingle(Text(f)) = AsRead(f) /\ UnmarshallSingle(Text(g)) = AsRead(g)
    BY <2>2, TextRead
  <2>4. Unmarshall(p.data) = <<UnmarshallSingle(Text(f)), UnmarshallSingle(Text(g))>>
    BY <2>1, <2>3, SymbolsFacts, TwoRead
  <2>5. Unmarshall(p.data) = <<AsRead(f), AsRead(g)>>
    BY <2>3, <2>4
  <2>6. [k \in DOMAIN <<f, g>> |-> AsRead(<<f, g>>[k])] = <<AsRead(f), AsRead(g)>>
    <3> DEFINE r == AsRead(f)
               q == AsRead(g)
               both == [k \in DOMAIN <<f, g>> |-> AsRead(<<f, g>>[k])]
    <3>1. /\ DOMAIN <<f, g>> = 1..2 /\ AsRead(<<f, g>>[1]) = r /\ AsRead(<<f, g>>[2]) = q
      OBVIOUS
    <3> HIDE DEF r, q
    <3>2. both = [k \in 1..2 |-> IF k = 1 THEN r ELSE q]
      BY <3>1
    <3>3. <<r, q>> = [k \in 1..2 |-> IF k = 1 THEN r ELSE q]
      OBVIOUS
    <3>4. QED
      BY <3>2, <3>3 DEF r, q
  <2>7. QED
    BY <2>1, <2>5, <2>6
<1>3. QED
  BY <1>1, <1>2 DEF Parcels

\* What a message of the socket becomes for the client.
Arrived(p) == IF p.data = <<LF>> THEN <<>> ELSE Unmarshall(p.data)

LEMMA ParcelArrives ==
  ASSUME NEW p \in Parcels
  PROVE  /\ p.sent \in Seq(Sendable)
         /\ Arrived(p) \in Seq(Readable)
         /\ Len(Arrived(p)) <= Len(p.sent)
         /\ \A n \in 1..Len(Arrived(p)) : Arrived(p)[n] = AsRead(p.sent[n])
<1>1. p.sent \in Seq(Sendable)
  <2>1. Messages \subseteq Sendable
    BY DEF Sendable
  <2>2. Beat.sent \in Seq(Sendable)
    BY DEF Beat
  <2>3. \A f \in Sendable : Alone(f).sent \in Seq(Sendable)
    BY DEF Alone
  <2>4. \A f, g \in Messages : Pair(f, g).sent \in Seq(Sendable)
    BY <2>1 DEF Pair
  <2>5. QED
    BY <2>2, <2>3, <2>4 DEF Parcels
<1>2. CASE p.data = <<LF>>
  BY <1>1, <1>2 DEF Arrived
<1>3. CASE p.data # <<LF>>
  <2>1. p # Beat
    BY <1>3 DEF Beat
  <2>2. Arrived(p) = [k \in DOMAIN p.sent |-> AsRead(p.sent[k])]
    BY <1>3, <2>1, ParcelRead DEF Arrived
  <2>3. \A k \in DOMAIN p.sent : AsRead(p.sent[k]) \in Readable
    BY <1>1 DEF Readable
  <2>4. DOMAIN p.sent = 1..Len(p.sent) /\ Len(p.sent) \in Nat
    BY <1>1
  <2> HIDE DEF Arrived
  <2>5. Arrived(p) \in Seq(Readable) /\ Len(Arrived(p)) = Len(p.sent)
    BY <2>2, <2>3, <2>4
  <2>6. QED
    BY <1>1, <2>2, <2>4, <2>5
<1>4. QED
  BY <1>2, <1>3

-----------------------------------------------------------------------------
(* The frames the client reads.                                            *)

\* A message is for the id and from the destination that its headers name.
LEMMA MessageRead ==
  ASSUME NEW d \in Destinations, NEW id \in Ids, NEW body \in Bodies
  PROVE  LET f == Message(d, id, body)
             r == AsRead(f)
         IN  /\ f.command = "MESSAGE" /\ r.command = "MESSAGE"
             /\ f.headers[1][2] = d /\ r.headers[1][2] = d
             /\ f.headers[2][2] = id /\ r.headers[2][2] = id
             /\ Value(r.headers, "destination") = d
             /\ Value(r.headers, "subscription") = id
<1> DEFINE f == Message(d, id, body)
           r == AsRead(f)
           ls == Lines(f)
           hd == <<"destination", d>>
           hs == <<"subscription", id>>
           hl == <<"content-length", SizeOfUTF8(body)>>
           H == {hd, hs, hl}
<1>1. /\ f.command = "MESSAGE" /\ f.headers = <<hd, hs>> /\ f.body = body
      /\ r.command = "MESSAGE" /\ r.headers = ls
  BY DEF Message, Frame, AsRead
<1>2. ls = <<hd, hs>> \/ ls = <<hd, hs, hl>>
  <2>1. ASSUME NEW x, NEW y, NEW z PROVE Append(<<x, y>>, z) = <<x, y, z>>
    <3> DEFINE s == <<x, y>>
               S == {x, y, z}
    <3>1. s \in Seq(S) /\ z \in S /\ Len(s) = 2 /\ s[1] = x /\ s[2] = y
      OBVIOUS
    <3> HIDE DEF s, S
    <3>2. /\ Append(s, z) \in Seq(S) /\ Len(Append(s, z)) = 3
          /\ Append(s, z)[1] = x /\ Append(s, z)[2] = y /\ Append(s, z)[3] = z
      <4>1. /\ Append(s, z) \in Seq(S) /\ Len(Append(s, z)) = Len(s) + 1
            /\ \A n \in 1..Len(s) : Append(s, z)[n] = s[n]
            /\ Append(s, z)[Len(s) + 1] = z
        <5>1. s \in Seq(S) /\ z \in S
          BY <3>1
        <5>2. QED
          BY ONLY <5>1, AppendProperties
      <4>2. 1 \in 1..Len(s) /\ 2 \in 1..Len(s) /\ Len(s) + 1 = 3
        BY <3>1
      <4>3. QED
        BY <3>1, <4>1, <4>2
    <3> DEFINE t == Append(s, z)
    <3> HIDE DEF t
    <3>3. t = <<x, y, z>>
      <4>1. t \in Seq(S) /\ Len(t) = 3 /\ t[1] = x /\ t[2] = y /\ t[3] = z
        BY <3>2 DEF t
      <4>2. t = [n \in 1..3 |-> IF n = 1 THEN x ELSE IF n = 2 THEN y ELSE z]
        BY <4>1
      <4>3. <<x, y, z>> = [n \in 1..3 |-> IF n = 1 THEN x ELSE IF n = 2 THEN y ELSE z]
        OBVIOUS
      <4>4. QED
        BY <4>2, <4>3
    <3>4. QED
      BY <3>3 DEF s, t
  <2>2. QED
    BY <1>1, <2>1 DEF Lines
<1>3. hd[1] = "destination" /\ hd[2] = d /\ hs[1] = "subscription" /\ hs[2] = id
      /\ hl[1] = "content-length"
  OBVIOUS
<1>4. ls \in Seq(H) /\ Len(ls) \in {2, 3} /\ ls[1] = hd /\ ls[2] = hs
      /\ (3 \in 1..Len(ls) => ls[3] = hl)
  <2> HIDE DEF hd, hs, hl, ls
  <2>1. CASE ls = <<hd, hs>>
    <3>1. hd \in H /\ hs \in H
      OBVIOUS
    <3> HIDE DEF H
    <3>2. QED
      BY <2>1, <3>1
  <2>2. CASE ls = <<hd, hs, hl>>
    <3>1. hd \in H /\ hs \in H /\ hl \in H
      OBVIOUS
    <3> HIDE DEF H
    <3>2. QED
      BY <2>2, <3>1
  <2>3. QED
    BY <1>2, <2>1, <2>2
<1> HIDE DEF hd, hs, hl, ls, f, r, H
<1>5. /\ 1 \in 1..Len(ls) /\ 2 \in 1..Len(ls)
      /\ \A m \in 1..Len(ls) : m = 1 \/ m = 2 \/ (m = 3 /\ ls[m] = hl)
  <2>1. CASE Len(ls) = 2
    BY <1>4, <2>1
  <2>2. CASE Len(ls) = 3
    BY <1>4, <2>2
  <2>3. QED
    BY <1>4, <2>1, <2>2
<1>6. Value(ls, "destination") = ls[1][2]
  <2>1. \A m \in 1..Len(ls) : ls[m][1] = "destination" => m = 1
    BY <1>3, <1>4, <1>5
  <2>2. QED
    BY <1>3, <1>4, <1>5, <2>1, ValueFound
<1>7. Value(ls, "subscription") = ls[2][2]
  <2>1. \A m \in 1..Len(ls) : ls[m][1] = "subscription" => m = 2
    BY <1>3, <1>4, <1>5
  <2>2. QED
    BY <1>3, <1>4, <1>5, <2>1, ValueFound
<1>8. <<hd, hs>>[1] = hd /\ <<hd, hs>>[2] = hs
  OBVIOUS
<1>9. QED
  BY <1>1, <1>3, <1>4, <1>6, <1>7, <1>8 DEF f, r

LEMMA SendableFacts ==
  ASSUME NEW f \in Sendable
  PROVE  /\ f.command \in Commands /\ AsRead(f).command = f.command
         /\ f.command = "MESSAGE" => f \in Messages
         /\ f \in Messages => f.command = "MESSAGE"
<1>1. AsRead(f).command = f.command
  <2>1. \A x : f.command = [f EXCEPT !.headers = x].command
    <3>1. f \in Legible
      BY SendableLegible
    <3>2. QED
      BY <3>1 DEF Legible, Frame
  <2>2. QED
    BY <2>1 DEF AsRead
<1>2. \A version, beat : Connected(version, beat).command = "CONNECTED"
  BY DEF Connected, Frame
<1>3. Refusal.command = "ERROR"
  BY DEF Refusal, Frame
<1>4. \A d, id, body : Message(d, id, body).command = "MESSAGE"
  BY DEF Message, Frame
<1>5. QED
  BY <1>1, <1>2, <1>3, <1>4 DEF Sendable, Messages, Commands

\* The same for whatever waits to be handled.
LEMMA ReadableFacts ==
  ASSUME NEW r \in Readable
  PROVE  /\ r.command \in Commands
         /\ r.command = "MESSAGE" =>
              /\ r.headers[2][2] \in Ids
              /\ Value(r.headers, "destination") = r.headers[1][2]
              /\ Value(r.headers, "subscription") = r.headers[2][2]
<1>1. PICK f \in Sendable : r = AsRead(f)
  BY DEF Readable
<1>2. f.command \in Commands /\ r.command = f.command
  BY <1>1, SendableFacts
<1>3. CASE r.command = "MESSAGE"
  <2>0. f \in Messages
    BY <1>2, <1>3, SendableFacts
  <2>1. PICK d \in Destinations, id \in Ids, body \in Bodies : f = Message(d, id, body)
    BY <2>0 DEF Messages
  <2>2. r = AsRead(Message(d, id, body))
    BY <1>1, <2>1
  <2>3. /\ AsRead(Message(d, id, body)).headers[1][2] = d
        /\ AsRead(Message(d, id, body)).headers[2][2] = id
        /\ Value(AsRead(Message(d, id, body)).headers, "destination") = d
        /\ Value(AsRead(Message(d, id, body)).headers, "subscription") = id
    BY MessageRead
  <2>4. QED
    BY <1>2, <2>2, <2>3
<1>4. QED
  BY <1>2, <1>3

-----------------------------------------------------------------------------
(* The inductive invariant.                                                *)

Orders ==
  {ToServer("CONNECT", None, None), ToServer("DISCONNECT", None, None)}
    \cup {ToServer("SUBSCRIBE", id, d) : id \in Ids, d \in Destinations}
    \cup {ToServer("UNSUBSCRIBE", id, None) : id \in Ids}

ClientTypes ==
  /\ state \in {"connecting", "open", "closing", "closed"}
  /\ opens \in {0, 1} /\ (state = "connecting" => opens = 0)
  /\ connected \in BOOLEAN /\ pinger \in BOOLEAN /\ ponger \in BOOLEAN
  /\ counter \in 0..MaxIds
  /\ subscriptions \in [Ids -> Destinations \cup {None}]
  /\ onclose \in BOOLEAN /\ calling \in BOOLEAN
  /\ supplied \subseteq Ids
  /\ frames \in Seq(Readable)
  /\ silence \in 0..MaxSilence

\* What the client has been handed and what is on its way to it, the server has sent.
ServerTypes ==
  /\ wire \in Seq(Orders)
  /\ inbox \in Seq(Parcels)
  /\ known \in [Ids -> Destinations \cup {None}]
  /\ sends \in 0..MaxData
  /\ messages \in Nat /\ messages + Len(inbox) = sends

\* CONNECTED comes alone, while nothing has been called and nobody has disconnected.
ConnectedAlone ==
  \A n \in DOMAIN frames :
    frames[n].command = "CONNECTED" => Len(frames) = 1 /\ ~calling /\ onclose

LossInv ==
  /\ ConnectedAlone
  /\ closes = IF state = "closed" THEN 1 ELSE 0
  /\ ~onclose => state \in {"closing", "closed"}
  /\ state = "closed" => frames = <<>>
  /\ lost \in {0, 1} /\ LossTold

\* With the counter at c, the callbacks s and the ids w that the program has given: the
\* id is one of those, or it is drawn and its callback is the one for the destination
\* or no more there.
Bound(c, s, w, id, d) == id \in Ids /\ (id \in w \/ (id < c /\ s[id] \in {None, d}))

OrdersBound(c, s, w, list) ==
  \A n \in DOMAIN list :
    list[n].destination # None => Bound(c, s, w, list[n].id, list[n].destination)

KnownBound(c, s, w, k) == \A id \in Ids : k[id] # None => Bound(c, s, w, id, k[id])

FramesBound(c, s, w, list) ==
  \A n \in DOMAIN list :
    list[n].command = "MESSAGE" => Bound(c, s, w, list[n].headers[2][2], list[n].headers[1][2])

InboxBound(c, s, w, list) == \A n \in DOMAIN list : FramesBound(c, s, w, list[n].sent)

RouteInv ==
  /\ \A id \in Ids : id >= counter /\ id \notin supplied => subscriptions[id] = None
  /\ OrdersBound(counter, subscriptions, supplied, wire)
  /\ KnownBound(counter, subscriptions, supplied, known)
  /\ InboxBound(counter, subscriptions, supplied, inbox)
  /\ FramesBound(counter, subscriptions, supplied, frames)

ClientInv == ClientTypes /\ ServerTypes /\ LossInv /\ RouteInv

-----------------------------------------------------------------------------
(* Sequences, element by element.                                          *)

LEMMA AppendForm ==
  ASSUME NEW S, NEW s \in Seq(S), NEW e \in S
  PROVE  /\ Append(s, e) \in Seq(S) /\ Len(Append(s, e)) = Len(s) + 1
         /\ \A n \in DOMAIN Append(s, e) :
              \/ n \in DOMAIN s /\ Append(s, e)[n] = s[n]
              \/ Append(s, e)[n] = e
  BY AppendProperties

LEMMA TailForm ==
  ASSUME NEW S, NEW s \in Seq(S), s # <<>>
  PROVE  /\ Head(s) \in S /\ Head(s) = s[1] /\ 1 \in DOMAIN s
         /\ Tail(s) \in Seq(S) /\ Len(Tail(s)) = Len(s) - 1
         /\ \A n \in DOMAIN Tail(s) :
              n \in Nat /\ n >= 1 /\ n + 1 \in DOMAIN s /\ Tail(s)[n] = s[n + 1]
  BY HeadTailProperties, EmptySeq

LEMMA JoinMembers ==
  ASSUME NEW S, NEW s \in Seq(S), NEW t \in Seq(S)
  PROVE  /\ s \o t \in Seq(S)
         /\ \A n \in DOMAIN (s \o t) :
              \/ n \in DOMAIN s /\ (s \o t)[n] = s[n]
              \/ \E m \in DOMAIN t : (s \o t)[n] = t[m]
<1>1. /\ s \o t \in Seq(S) /\ Len(s \o t) = Len(s) + Len(t)
      /\ \A n \in 1..Len(s) : (s \o t)[n] = s[n]
      /\ \A n \in 1..Len(t) : (s \o t)[Len(s) + n] = t[n]
  BY JoinForm
<1>2. Len(s) \in Nat /\ Len(t) \in Nat /\ DOMAIN s = 1..Len(s) /\ DOMAIN t = 1..Len(t)
  OBVIOUS
<1>3. DOMAIN (s \o t) = 1..(Len(s) + Len(t))
  BY <1>1
<1>4. \A n \in 1..(Len(s) + Len(t)) :
        n \in 1..Len(s) \/ (n - Len(s) \in 1..Len(t) /\ Len(s) + (n - Len(s)) = n)
  BY <1>2
<1>5. QED
  BY <1>1, <1>2, <1>3, <1>4

\* What was bound stays bound while ids are drawn and callbacks go.
LEMMA BoundKept ==
  ASSUME NEW c \in Int, NEW cc \in Int, c <= cc, NEW s, NEW ss, NEW w, NEW ww, w \subseteq ww,
         \A i \in Ids : i < c /\ i \notin ww => ss[i] \in {None, s[i]}
  PROVE  /\ \A list : OrdersBound(c, s, w, list) => OrdersBound(cc, ss, ww, list)
         /\ \A k : KnownBound(c, s, w, k) => KnownBound(cc, ss, ww, k)
         /\ \A list : FramesBound(c, s, w, list) => FramesBound(cc, ss, ww, list)
         /\ \A list : InboxBound(c, s, w, list) => InboxBound(cc, ss, ww, list)
<1>1. ASSUME NEW id, NEW d, Bound(c, s, w, id, d) PROVE Bound(cc, ss, ww, id, d)
  <2>1. id \in Ids /\ id \in Int
    BY <1>1, StompAssumption DEF Bound, Ids
  <2>2. CASE id \in ww
    BY <2>1, <2>2 DEF Bound
  <2>3. CASE id \notin ww
    <3>1. id < c /\ s[id] \in {None, d}
      BY <1>1, <2>3 DEF Bound
    <3>2. id < cc /\ ss[id] \in {None, d}
      BY <2>1, <2>3, <3>1
    <3>3. QED
      BY <2>1, <3>2 DEF Bound
  <2>4. QED
    BY <2>2, <2>3
<1>2. \A list : OrdersBound(c, s, w, list) => OrdersBound(cc, ss, ww, list)
  BY <1>1 DEF OrdersBound
<1>3. \A k : KnownBound(c, s, w, k) => KnownBound(cc, ss, ww, k)
  BY <1>1 DEF KnownBound
<1>4. \A list : FramesBound(c, s, w, list) => FramesBound(cc, ss, ww, list)
  BY <1>1 DEF FramesBound
<1>5. \A list : InboxBound(c, s, w, list) => InboxBound(cc, ss, ww, list)
  BY <1>4 DEF InboxBound
<1>6. QED
  BY <1>2, <1>3, <1>4, <1>5

\* The frames read are as bound as the frames sent.
LEMMA ArrivedBound ==
  ASSUME NEW c, NEW s, NEW w, NEW p \in Parcels, FramesBound(c, s, w, p.sent)
  PROVE  FramesBound(c, s, w, Arrived(p))
<1>1. /\ p.sent \in Seq(Sendable) /\ Arrived(p) \in Seq(Readable)
      /\ Len(Arrived(p)) <= Len(p.sent)
      /\ \A n \in 1..Len(Arrived(p)) : Arrived(p)[n] = AsRead(p.sent[n])
  BY ParcelArrives
<1>2. ASSUME NEW n \in DOMAIN Arrived(p), Arrived(p)[n].command = "MESSAGE"
      PROVE  Bound(c, s, w, Arrived(p)[n].headers[2][2], Arrived(p)[n].headers[1][2])
  <2>1. n \in DOMAIN p.sent /\ p.sent[n] \in Sendable /\ Arrived(p)[n] = AsRead(p.sent[n])
    BY <1>1
  <2>2. p.sent[n].command = "MESSAGE" /\ p.sent[n] \in Messages
    BY <1>2, <2>1, SendableFacts
  <2>3. PICK d \in Destinations, id \in Ids, body \in Bodies :
          p.sent[n] = Message(d, id, body)
    BY <2>2 DEF Messages
  <2>4. /\ Message(d, id, body).headers[1][2] = d
        /\ AsRead(Message(d, id, body)).headers[1][2] = d
        /\ Message(d, id, body).headers[2][2] = id
        /\ AsRead(Message(d, id, body)).headers[2][2] = id
    BY MessageRead
  <2>5. Bound(c, s, w, p.sent[n].headers[2][2], p.sent[n].headers[1][2])
    BY <2>1, <2>2 DEF FramesBound
  <2>6. QED
    BY <2>1, <2>3, <2>4, <2>5
<1>3. QED
  BY <1>2 DEF FramesBound

-----------------------------------------------------------------------------
(* Every step keeps the types.                                             *)

LEMMA OrderTypes ==
  /\ ToServer("CONNECT", None, None) \in Orders
  /\ ToServer("DISCONNECT", None, None) \in Orders
  /\ \A id \in Ids, d \in Destinations : ToServer("SUBSCRIBE", id, d) \in Orders
  /\ \A id \in Ids : ToServer("UNSUBSCRIBE", id, None) \in Orders
  BY DEF Orders

\* What the server acts upon, but for CONNECT and DISCONNECT, names an id.
LEMMA OrderFacts ==
  ASSUME NEW o \in Orders
  PROVE  /\ o.destination \in Destinations \cup {None}
         /\ o.destination # None => o.id \in Ids
         /\ o.id \in Ids \cup {None}
  BY DEF Orders, ToServer

LEMMA PageRoom ==
  /\ Len(Page) \in Nat /\ MaxIds \in Nat /\ Ids = 0..(MaxIds - 1)
  /\ \A n \in 1..Len(Page) : Page[n] \in Destinations
  BY StompAssumption DEF Ids

\* The program draws one id, and its callback is registered under it.
LEMMA RoomLeft ==
  ASSUME counter \in 0..MaxIds, Room
  PROVE  counter \in Ids /\ counter + 1 \in 0..MaxIds
  BY PageRoom DEF Room

LEMMA ClientTypesKept == ClientInv /\ [Next]_vars => ClientTypes'
<1> SUFFICES ASSUME ClientInv, [Next]_vars PROVE ClientTypes'
  OBVIOUS
<1> USE DEF ClientInv
<1>1. CASE SocketOpens
  BY <1>1 DEF SocketOpens, Sock!Open, ClientTypes, client
<1>2. CASE SocketBreaks
  BY <1>2 DEF SocketBreaks, Sock!Close, ClientTypes, client
<1>3. CASE SocketTellsClose
  <2>1. CASE onclose
    BY <1>3, <2>1 DEF SocketTellsClose, Sock!TellClose, CleanUp, ClientTypes
  <2>2. CASE ~onclose
    BY <1>3, <2>2 DEF SocketTellsClose, Sock!TellClose, ClientTypes
  <2>3. QED
    BY <2>1, <2>2
<1>4. CASE SocketReceives
  <2>1. Head(inbox) \in Parcels
    BY <1>4, TailForm DEF SocketReceives, ServerTypes
  <2>2. frames' = Arrived(Head(inbox))
    BY <1>4 DEF SocketReceives, Arrived
  <2>3. frames' \in Seq(Readable)
    BY <2>1, <2>2, ParcelArrives
  <2>4. silence' \in 0..MaxSilence /\ calling' \in BOOLEAN
    <3>1. silence' = 0 /\ calling' = FALSE
      BY <1>4 DEF SocketReceives
    <3>2. MaxSilence \in Nat
      BY StompAssumption
    <3>3. silence' \in 0..MaxSilence
      BY <3>1, <3>2
    <3>4. QED
      BY <3>1, <3>3, Zenon
  <2>5. UNCHANGED <<state, opens, connected, counter, subscriptions, pinger, ponger,
                    onclose, supplied>>
    BY <1>4 DEF SocketReceives, Sock!Receive, client
  <2>6. QED
    BY <2>3, <2>4, <2>5 DEF ClientTypes
<1>5. CASE HandleConnected
  <2>1. /\ counter \in Int /\ counter + Len(Page) <= MaxIds /\ counter' = counter + Len(Page)
        /\ counter' \in 0..MaxIds
    BY <1>5, PageRoom DEF HandleConnected, PageSubscribes, ClientTypes
  <2>2. ASSUME NEW id \in Ids
        PROVE  (IF id \in counter..(counter' - 1) THEN Page[id - counter + 1]
                ELSE subscriptions[id]) \in Destinations \cup {None}
    <3>1. CASE id \in counter..(counter' - 1)
      <4>1. (id - counter) + 1 \in 1..Len(Page)
        BY <2>1, <3>1, PageRoom
      <4>2. QED
        BY <3>1, <4>1, PageRoom
    <3>2. CASE id \notin counter..(counter' - 1)
      BY <3>2 DEF ClientTypes
    <3>3. QED
      BY <3>1, <3>2
  <2>3. subscriptions' \in [Ids -> Destinations \cup {None}]
    BY <1>5, <2>2 DEF HandleConnected, PageSubscribes
  <2>4. frames' \in Seq(Readable)
    BY <1>5, TailForm DEF HandleConnected, ClientTypes
  <2>5. connected' \in BOOLEAN /\ pinger' \in BOOLEAN /\ ponger' \in BOOLEAN
    BY <1>5 DEF HandleConnected, Intervals
  <2>6. QED
    BY <1>5, <2>1, <2>3, <2>4, <2>5 DEF HandleConnected, ClientTypes
<1>6. ASSUME NEW throws \in BOOLEAN, HandleOther(throws) PROVE ClientTypes'
  <2>1. frames' \in Seq(Readable)
    BY <1>6, TailForm, EmptySeq DEF HandleOther, ClientTypes
  <2>2. calling' \in BOOLEAN
    BY <1>6 DEF HandleOther
  <2>3. QED
    BY <1>6, <2>1, <2>2 DEF HandleOther, ClientTypes, client
<1>7. ASSUME NEW d \in Destinations, NEW id \in Ids, Subscribe(d, id) PROVE ClientTypes'
  <2>1. counter' \in 0..MaxIds /\ supplied' \subseteq Ids
    BY <1>7, RoomLeft DEF Subscribe, ClientTypes
  <2>2. subscriptions' \in [Ids -> Destinations \cup {None}]
    BY <1>7 DEF Subscribe, ClientTypes
  <2>3. QED
    BY <1>7, <2>1, <2>2 DEF Subscribe, ClientTypes
<1>8. ASSUME NEW id \in Ids, Unsubscribe(id) PROVE ClientTypes'
  BY <1>8 DEF Unsubscribe, ClientTypes
<1>9. CASE Begin
  <2>1. counter + 1 \in 0..MaxIds
    BY <1>9, RoomLeft DEF Begin, ClientTypes
  <2>2. QED
    BY <1>9, <2>1 DEF Begin, ClientTypes
<1>10. CASE Disconnect
  BY <1>10 DEF Disconnect, Sock!Close, CleanUp, ClientTypes
<1>11. CASE PongCheck
  <2>1. silence' \in 0..MaxSilence
    BY <1>11, StompAssumption DEF PongCheck, ClientTypes
  <2>2. QED
    BY <1>11, <2>1 DEF PongCheck, Sock!Close, ClientTypes, client
<1>12. CASE ServerConnects
  BY <1>12 DEF ServerConnects, ClientTypes, client
<1>13. CASE ServerReads
  BY <1>13 DEF ServerReads, ClientTypes, client
<1>14. ASSUME NEW id \in Ids, NEW body \in Bodies, ServerMessages(id, body)
       PROVE  ClientTypes'
  BY <1>14 DEF ServerMessages, ClientTypes, client
<1>15. CASE ServerBeats
  BY <1>15 DEF ServerBeats, ClientTypes, client
<1>16. CASE ServerRefuses
  BY <1>16 DEF ServerRefuses, ClientTypes, client
<1>17. CASE UNCHANGED vars
  BY <1>17 DEF vars, ClientTypes, client
<1>18. QED
  BY <1>1, <1>2, <1>3, <1>4, <1>5, <1>6, <1>7, <1>8, <1>9, <1>10, <1>11, <1>12, <1>13,
     <1>14, <1>15, <1>16, <1>17 DEF Next, Handle

\* What the client transmits is what the server may be told.
LEMMA WireType ==
  ASSUME wire \in Seq(Orders), NEW list \in Seq(Orders), Transmitted(list)
  PROVE  wire' \in Seq(Orders)
<1>1. wire \o list \in Seq(Orders)
  BY JoinMembers
<1>2. QED
  BY <1>1 DEF Transmitted

\* One more message of the socket is on its way.
LEMMA SentTypes ==
  ASSUME ServerTypes, NEW p \in Parcels, Sent(p.sent, p.data),
         UNCHANGED messages, p = [sent |-> p.sent, data |-> p.data]
  PROVE  /\ inbox' \in Seq(Parcels) /\ sends' \in 0..MaxData
         /\ messages' \in Nat /\ messages' + Len(inbox') = sends'
<1>1. inbox' = Append(inbox, p) /\ sends' = sends + 1 /\ sends < MaxData
  BY DEF Sent
<1>2. inbox' \in Seq(Parcels) /\ Len(inbox') = Len(inbox) + 1
  BY <1>1, AppendForm DEF ServerTypes
<1>3. Len(inbox) \in Nat /\ MaxData \in Nat
  BY StompAssumption DEF ServerTypes
<1>4. QED
  BY <1>1, <1>2, <1>3 DEF ServerTypes

LEMMA ParcelTypes ==
  /\ Beat \in Parcels /\ \A f \in Sendable : Alone(f) \in Parcels
  /\ \A f, g \in Messages : Pair(f, g) \in Parcels
  /\ \A version \in Versions, beat \in HeartBeats : Connected(version, beat) \in Sendable
  /\ Refusal \in Sendable
  /\ \A d \in Destinations, id \in Ids, body \in Bodies :
       Message(d, id, body) \in Messages /\ Message(d, id, body) \in Sendable
  BY DEF Parcels, Sendable, Messages

\* The server sends a frame alone, two, or none.
LEMMA SentAloneTypes ==
  ASSUME ServerTypes, NEW f \in Sendable, SentAlone(f), UNCHANGED messages
  PROVE  /\ inbox' \in Seq(Parcels) /\ sends' \in 0..MaxData
         /\ messages' \in Nat /\ messages' + Len(inbox') = sends'
<1>1. Alone(f) \in Parcels
  BY ParcelTypes
<1>2. /\ Sent(Alone(f).sent, Alone(f).data)
      /\ Alone(f) = [sent |-> Alone(f).sent, data |-> Alone(f).data]
  BY DEF SentAlone, Alone
<1>3. QED
  BY <1>1, <1>2, SentTypes

LEMMA SentPairTypes ==
  ASSUME ServerTypes, NEW f \in Messages, NEW g \in Messages, SentPair(f, g),
         UNCHANGED messages
  PROVE  /\ inbox' \in Seq(Parcels) /\ sends' \in 0..MaxData
         /\ messages' \in Nat /\ messages' + Len(inbox') = sends'
<1>1. Pair(f, g) \in Parcels
  BY ParcelTypes
<1>2. /\ Sent(Pair(f, g).sent, Pair(f, g).data)
      /\ Pair(f, g) = [sent |-> Pair(f, g).sent, data |-> Pair(f, g).data]
  BY DEF SentPair, Pair
<1>3. QED
  BY <1>1, <1>2, SentTypes

LEMMA ServerTypesKept == ClientInv /\ [Next]_vars => ServerTypes'
<1> SUFFICES ASSUME ClientInv, [Next]_vars PROVE ServerTypes'
  OBVIOUS
<1>0. ServerTypes /\ ClientTypes
  BY DEF ClientInv
<1>1. CASE SocketOpens
  <2>1. wire' \in Seq(Orders)
    BY <1>0, <1>1, OrderTypes, AppendForm DEF SocketOpens, ServerTypes
  <2>2. QED
    BY <1>0, <1>1, <2>1 DEF SocketOpens, Sock!Open, ServerTypes
<1>2. CASE SocketBreaks
  BY <1>0, <1>2 DEF SocketBreaks, Sock!Close, ServerTypes, server
<1>3. CASE SocketTellsClose
  BY <1>0, <1>3 DEF SocketTellsClose, Sock!TellClose, ServerTypes, server
<1>4. CASE SocketReceives
  <2>1. inbox' \in Seq(Parcels) /\ Len(inbox') = Len(inbox) - 1 /\ Len(inbox) \in Nat
    BY <1>0, <1>4, TailForm DEF SocketReceives, ServerTypes
  <2>2. messages' = messages + 1
    BY <1>4 DEF SocketReceives
  <2>3. UNCHANGED <<wire, known, sends>>
    BY <1>4 DEF SocketReceives
  <2>4. messages' \in Nat /\ messages' + Len(inbox') = sends'
    <3>1. messages \in Nat /\ messages + Len(inbox) = sends
      BY <1>0 DEF ServerTypes
    <3>2. QED
      BY <2>1, <2>2, <2>3, <3>1
  <2>5. QED
    BY <1>0, <2>1, <2>3, <2>4 DEF ServerTypes
<1>5. CASE HandleConnected
  <2>1. ASSUME NEW n \in 1..Len(Page)
        PROVE  ToServer("SUBSCRIBE", counter + n - 1, Page[n]) \in Orders
    <3>1. counter \in Nat /\ counter + Len(Page) <= MaxIds
      BY <1>0, <1>5 DEF HandleConnected, PageSubscribes, ClientTypes
    <3>2. counter + n - 1 \in Ids /\ Page[n] \in Destinations
      BY <3>1, PageRoom
    <3>3. QED
      BY <3>2, OrderTypes
  <2> DEFINE list == [n \in 1..Len(Page) |->
                        ToServer("SUBSCRIBE", counter + n - 1, Page[n])]
  <2>2. list \in Seq(Orders)
    BY <2>1, PageRoom
  <2>3. Transmitted(list)
    BY <1>5 DEF HandleConnected, PageSubscribes
  <2> HIDE DEF list
  <2>4. wire' \in Seq(Orders)
    BY <1>0, <2>2, <2>3, WireType DEF ServerTypes
  <2>5. QED
    BY <1>0, <1>5, <2>4 DEF HandleConnected, ServerTypes
<1>6. ASSUME NEW throws \in BOOLEAN, HandleOther(throws) PROVE ServerTypes'
  BY <1>0, <1>6 DEF HandleOther, ServerTypes, server
<1>7. ASSUME NEW d \in Destinations, NEW id \in Ids, Subscribe(d, id) PROVE ServerTypes'
  <2>1. <<ToServer("SUBSCRIBE", id, d)>> \in Seq(Orders)
    BY OrderTypes
  <2>2. wire' \in Seq(Orders)
    BY <1>0, <1>7, <2>1, WireType DEF Subscribe, ServerTypes
  <2>3. QED
    BY <1>0, <1>7, <2>2 DEF Subscribe, ServerTypes
<1>8. ASSUME NEW id \in Ids, Unsubscribe(id) PROVE ServerTypes'
  <2>1. <<ToServer("UNSUBSCRIBE", id, None)>> \in Seq(Orders)
    BY OrderTypes
  <2>2. wire' \in Seq(Orders)
    BY <1>0, <1>8, <2>1, WireType DEF Unsubscribe, ServerTypes
  <2>3. QED
    BY <1>0, <1>8, <2>2 DEF Unsubscribe, ServerTypes
<1>9. CASE Begin
  BY <1>0, <1>9 DEF Begin, ServerTypes, server
<1>10. CASE Disconnect
  <2>1. <<ToServer("DISCONNECT", None, None)>> \in Seq(Orders)
    BY OrderTypes
  <2>2. wire' \in Seq(Orders)
    BY <1>0, <1>10, <2>1, WireType DEF Disconnect, ServerTypes
  <2>3. UNCHANGED messages
    BY <1>10 DEF Disconnect, Sock!Close
  <2>4. QED
    BY <1>0, <1>10, <2>2, <2>3 DEF Disconnect, ServerTypes
<1>11. CASE PongCheck
  <2>1. UNCHANGED messages
    BY <1>11 DEF PongCheck, Sock!Close
  <2>2. QED
    BY <1>0, <1>11, <2>1 DEF PongCheck, ServerTypes, server
<1>12. CASE ServerConnects
  <2>1. wire' \in Seq(Orders)
    BY <1>0, <1>12, TailForm DEF ServerConnects, ServerTypes
  <2>2. PICK version \in Versions, beat \in HeartBeats : SentAlone(Connected(version, beat))
    BY <1>12 DEF ServerConnects
  <2>3. Connected(version, beat) \in Sendable /\ UNCHANGED <<messages, known>>
    BY <1>12, ParcelTypes DEF ServerConnects
  <2>4. QED
    BY <1>0, <2>1, <2>2, <2>3, SentAloneTypes DEF ServerTypes
<1>13. CASE ServerReads
  <2>1. /\ wire' \in Seq(Orders) /\ Head(wire) \in Orders
    BY <1>0, <1>13, TailForm DEF ServerReads, ServerTypes
  <2>2. Head(wire).destination \in Destinations \cup {None}
    BY <2>1, OrderFacts
  <2>3. known' \in [Ids -> Destinations \cup {None}]
    BY <1>0, <1>13, <2>2 DEF ServerReads, ServerTypes
  <2>4. QED
    BY <1>0, <1>13, <2>1, <2>3 DEF ServerReads, ServerTypes
<1>14. ASSUME NEW id \in Ids, NEW body \in Bodies, ServerMessages(id, body)
       PROVE  ServerTypes'
  <2>1. \A i \in Ids : known[i] # None => known[i] \in Destinations
    BY <1>0 DEF ServerTypes
  <2>2. known[id] # None /\ UNCHANGED <<messages, wire, known>>
    BY <1>14 DEF ServerMessages
  <2>3. /\ Message(known[id], id, body) \in Messages
        /\ Message(known[id], id, body) \in Sendable
    BY <2>1, <2>2, ParcelTypes
  <2>4. CASE SentAlone(Message(known[id], id, body))
    BY <1>0, <2>2, <2>3, <2>4, SentAloneTypes DEF ServerTypes
  <2>5. ASSUME NEW other \in Ids, known[other] # None,
               SentPair(Message(known[id], id, body), Message(known[other], other, body))
        PROVE  ServerTypes'
    <3>1. Message(known[other], other, body) \in Messages
      BY <2>1, <2>5, ParcelTypes
    <3>2. QED
      BY <1>0, <2>2, <2>3, <2>5, <3>1, SentPairTypes DEF ServerTypes
  <2>6. QED
    BY <1>14, <2>4, <2>5 DEF ServerMessages
<1>15. CASE ServerBeats
  <2>1. /\ Sent(Beat.sent, Beat.data) /\ Beat = [sent |-> Beat.sent, data |-> Beat.data]
        /\ UNCHANGED <<messages, wire, known>>
    BY <1>15 DEF ServerBeats, Beat
  <2>2. Beat \in Parcels
    BY ParcelTypes
  <2>3. QED
    BY <1>0, <2>1, <2>2, SentTypes DEF ServerTypes
<1>16. CASE ServerRefuses
  <2>1. SentAlone(Refusal) /\ Refusal \in Sendable /\ UNCHANGED <<messages, wire, known>>
    BY <1>16, ParcelTypes DEF ServerRefuses
  <2>2. QED
    BY <1>0, <2>1, SentAloneTypes DEF ServerTypes
<1>17. CASE UNCHANGED vars
  BY <1>0, <1>17 DEF vars, ServerTypes, server
<1>18. QED
  BY <1>1, <1>2, <1>3, <1>4, <1>5, <1>6, <1>7, <1>8, <1>9, <1>10, <1>11, <1>12, <1>13,
     <1>14, <1>15, <1>16, <1>17 DEF Next, Handle

-----------------------------------------------------------------------------
(* Every step keeps what the program is told of the connection.             *)

LEMMA NoneAlone == frames' = <<>> => ConnectedAlone'
  BY DEF ConnectedAlone

LEMMA LossFrame ==
  LossInv /\ UNCHANGED <<state, closes, frames, calling, onclose, lost, connected, pinger,
                         ponger>> => LossInv'
  BY DEF LossInv, ConnectedAlone, LossTold

LEMMA LossKept == ClientInv /\ [Next]_vars => LossInv'
<1> SUFFICES ASSUME ClientInv, [Next]_vars PROVE LossInv'
  OBVIOUS
<1>0. /\ LossInv /\ ClientTypes /\ inbox \in Seq(Parcels)
      /\ closes = IF state = "closed" THEN 1 ELSE 0
      /\ ~onclose => state \in {"closing", "closed"}
      /\ state = "closed" => frames = <<>>
      /\ lost \in {0, 1}
      /\ onclose => lost = closes
      /\ lost <= closes
      /\ (closes = 1 \/ ~onclose) => ~connected /\ ~pinger /\ ~ponger
      /\ \A n \in DOMAIN frames :
           frames[n].command = "CONNECTED" => Len(frames) = 1 /\ ~calling /\ onclose
  BY DEF ClientInv, ServerTypes, LossInv, ConnectedAlone, LossTold
<1>1. CASE SocketOpens
  <2>1. /\ state = "connecting" /\ state' = "open" /\ frames = <<>>
        /\ UNCHANGED <<closes, frames, calling, onclose, lost, connected, pinger, ponger>>
    BY <1>1 DEF SocketOpens, Idle, Sock!Open, client
  <2>2. QED
    BY <1>0, <2>1, NoneAlone DEF LossInv, LossTold
<1>2. CASE SocketBreaks
  <2>1. /\ state \in {"connecting", "open"} /\ state' = "closing" /\ frames = <<>>
        /\ UNCHANGED <<closes, frames, calling, onclose, lost, connected, pinger, ponger>>
    BY <1>2 DEF SocketBreaks, Idle, Sock!Close, client
  <2>2. QED
    BY <1>0, <2>1, NoneAlone DEF LossInv, LossTold
<1>3. CASE SocketTellsClose
  <2>1. /\ state = "closing" /\ state' = "closed" /\ closes' = closes + 1 /\ frames = <<>>
        /\ UNCHANGED <<frames, calling, onclose>>
        /\ IF onclose
           THEN lost' = lost + 1 /\ connected' = FALSE /\ pinger' = FALSE /\ ponger' = FALSE
           ELSE UNCHANGED <<connected, pinger, ponger, lost>>
    BY <1>3 DEF SocketTellsClose, Idle, Sock!TellClose, CleanUp
  <2>2. closes = 0 /\ closes' = 1 /\ lost = 0
    BY <1>0, <2>1
  <2>3. CASE onclose
    BY <1>0, <2>1, <2>2, <2>3, NoneAlone DEF LossInv, LossTold
  <2>4. CASE ~onclose
    BY <1>0, <2>1, <2>2, <2>4, NoneAlone DEF LossInv, LossTold
  <2>5. QED
    BY <2>3, <2>4
<1>4. CASE SocketReceives
  <2> DEFINE p == Head(inbox)
  <2>1. /\ state = "open" /\ calling' = FALSE /\ frames' = Arrived(p) /\ p \in Parcels
        /\ UNCHANGED <<state, closes, onclose, lost, connected, pinger, ponger>>
    BY <1>0, <1>4, TailForm DEF SocketReceives, Sock!Receive, Arrived, client
  <2> HIDE DEF p
  <2>2. /\ Arrived(p) \in Seq(Readable) /\ p.sent \in Seq(Sendable)
        /\ Len(Arrived(p)) <= Len(p.sent)
        /\ \A n \in 1..Len(Arrived(p)) : Arrived(p)[n] = AsRead(p.sent[n])
    BY <2>1, ParcelArrives
  <2>3. ASSUME NEW n \in DOMAIN frames', frames'[n].command = "CONNECTED"
        PROVE  Len(frames') = 1
    <3>1. /\ n \in 1..Len(Arrived(p)) /\ n \in 1..Len(p.sent) /\ p.sent[n] \in Sendable
          /\ p.sent[n].command = "CONNECTED"
      <4>1. n \in 1..Len(Arrived(p)) /\ n \in 1..Len(p.sent)
        BY <2>1, <2>2, <2>3
      <4>2. p.sent[n] \in Sendable /\ Arrived(p)[n] = AsRead(p.sent[n])
        BY <2>2, <4>1
      <4>3. QED
        BY <2>1, <2>3, <4>1, <4>2, SendableFacts
    <3>2. Len(p.sent) = 1
      <4>1. \A f, g \in Messages : \A m \in 1..2 : Pair(f, g).sent[m].command = "MESSAGE"
        BY SendableFacts DEF Pair, Sendable
      <4>2. \A f, g \in Messages : Len(Pair(f, g).sent) = 2
        BY DEF Pair
      <4>3. \A f \in Sendable : Len(Alone(f).sent) = 1
        BY DEF Alone
      <4>4. Len(Beat.sent) = 0
        BY DEF Beat
      <4>5. QED
        BY <2>1, <3>1, <4>1, <4>2, <4>3, <4>4 DEF Parcels
    <3>3. QED
      BY <2>1, <2>2, <3>1, <3>2
  <2>4. onclose
    BY <1>0, <2>1
  <2>5. ConnectedAlone'
    BY <2>1, <2>3, <2>4 DEF ConnectedAlone
  <2>6. QED
    BY <1>0, <2>1, <2>5 DEF LossInv, LossTold
<1>5. CASE HandleConnected
  <2>1. /\ frames # <<>> /\ frames[1].command = "CONNECTED" /\ 1 \in DOMAIN frames
        /\ Len(Tail(frames)) = Len(frames) - 1 /\ Tail(frames) \in Seq(Readable)
    BY <1>0, <1>5, TailForm DEF HandleConnected, ClientTypes
  <2>2. Len(frames) = 1 /\ onclose /\ state # "closed"
    BY <1>0, <2>1
  <2>3. Tail(frames) = <<>>
    <3>1. Tail(frames) \in Seq(Readable) /\ Len(Tail(frames)) = 0
      BY <2>1, <2>2
    <3>2. QED
      BY <3>1, EmptySeq
  <2>4. /\ frames' = Tail(frames)
        /\ UNCHANGED <<state, closes, onclose, lost>>
    BY <1>5 DEF HandleConnected
  <2>5. QED
    BY <1>0, <2>2, <2>3, <2>4, NoneAlone DEF LossInv, LossTold
<1>6. ASSUME NEW throws \in BOOLEAN, HandleOther(throws) PROVE LossInv'
  <2>1. /\ frames # <<>> /\ (frames' = <<>> \/ frames' = Tail(frames))
        /\ UNCHANGED <<state, closes, onclose, lost, connected, pinger, ponger>>
    BY <1>6 DEF HandleOther, client
  <2>2. /\ 1 \in DOMAIN frames /\ Head(frames) = frames[1]
        /\ \A n \in DOMAIN Tail(frames) :
             n \in Nat /\ n >= 1 /\ n + 1 \in DOMAIN frames /\ Tail(frames)[n] = frames[n + 1]
    BY <1>0, <2>1, TailForm DEF ClientTypes
  <2>3. frames' = Tail(frames) => ConnectedAlone'
    <3>1. SUFFICES ASSUME NEW n \in DOMAIN Tail(frames),
                          Tail(frames)[n].command = "CONNECTED"
                   PROVE  FALSE
      BY DEF ConnectedAlone
    <3>2. /\ n + 1 \in DOMAIN frames /\ frames[n + 1].command = "CONNECTED"
          /\ n >= 1 /\ n \in Nat
      BY <2>2, <3>1
    <3>3. Len(frames) = 1 /\ DOMAIN frames = 1..Len(frames)
      BY <1>0, <3>2 DEF ClientTypes
    <3>4. QED
      BY <3>2, <3>3
  <2>4. state = "closed" => FALSE
    BY <1>0, <2>1
  <2>5. QED
    BY <1>0, <2>1, <2>3, <2>4, NoneAlone DEF LossInv, LossTold
<1>7. ASSUME NEW d \in Destinations, NEW id \in Ids, Subscribe(d, id) PROVE LossInv'
  BY <1>0, <1>7, LossFrame DEF Subscribe
<1>8. ASSUME NEW id \in Ids, Unsubscribe(id) PROVE LossInv'
  BY <1>0, <1>8, LossFrame DEF Unsubscribe
<1>9. CASE Begin
  BY <1>0, <1>9, LossFrame DEF Begin
<1>10. CASE Disconnect
  <2>1. /\ onclose /\ onclose' = FALSE /\ state # "connecting" /\ (frames = <<>> \/ calling)
        /\ connected' = FALSE /\ pinger' = FALSE /\ ponger' = FALSE
        /\ UNCHANGED <<closes, frames, calling, lost>>
        /\ IF state = "open" THEN state' = "closing" ELSE state' = state
    BY <1>10 DEF Disconnect, Calls, CleanUp, Sock!Close
  <2>2. state' \in {"closing", "closed"} /\ (state' = "closed" <=> state = "closed")
    BY <1>0, <2>1 DEF ClientTypes
  <2>3. ConnectedAlone'
    BY <1>0, <2>1 DEF ConnectedAlone
  <2>4. QED
    BY <1>0, <2>1, <2>2, <2>3 DEF LossInv, LossTold
<1>11. CASE PongCheck
  <2>1. /\ frames = <<>> /\ UNCHANGED <<closes, frames, calling, onclose, lost, connected,
                                        pinger, ponger>>
        /\ \/ UNCHANGED state
           \/ state \in {"connecting", "open"} /\ state' = "closing"
    BY <1>11 DEF PongCheck, Idle, Sock!Close, client
  <2>2. QED
    BY <1>0, <2>1, NoneAlone DEF LossInv, LossTold
<1>12. CASE ServerConnects
  BY <1>0, <1>12, LossFrame DEF ServerConnects, client
<1>13. CASE ServerReads
  BY <1>0, <1>13, LossFrame DEF ServerReads, client
<1>14. ASSUME NEW id \in Ids, NEW body \in Bodies, ServerMessages(id, body) PROVE LossInv'
  BY <1>0, <1>14, LossFrame DEF ServerMessages, client
<1>15. CASE ServerBeats
  BY <1>0, <1>15, LossFrame DEF ServerBeats, client
<1>16. CASE ServerRefuses
  BY <1>0, <1>16, LossFrame DEF ServerRefuses, client
<1>17. CASE UNCHANGED vars
  BY <1>0, <1>17, LossFrame DEF vars, client
<1>18. QED
  BY <1>1, <1>2, <1>3, <1>4, <1>5, <1>6, <1>7, <1>8, <1>9, <1>10, <1>11, <1>12, <1>13,
     <1>14, <1>15, <1>16, <1>17 DEF Next, Handle

-----------------------------------------------------------------------------
(* Every step keeps what is on its way bound to the destination of its id.  *)

LEMMA WireBound ==
  ASSUME NEW c, NEW s, NEW w, wire \in Seq(Orders), OrdersBound(c, s, w, wire),
         NEW list \in Seq(Orders), OrdersBound(c, s, w, list), Transmitted(list)
  PROVE  OrdersBound(c, s, w, wire')
<1>1. \A n \in DOMAIN (wire \o list) :
        \/ n \in DOMAIN wire /\ (wire \o list)[n] = wire[n]
        \/ \E m \in DOMAIN list : (wire \o list)[n] = list[m]
  BY JoinMembers
<1>2. OrdersBound(c, s, w, wire \o list)
  BY <1>1 DEF OrdersBound
<1>3. wire' = wire \o list \/ wire' = wire
  BY DEF Transmitted
<1>4. QED
  BY <1>2, <1>3

LEMMA SentBound ==
  ASSUME NEW c, NEW s, NEW w, inbox \in Seq(Parcels), InboxBound(c, s, w, inbox), NEW p \in Parcels,
         FramesBound(c, s, w, p.sent), inbox' = Append(inbox, p)
  PROVE  InboxBound(c, s, w, inbox')
<1>1. \A n \in DOMAIN Append(inbox, p) :
        \/ n \in DOMAIN inbox /\ Append(inbox, p)[n] = inbox[n]
        \/ Append(inbox, p)[n] = p
  BY AppendForm
<1>2. InboxBound(c, s, w, Append(inbox, p))
  BY <1>1 DEF InboxBound
<1>3. QED
  BY <1>2

\* Only a new id gets a callback, and one that is taken away stays away.
LEMMA IdsBound ==
  ASSUME ClientInv, counter' \in Int, counter <= counter', supplied \subseteq supplied',
         \A i \in Ids : i < counter /\ i \notin supplied' =>
                          subscriptions'[i] \in {None, subscriptions[i]}
  PROVE  /\ OrdersBound(counter', subscriptions', supplied', wire)
         /\ KnownBound(counter', subscriptions', supplied', known)
         /\ InboxBound(counter', subscriptions', supplied', inbox)
         /\ FramesBound(counter', subscriptions', supplied', frames)
<1>1. counter \in Int
  BY DEF ClientInv, ClientTypes
<1>2. RouteInv
  BY DEF ClientInv
<1>3. QED
  BY <1>1, <1>2, BoundKept DEF RouteInv

LEMMA RouteFrame ==
  ASSUME ClientInv, UNCHANGED <<counter, subscriptions, supplied>>,
         OrdersBound(counter, subscriptions, supplied, wire'),
         KnownBound(counter, subscriptions, supplied, known'),
         InboxBound(counter, subscriptions, supplied, inbox'),
         FramesBound(counter, subscriptions, supplied, frames')
  PROVE  RouteInv'
  BY DEF ClientInv, RouteInv

LEMMA FramesTail ==
  ASSUME NEW c, NEW s, NEW w, NEW list \in Seq(Readable), list # <<>>, FramesBound(c, s, w, list)
  PROVE  FramesBound(c, s, w, Tail(list))
<1>1. \A n \in DOMAIN Tail(list) : n + 1 \in DOMAIN list /\ Tail(list)[n] = list[n + 1]
  BY TailForm
<1>2. QED
  BY <1>1 DEF FramesBound

LEMMA InboxTail ==
  ASSUME NEW c, NEW s, NEW w, NEW list \in Seq(Parcels), list # <<>>, InboxBound(c, s, w, list)
  PROVE  InboxBound(c, s, w, Tail(list)) /\ FramesBound(c, s, w, Head(list).sent)
<1>1. /\ \A n \in DOMAIN Tail(list) : n + 1 \in DOMAIN list /\ Tail(list)[n] = list[n + 1]
      /\ Head(list) = list[1] /\ 1 \in DOMAIN list
  BY TailForm
<1>2. QED
  BY <1>1 DEF InboxBound

LEMMA OrdersTail ==
  ASSUME NEW c, NEW s, NEW w, NEW list \in Seq(Orders), list # <<>>, OrdersBound(c, s, w, list)
  PROVE  /\ OrdersBound(c, s, w, Tail(list))
         /\ Head(list).destination # None =>
              Bound(c, s, w, Head(list).id, Head(list).destination)
<1>1. /\ \A n \in DOMAIN Tail(list) : n + 1 \in DOMAIN list /\ Tail(list)[n] = list[n + 1]
      /\ Head(list) = list[1] /\ 1 \in DOMAIN list
  BY TailForm
<1>2. QED
  BY <1>1 DEF OrdersBound

LEMMA RouteKept == ClientInv /\ [Next]_vars => RouteInv'
<1> SUFFICES ASSUME ClientInv, [Next]_vars PROVE RouteInv'
  OBVIOUS
<1> DEFINE c == counter
           s == subscriptions
           w == supplied
<1>0. /\ ClientTypes /\ ServerTypes /\ RouteInv
      /\ c \in 0..MaxIds /\ s \in [Ids -> Destinations \cup {None}]
      /\ wire \in Seq(Orders) /\ inbox \in Seq(Parcels) /\ frames \in Seq(Readable)
      /\ known \in [Ids -> Destinations \cup {None}]
      /\ \A id \in Ids : id >= c /\ id \notin w => s[id] = None
      /\ OrdersBound(c, s, w, wire) /\ KnownBound(c, s, w, known)
      /\ InboxBound(c, s, w, inbox) /\ FramesBound(c, s, w, frames)
  BY DEF ClientInv, ClientTypes, ServerTypes, RouteInv
<1>a. ASSUME UNCHANGED <<counter, subscriptions, supplied, wire, known, inbox, frames>>
      PROVE  RouteInv'
  BY <1>0, <1>a DEF RouteInv
<1>b. \A list : (\A n \in DOMAIN list : list[n].destination = None)
                  => OrdersBound(c, s, w, list)
  BY DEF OrdersBound
<1>1. CASE SocketOpens
  <2> DEFINE o == ToServer("CONNECT", None, None)
  <2>1. o \in Orders /\ o.destination = None
    BY OrderTypes DEF ToServer
  <2>2. \A n \in DOMAIN Append(wire, o) :
          \/ n \in DOMAIN wire /\ Append(wire, o)[n] = wire[n]
          \/ Append(wire, o)[n] = o
    BY <1>0, <2>1, AppendForm
  <2>3. /\ wire' = Append(wire, o)
        /\ UNCHANGED <<counter, subscriptions, supplied, known, inbox, frames>>
    BY <1>1 DEF SocketOpens, client
  <2> HIDE DEF o
  <2>4. OrdersBound(c, s, w, wire')
    BY <1>0, <2>1, <2>2, <2>3 DEF OrdersBound
  <2>5. QED
    BY <1>0, <2>3, <2>4, RouteFrame
<1>2. CASE SocketBreaks
  BY <1>2, <1>a DEF SocketBreaks, client, server
<1>3. CASE SocketTellsClose
  BY <1>3, <1>a DEF SocketTellsClose, server
<1>4. CASE SocketReceives
  <2>1. inbox # <<>> /\ inbox' = Tail(inbox) /\ frames' = Arrived(Head(inbox))
        /\ UNCHANGED <<counter, subscriptions, supplied, wire, known>>
    BY <1>4 DEF SocketReceives, Arrived, client
  <2>2. InboxBound(c, s, w, inbox') /\ FramesBound(c, s, w, Head(inbox).sent)
    BY <1>0, <2>1, InboxTail
  <2>3. Head(inbox) \in Parcels
    BY <1>0, <2>1, TailForm
  <2>4. FramesBound(c, s, w, frames')
    BY <2>1, <2>2, <2>3, ArrivedBound
  <2>5. QED
    BY <1>0, <2>1, <2>2, <2>4, RouteFrame
<1>5. CASE HandleConnected
  <2> DEFINE list == [n \in 1..Len(Page) |->
                        ToServer("SUBSCRIBE", counter + n - 1, Page[n])]
  <2>1. /\ c + Len(Page) <= MaxIds /\ counter' = c + Len(Page) /\ Transmitted(list)
        /\ subscriptions' = [id \in Ids |-> IF id \in c..(counter' - 1)
                               THEN Page[id - c + 1] ELSE s[id]]
        /\ frames # <<>> /\ frames' = Tail(frames)
        /\ UNCHANGED <<inbox, known, supplied>>
    BY <1>5 DEF HandleConnected, PageSubscribes
  <2>2. c \in Nat /\ Len(Page) \in Nat /\ counter' \in Nat /\ c <= counter'
    BY <1>0, <2>1, PageRoom
  <2>3. \A id \in Ids : id < c => subscriptions'[id] = s[id]
    BY <2>1, <2>2
  <2>4. /\ OrdersBound(counter', subscriptions', supplied', wire)
        /\ KnownBound(counter', subscriptions', supplied', known)
        /\ InboxBound(counter', subscriptions', supplied', inbox)
        /\ FramesBound(counter', subscriptions', supplied', frames)
    BY <2>1, <2>2, <2>3, IdsBound
  <2>5. ASSUME NEW n \in 1..Len(Page)
        PROVE  /\ list[n] \in Orders
               /\ Bound(counter', subscriptions', supplied', list[n].id, list[n].destination)
    <3> DEFINE id == (c + n) - 1
    <3>1. /\ id \in Ids /\ id < counter' /\ id \in c..(counter' - 1) /\ (id - c) + 1 = n
          /\ c + n - 1 = id
      BY <2>1, <2>2, PageRoom
    <3>2. list[n] = ToServer("SUBSCRIBE", id, Page[n])
      BY <3>1
    <3> HIDE DEF list
    <3>3. Page[n] \in Destinations
      BY PageRoom
    <3>4. list[n] \in Orders
      BY <3>1, <3>2, <3>3, OrderTypes
    <3>5. list[n].id = id /\ list[n].destination = Page[n]
      BY <3>2 DEF ToServer
    <3>6. subscriptions'[id] = Page[(id - c) + 1]
      BY <2>1, <3>1
    <3> HIDE DEF id
    <3>7. QED
      BY <3>1, <3>4, <3>5, <3>6 DEF Bound
  <2>6. list \in Seq(Orders) /\ DOMAIN list = 1..Len(Page)
    BY <2>2, <2>5
  <2> HIDE DEF list
  <2>7. OrdersBound(counter', subscriptions', supplied', list)
    BY <2>5, <2>6 DEF OrdersBound
  <2>8. OrdersBound(counter', subscriptions', supplied', wire')
    BY <1>0, <2>1, <2>4, <2>6, <2>7, WireBound
  <2>9. FramesBound(counter', subscriptions', supplied', frames')
    BY <1>0, <2>1, <2>4, FramesTail
  <2>10. ASSUME NEW id \in Ids, id >= counter', id \notin supplied'
         PROVE  subscriptions'[id] = None
    <3>1. id \in Int
      BY PageRoom
    <3>2. \A x, y, z \in Int : x <= y /\ z >= y => z \notin x..(y - 1) /\ z >= x
      OBVIOUS
    <3>3. id \notin c..(counter' - 1) /\ id >= c
      <4>1. c \in Int /\ counter' \in Int
        BY <2>2
      <4> HIDE DEF c
      <4>2. QED
        BY <2>2, <2>10, <3>1, <3>2, <4>1, Zenon
    <3>4. id \notin w
      BY <2>1, <2>10
    <3>5. QED
      BY <1>0, <2>1, <3>3, <3>4
  <2>11. QED
    BY <2>1, <2>4, <2>8, <2>9, <2>10 DEF RouteInv
<1>6. ASSUME NEW throws \in BOOLEAN, HandleOther(throws) PROVE RouteInv'
  <2>1. /\ frames # <<>> /\ (frames' = <<>> \/ frames' = Tail(frames))
        /\ UNCHANGED <<counter, subscriptions, supplied, wire, known, inbox>>
    BY <1>6 DEF HandleOther, client, server
  <2>2. FramesBound(c, s, w, frames')
    <3>1. FramesBound(c, s, w, <<>>)
      BY DEF FramesBound
    <3>2. FramesBound(c, s, w, Tail(frames))
      BY <1>0, <2>1, FramesTail
    <3>3. QED
      BY <2>1, <3>1, <3>2
  <2>3. QED
    BY <1>0, <2>1, <2>2, RouteFrame
<1>7. ASSUME NEW d \in Destinations, NEW id \in Ids, Subscribe(d, id) PROVE RouteInv'
  <2> DEFINE o == ToServer("SUBSCRIBE", id, d)
             list == <<o>>
  <2>1. /\ subscriptions' = [s EXCEPT ![id] = d] /\ Transmitted(list)
        /\ UNCHANGED <<inbox, known, frames>>
        /\ counter' \in Int /\ c <= counter' /\ w \subseteq supplied'
        /\ \/ id = c /\ counter' = c + 1
           \/ id \in supplied'
    BY <1>0, <1>7 DEF Subscribe, NewId
  <2>2. id \in Int
    BY PageRoom
  <2>3. \A i \in Ids : i < c /\ i \notin supplied' => subscriptions'[i] = s[i]
    BY <1>0, <2>1, <2>2
  <2>4. /\ OrdersBound(counter', subscriptions', supplied', wire)
        /\ KnownBound(counter', subscriptions', supplied', known)
        /\ InboxBound(counter', subscriptions', supplied', inbox)
        /\ FramesBound(counter', subscriptions', supplied', frames)
    BY <2>1, <2>3, IdsBound
  <2>5. o.id = id /\ o.destination = d /\ o \in Orders
    BY OrderTypes DEF ToServer
  <2> HIDE DEF o
  <2>6. subscriptions'[id] = d /\ (id < counter' \/ id \in supplied')
    BY <1>0, <2>1, <2>2
  <2>7. Bound(counter', subscriptions', supplied', o.id, o.destination)
    BY <2>5, <2>6 DEF Bound
  <2>8. list \in Seq(Orders) /\ \A n \in DOMAIN list : list[n] = o
    BY <2>5
  <2> HIDE DEF list
  <2>9. OrdersBound(counter', subscriptions', supplied', list)
    BY <2>7, <2>8 DEF OrdersBound
  <2>10. OrdersBound(counter', subscriptions', supplied', wire')
    BY <1>0, <2>1, <2>4, <2>8, <2>9, WireBound
  <2>11. ASSUME NEW i \in Ids, i >= counter', i \notin supplied'
         PROVE  subscriptions'[i] = None
    <3>1. i # id /\ i >= c /\ i \notin w
      BY <1>0, <2>1, <2>2, <2>11, PageRoom
    <3>2. QED
      BY <1>0, <2>1, <3>1
  <2>12. QED
    BY <2>1, <2>4, <2>10, <2>11 DEF RouteInv
<1>8. ASSUME NEW id \in Ids, Unsubscribe(id) PROVE RouteInv'
  <2> DEFINE o == ToServer("UNSUBSCRIBE", id, None)
             list == <<o>>
  <2>1. /\ counter' = c /\ subscriptions' = [s EXCEPT ![id] = None] /\ Transmitted(list)
        /\ UNCHANGED <<inbox, known, frames, supplied>>
    BY <1>8 DEF Unsubscribe
  <2>2. \A i \in Ids : subscriptions'[i] \in {None, s[i]}
    BY <1>0, <2>1
  <2>3. /\ OrdersBound(counter', subscriptions', supplied', wire)
        /\ KnownBound(counter', subscriptions', supplied', known)
        /\ InboxBound(counter', subscriptions', supplied', inbox)
        /\ FramesBound(counter', subscriptions', supplied', frames)
    <3>1. counter' \in Int /\ c <= counter' /\ w \subseteq supplied'
      BY <1>0, <2>1
    <3>2. QED
      BY <2>2, <3>1, IdsBound
  <2>4. o.destination = None /\ o \in Orders
    BY OrderTypes DEF ToServer
  <2> HIDE DEF o
  <2>5. list \in Seq(Orders) /\ \A n \in DOMAIN list : list[n] = o
    BY <2>4
  <2> HIDE DEF list
  <2>6. OrdersBound(counter', subscriptions', supplied', list)
    BY <2>4, <2>5 DEF OrdersBound
  <2>7. OrdersBound(counter', subscriptions', supplied', wire')
    BY <1>0, <2>1, <2>3, <2>5, <2>6, WireBound
  <2>8. \A i \in Ids : i >= counter' /\ i \notin supplied' => subscriptions'[i] = None
    BY <1>0, <2>1, <2>2
  <2>9. QED
    BY <2>1, <2>3, <2>7, <2>8 DEF RouteInv
<1>9. CASE Begin
  <2>1. /\ counter' = c + 1
        /\ UNCHANGED <<subscriptions, supplied, wire, known, inbox, frames>>
    BY <1>9 DEF Begin, server
  <2>2. c \in Int /\ counter' \in Int /\ c <= counter'
    BY <1>0, <2>1
  <2>3. /\ OrdersBound(counter', subscriptions', supplied', wire)
        /\ KnownBound(counter', subscriptions', supplied', known)
        /\ InboxBound(counter', subscriptions', supplied', inbox)
        /\ FramesBound(counter', subscriptions', supplied', frames)
    BY <2>1, <2>2, IdsBound
  <2>4. \A i \in Ids : i >= counter' => i >= c
    BY <2>1, <2>2, PageRoom
  <2>5. QED
    BY <1>0, <2>1, <2>3, <2>4 DEF RouteInv
<1>10. CASE Disconnect
  <2> DEFINE o == ToServer("DISCONNECT", None, None)
             list == <<o>>
  <2>1. Transmitted(list) /\ UNCHANGED <<counter, subscriptions, supplied, inbox, known, frames>>
    BY <1>10 DEF Disconnect
  <2>2. o.destination = None /\ o \in Orders
    BY OrderTypes DEF ToServer
  <2> HIDE DEF o
  <2>3. list \in Seq(Orders) /\ \A n \in DOMAIN list : list[n] = o
    BY <2>2
  <2> HIDE DEF list
  <2>4. OrdersBound(c, s, w, wire')
    BY <1>0, <1>b, <2>1, <2>2, <2>3, WireBound
  <2>5. QED
    BY <1>0, <2>1, <2>4, RouteFrame
<1>11. CASE PongCheck
  BY <1>11, <1>a DEF PongCheck, client, server
<1>12. CASE ServerConnects
  <2>1. /\ wire # <<>> /\ wire' = Tail(wire)
        /\ UNCHANGED <<counter, subscriptions, supplied, frames, known>>
    BY <1>12 DEF ServerConnects, client
  <2>2. PICK version \in Versions, beat \in HeartBeats : SentAlone(Connected(version, beat))
    BY <1>12 DEF ServerConnects
  <2> DEFINE f == Connected(version, beat)
  <2>3. f \in Sendable /\ f.command = "CONNECTED" /\ Alone(f) \in Parcels
    BY ParcelTypes DEF Connected, Frame
  <2>4. inbox' = Append(inbox, Alone(f)) /\ Alone(f).sent = <<f>>
    BY <2>2 DEF SentAlone, Sent, Alone
  <2> HIDE DEF f
  <2>5. FramesBound(c, s, w, Alone(f).sent)
    BY <2>3, <2>4 DEF FramesBound
  <2>6. InboxBound(c, s, w, inbox')
    BY <1>0, <2>3, <2>4, <2>5, SentBound
  <2>7. OrdersBound(c, s, w, wire')
    BY <1>0, <2>1, OrdersTail
  <2>8. QED
    BY <1>0, <2>1, <2>6, <2>7, RouteFrame
<1>13. CASE ServerReads
  <2>1. /\ wire # <<>> /\ wire' = Tail(wire)
        /\ known' = IF Head(wire).command = "DISCONNECT" THEN [id \in Ids |-> None]
                    ELSE [known EXCEPT ![Head(wire).id] = Head(wire).destination]
        /\ UNCHANGED <<counter, subscriptions, supplied, frames, inbox>>
    BY <1>13 DEF ServerReads, client
  <2>2. /\ OrdersBound(c, s, w, wire')
        /\ Head(wire).destination # None =>
             Bound(c, s, w, Head(wire).id, Head(wire).destination)
    BY <1>0, <2>1, OrdersTail
  <2>3. KnownBound(c, s, w, known')
    <3>1. CASE Head(wire).command = "DISCONNECT"
      BY <2>1, <3>1 DEF KnownBound
    <3>2. CASE Head(wire).command # "DISCONNECT"
      BY <1>0, <2>1, <2>2, <3>2 DEF KnownBound
    <3>3. QED
      BY <3>1, <3>2
  <2>4. QED
    BY <1>0, <2>1, <2>2, <2>3, RouteFrame
<1>14. ASSUME NEW id \in Ids, NEW body \in Bodies, ServerMessages(id, body) PROVE RouteInv'
  <2>1. known[id] # None /\ UNCHANGED <<counter, subscriptions, supplied, wire, known, frames>>
    BY <1>14 DEF ServerMessages, client
  <2>2. ASSUME NEW i \in Ids, known[i] # None
        PROVE  /\ Message(known[i], i, body) \in Messages
               /\ Message(known[i], i, body) \in Sendable
               /\ Bound(c, s, w, Message(known[i], i, body).headers[2][2],
                              Message(known[i], i, body).headers[1][2])
    <3>1. known[i] \in Destinations /\ Bound(c, s, w, i, known[i])
      BY <1>0, <2>2 DEF KnownBound
    <3>2. /\ Message(known[i], i, body).headers[1][2] = known[i]
          /\ Message(known[i], i, body).headers[2][2] = i
      BY <3>1, MessageRead
    <3>3. QED
      BY <3>1, <3>2, ParcelTypes
  <2> DEFINE f == Message(known[id], id, body)
  <2>3. CASE SentAlone(f)
    <3>1. f \in Sendable /\ Bound(c, s, w, f.headers[2][2], f.headers[1][2])
      BY <2>1, <2>2
    <3>2. inbox' = Append(inbox, Alone(f)) /\ Alone(f).sent = <<f>>
      BY <2>3 DEF SentAlone, Sent, Alone
    <3> HIDE DEF f
    <3>3. FramesBound(c, s, w, Alone(f).sent) /\ Alone(f) \in Parcels
      BY <3>1, <3>2, ParcelTypes DEF FramesBound
    <3>4. InboxBound(c, s, w, inbox')
      BY <1>0, <3>2, <3>3, SentBound
    <3>5. QED
      BY <1>0, <2>1, <3>4, RouteFrame
  <2>4. ASSUME NEW other \in Ids, known[other] # None,
               SentPair(f, Message(known[other], other, body))
        PROVE  RouteInv'
    <3> DEFINE g == Message(known[other], other, body)
    <3>1. /\ f \in Messages /\ Bound(c, s, w, f.headers[2][2], f.headers[1][2])
          /\ g \in Messages /\ Bound(c, s, w, g.headers[2][2], g.headers[1][2])
      BY <2>1, <2>2, <2>4
    <3>2. inbox' = Append(inbox, Pair(f, g)) /\ Pair(f, g).sent = <<f, g>>
      BY <2>4 DEF SentPair, Sent, Pair
    <3> HIDE DEF f, g
    <3>3. FramesBound(c, s, w, Pair(f, g).sent) /\ Pair(f, g) \in Parcels
      BY <3>1, <3>2, ParcelTypes DEF FramesBound
    <3>4. InboxBound(c, s, w, inbox')
      BY <1>0, <3>2, <3>3, SentBound
    <3>5. QED
      BY <1>0, <2>1, <3>4, RouteFrame
  <2>5. QED
    BY <1>14, <2>3, <2>4 DEF ServerMessages
<1>15. CASE ServerBeats
  <2>1. /\ inbox' = Append(inbox, Beat) /\ Beat.sent = <<>>
        /\ UNCHANGED <<counter, subscriptions, supplied, wire, known, frames>>
    BY <1>15 DEF ServerBeats, Sent, Beat, client
  <2>2. FramesBound(c, s, w, Beat.sent) /\ Beat \in Parcels
    BY <2>1, ParcelTypes DEF FramesBound
  <2>3. InboxBound(c, s, w, inbox')
    BY <1>0, <2>1, <2>2, SentBound
  <2>4. QED
    BY <1>0, <2>1, <2>3, RouteFrame
<1>16. CASE ServerRefuses
  <2> DEFINE f == Refusal
  <2>1. /\ inbox' = Append(inbox, Alone(f)) /\ Alone(f).sent = <<f>>
        /\ UNCHANGED <<counter, subscriptions, supplied, wire, known, frames>>
    BY <1>16 DEF ServerRefuses, SentAlone, Sent, Alone, client
  <2>2. f \in Sendable /\ f.command = "ERROR" /\ Alone(f) \in Parcels
    BY ParcelTypes DEF Refusal, Frame
  <2> HIDE DEF f
  <2>3. FramesBound(c, s, w, Alone(f).sent)
    BY <2>1, <2>2 DEF FramesBound
  <2>4. InboxBound(c, s, w, inbox')
    BY <1>0, <2>1, <2>2, <2>3, SentBound
  <2>5. QED
    BY <1>0, <2>1, <2>4, RouteFrame
<1>17. CASE UNCHANGED vars
  BY <1>17, <1>a DEF vars, client, server
<1>18. QED
  BY <1>1, <1>2, <1>3, <1>4, <1>5, <1>6, <1>7, <1>8, <1>9, <1>10, <1>11, <1>12, <1>13,
     <1>14, <1>15, <1>16, <1>17 DEF Next, Handle

-----------------------------------------------------------------------------
(* The theorems.                                                           *)

LEMMA ClientStarts == Init => ClientInv
<1> SUFFICES ASSUME Init PROVE ClientInv
  OBVIOUS
<1>1. ClientTypes
  <2>1. 0 \in 0..MaxIds /\ 0 \in 0..MaxSilence
    BY StompAssumption
  <2>2. <<>> \in Seq(Readable)
    OBVIOUS
  <2>3. [id \in Ids |-> None] \in [Ids -> Destinations \cup {None}]
    OBVIOUS
  <2>4. QED
    BY <2>1, <2>2, <2>3 DEF Init, Sock!Init, ClientTypes
<1>2. ServerTypes
  BY StompAssumption DEF Init, Sock!Init, ServerTypes
<1>3. LossInv
  BY DEF Init, Sock!Init, LossInv, ConnectedAlone, LossTold
<1>4. RouteInv
  BY DEF Init, RouteInv, OrdersBound, KnownBound, InboxBound, FramesBound
<1>5. QED
  BY <1>1, <1>2, <1>3, <1>4 DEF ClientInv

LEMMA ClientInvariant == Spec => []ClientInv
<1>1. ClientInv /\ [Next]_vars => ClientInv'
  BY ClientTypesKept, ServerTypesKept, LossKept, RouteKept DEF ClientInv
<1>2. QED
  BY <1>1, ClientStarts, PTL DEF Spec

\* The fields of the client, what it is sent and what it sends stay of their types, and
\* the server never sends more than its bound lets it.
THEOREM ClientTypesHold == Spec => []TypeOK
<1>1. ClientInv => TypeOK
  <2> SUFFICES ASSUME ClientInv PROVE TypeOK
    OBVIOUS
  <2>1. ClientTypes /\ ServerTypes /\ LossInv
    BY DEF ClientInv
  <2>2. closes \in {0, 1} /\ lost \in {0, 1}
    BY <2>1 DEF LossInv
  <2>3. messages \in 0..MaxData
    <3>1. Len(inbox) \in Nat /\ messages \in Nat /\ messages + Len(inbox) = sends
          /\ sends \in 0..MaxData /\ MaxData \in Nat
      BY <2>1, StompAssumption DEF ServerTypes
    <3>2. QED
      BY <3>1
  <2>4. \A n \in DOMAIN frames : frames[n].command \in {"CONNECTED", "MESSAGE", "ERROR"}
    BY <2>1, ReadableFacts DEF ClientTypes, Commands
  <2>5. \A n \in DOMAIN wire : wire[n].id \in Ids \cup {None}
    BY <2>1, OrderFacts DEF ServerTypes
  <2>6. QED
    BY <2>1, <2>2, <2>3, <2>4, <2>5 DEF TypeOK, ClientTypes, ServerTypes
<1>2. QED
  BY <1>1, ClientInvariant, PTL

\* Whatever the server has sent, bodies with empty lines or characters longer than a byte
\* and two frames with heartbeats behind them too, the client reads frame by frame.
THEOREM FramesAreRead == Spec => []FramesIntact
<1>1. ClientInv => FramesIntact
  <2> SUFFICES ASSUME ClientInv, NEW n \in DOMAIN inbox, inbox[n].data # <<LF>>
               PROVE  Unmarshall(inbox[n].data)
                        = [k \in DOMAIN inbox[n].sent |-> AsRead(inbox[n].sent[k])]
    BY DEF FramesIntact
  <2>1. inbox[n] \in Parcels
    BY DEF ClientInv, ServerTypes
  <2>2. inbox[n] # Beat
    BY DEF Beat
  <2>3. QED
    BY <2>1, <2>2, ParcelRead
<1>2. QED
  BY <1>1, ClientInvariant, PTL

\* A message reaches the callback that was registered for its destination, or the one of
\* onreceive, or nobody, for any order of subscribing and unsubscribing while messages
\* are on their way - unless its subscription has an id that the program once gave.
THEOREM MessagesFindTheirOwn == Spec => []RoutedRight
<1>1. ClientInv => RoutedRight
  <2> SUFFICES ASSUME ClientInv, NEW n \in DOMAIN frames, frames[n].command = "MESSAGE"
               PROVE  \/ Receiver(frames[n])
                           \in {OnReceive, Value(frames[n].headers, "destination")}
                      \/ Value(frames[n].headers, "subscription") \in supplied
    BY DEF RoutedRight
  <2>1. /\ Value(frames[n].headers, "destination") = frames[n].headers[1][2]
        /\ Value(frames[n].headers, "subscription") = frames[n].headers[2][2]
    <3>1. frames[n] \in Readable
      BY DEF ClientInv, ClientTypes
    <3>2. QED
      BY <3>1, ReadableFacts
  <2>2. Bound(counter, subscriptions, supplied, frames[n].headers[2][2],
              frames[n].headers[1][2])
    BY DEF ClientInv, RouteInv, FramesBound
  <2>3. QED
    BY <2>1, <2>2 DEF Bound, Receiver
<1>2. QED
  BY <1>1, ClientInvariant, PTL

\* The program learns of the end of its connection once unless it has ended it itself, and
\* the client is cleaned up from then on.
THEOREM LossIsTold == Spec => []LossTold
<1>1. ClientInv => LossTold
  BY DEF ClientInv, LossInv
<1>2. QED
  BY <1>1, ClientInvariant, PTL

=============================================================================
