---------------------- MODULE StockMarketServiceProofs ----------------------
(***************************************************************************)
(* Proofs about StockMarketService, for every set of instruments, start    *)
(* prices, periods and random differences.                                 *)
(***************************************************************************)
EXTENDS StockMarketService, TLAPS

-----------------------------------------------------------------------------
(* Types.                                                                  *)

\* Beyond the types: while a jump stands there is room to take it back, a method
\* that is not sending has no message, and a time is never ahead of the changes.
Shape ==
  /\ \A i \in Instruments : ~Resting(i) => changes[i] < MaxChanges
  /\ \A i \in Instruments : step[i] # "send" => message[i] = Unsent
  /\ \A i \in Instruments : step[i] # "wait" => counter[i] \in {Period[i], Period[i] + 1}
  /\ \A i \in Instruments : updateTime[i] <= changes[i]
  /\ \A i, j \in Instruments : message[i][j] # None => message[i][j] <= changes[j]

TypeInv == TypeOK /\ Shape

LEMMA TypeInit == Init => TypeInv
  BY ServiceAssumption
  DEF Init, TypeInv, TypeOK, Shape, Resting, Diffs, Unread, Unsent

LEMMA TypeStep == TypeInv /\ [Next]_vars => TypeInv'
<1> SUFFICES ASSUME TypeInv, [Next]_vars PROVE TypeInv'
  OBVIOUS
<1> USE ServiceAssumption DEF TypeInv, TypeOK, Shape, ticker, endpoint
<1>0. \A i \in Instruments : Period[i] \in Nat /\ Period[i] > 0
  OBVIOUS
<1>1. ASSUME NEW i \in Instruments, Count(i) PROVE TypeInv'
  <2>1. /\ counter[i] \in Nat /\ counter[i] < Period[i]
        /\ counter' = [counter EXCEPT ![i] = counter[i] + 1]
        /\ step[i] = "wait"
    <3>1. /\ step[i] = "wait" /\ counter[i] # Period[i] /\ counter[i] # Period[i] + 1
          /\ counter' = [counter EXCEPT ![i] = counter[i] + 1]
      BY <1>1 DEF Count, NextCount
    <3>2. counter[i] \in Nat /\ counter[i] <= Period[i] + 1
      OBVIOUS
    <3>3. counter[i] < Period[i]
      <4>1. \A c, p \in Nat : c <= p + 1 /\ c # p /\ c # p + 1 => c < p
        OBVIOUS
      <4>2. Period[i] \in Nat
        BY <1>0
      <4>3. QED
        BY <3>1, <3>2, <4>1, <4>2
    <3>4. QED
      BY <3>1, <3>2, <3>3
  <2>2. counter' \in [Instruments -> Nat] /\ counter'[i] <= Period[i] + 1
    BY <1>0, <2>1
  <2>3. \A j \in Instruments : counter'[j] <= Period[j] + 1
    BY <2>1, <2>2
  <2>4. Resting(i)'
    BY <1>0, <1>1, <2>1 DEF Count, Resting
  <2>5. TypeOK'
    BY <1>1, <2>2, <2>3 DEF Count
  <2>6. Shape'
    BY <1>1, <2>1, <2>4 DEF Count, Resting
  <2>7. QED
    BY <2>5, <2>6
<1>2. ASSUME NEW i \in Instruments, NEW diff \in Diffs, Jump(i, diff) PROVE TypeInv'
  <2>1. Raised(value[i], diff) \in Int
    BY DEF Raised, Diffs
  <2>2. QED
    BY <1>2, <2>1 DEF Jump, SetValue, Resting
<1>3. ASSUME NEW i \in Instruments, TakeBack(i) PROVE TypeInv'
  <2>1. Lowered(value[i], difference[i]) \in Int
    BY DEF Lowered, Diffs
  <2>2. changes[i] < MaxChanges /\ Resting(i)'
    BY <1>0, <1>3 DEF TakeBack, SetValue, Resting
  <2>3. TypeOK'
    BY <1>3, <2>1, <2>2 DEF TakeBack, SetValue
  <2>4. Shape'
    BY <1>3, <2>2 DEF TakeBack, SetValue, Resting
  <2>5. QED
    BY <2>3, <2>4
<1>4. ASSUME NEW i \in Instruments, Stamp(i) PROVE TypeInv'
  BY <1>4 DEF Stamp, Resting
<1>5. ASSUME NEW i \in Instruments, NEW j \in Instruments, Serialize(i, j)
      PROVE  TypeInv'
  BY <1>5 DEF Serialize, Seen, Resting
<1>6. ASSUME NEW i \in Instruments, Send(i) PROVE TypeInv'
  <2>1. /\ counter[i] \in {Period[i], Period[i] + 1} /\ step[i] = "send"
        /\ counter' = [counter EXCEPT ![i] =
                         IF counter[i] = Period[i] + 1 THEN 1 ELSE counter[i] + 1]
        /\ step' = [step EXCEPT ![i] = "wait"]
        /\ message' = [message EXCEPT ![i] = Unsent]
        /\ changes' = changes /\ updateTime' = updateTime
    BY <1>6 DEF Send, NextCount
  <2>2. /\ counter' \in [Instruments -> Nat]
        /\ \A j \in Instruments : counter'[j] <= Period[j] + 1
    BY <1>0, <2>1
  <2>3. \A j \in Instruments : message[i][j] \in Nat /\ message[i][j] <= MaxChanges
    BY <1>6 DEF Send
  <2>4. announced' \in [Instruments -> 0..MaxChanges]
    BY <1>6, <2>3 DEF Send
  <2>5. \A j \in Instruments : Resting(j)' = Resting(j)
    BY <1>0, <2>1 DEF Resting
  <2>6. TypeOK'
    BY <1>6, <2>2, <2>4 DEF Send, Unsent
  <2>7. Shape'
    BY <2>1, <2>5 DEF Unsent
  <2>8. QED
    BY <2>6, <2>7
<1>7. ASSUME NEW r \in Requests, Endpoint(r) PROVE TypeInv'
  <2>1. UNCHANGED <<ticker, announced>>
    BY <1>7 DEF Endpoint, Ask, ReadTime, ReadValue
  <2>2. /\ asked' \in [Requests -> Instruments \cup {None}]
        /\ answer' \in [Requests -> [change : Nat \cup {None}, time : Nat \cup {None}]]
    <3>1. CASE \E i \in Instruments : Ask(r, i)
      BY <3>1 DEF Ask
    <3>2. CASE ReadTime(r)
      <4>1. updateTime[asked[r]] \in Nat
        BY <3>2 DEF ReadTime
      <4>2. QED
        BY <3>2, <4>1 DEF ReadTime
    <3>3. CASE ReadValue(r)
      <4>1. changes[asked[r]] \in Nat
        BY <3>3 DEF ReadValue
      <4>2. QED
        BY <3>3, <4>1 DEF ReadValue
    <3>4. QED
      BY <1>7, <3>1, <3>2, <3>3 DEF Endpoint
  <2>3. QED
    BY <2>1, <2>2 DEF Resting
<1>8. CASE UNCHANGED vars
  BY <1>8 DEF vars, Resting
<1>9. QED
  BY <1>1, <1>2, <1>3, <1>4, <1>5, <1>6, <1>7, <1>8 DEF Next, Run

LEMMA TypeInvariance == Spec => []TypeInv
  BY TypeInit, TypeStep, PTL DEF Spec

\* Type correctness of the service, for every period and every list of differences: a
\* counter never passes its period by more than one, and a message in the making holds
\* only prices that exist.
THEOREM ServiceTypes == Spec => []TypeOK
<1>1. TypeInv => TypeOK
  BY DEF TypeInv
<1>2. QED
  BY <1>1, TypeInvariance, PTL

-----------------------------------------------------------------------------
(* Prices.                                                                 *)

\* Where the price will be once the jump that stands is taken away.
Rest(i) == IF Resting(i) THEN value[i] ELSE value[i] - difference[i]

\* The inductive invariant: what holds of a price at rest holds of its Rest, and
\* that much is known in the middle of a jump.
PriceInv ==
  \A i \in Instruments :
    /\ value[i] >= 0
    /\ Base[i] >= MaxDiff => Rest(i) = Base[i]
    /\ Base[i] < MaxDiff => Rest(i) >= Base[i] /\ Rest(i) < 2 * MaxDiff

\* A price that nothing is done to.
LEMMA PriceFrame ==
  ASSUME PriceInv,
         \A i \in Instruments : /\ value'[i] = value[i]
                                /\ difference'[i] = difference[i]
                                /\ Resting(i)' = Resting(i)
  PROVE  PriceInv'
  BY DEF PriceInv, Rest

LEMMA PriceStep == TypeInv /\ PriceInv /\ [Next]_vars => PriceInv'
<1> SUFFICES ASSUME TypeInv, PriceInv, [Next]_vars PROVE PriceInv'
  OBVIOUS
<1> USE ServiceAssumption DEF TypeInv, TypeOK, Shape, ticker, endpoint
<1>1. ASSUME NEW i \in Instruments, Count(i) PROVE PriceInv'
  <2>1. \A j \in Instruments : Resting(j)' = Resting(j)
    <3>1. /\ step[i] = "wait" /\ counter[i] # Period[i] /\ counter[i] # Period[i] + 1
          /\ counter' = [counter EXCEPT ![i] = counter[i] + 1] /\ step' = step
      BY <1>1 DEF Count, NextCount
    <3>2. counter[i] \in Nat /\ counter[i] <= Period[i] + 1 /\ Period[i] \in Nat
      OBVIOUS
    <3>3. \A c, p \in Nat : c <= p + 1 /\ c # p /\ c # p + 1 => c < p
      OBVIOUS
    <3>4. counter[i] < Period[i]
      BY <3>1, <3>2, <3>3
    <3>5. Resting(i)' = Resting(i)
      BY <3>1, <3>2, <3>4 DEF Resting
    <3>6. QED
      BY <3>1, <3>5 DEF Resting
  <2>2. QED
    BY <1>1, <2>1, PriceFrame DEF Count
<1>2. ASSUME NEW i \in Instruments, NEW diff \in Diffs, Jump(i, diff) PROVE PriceInv'
  <2>1. /\ Resting(i) /\ ~Resting(i)'
        /\ value'[i] = Raised(value[i], diff) /\ difference'[i] = diff
    BY <1>2 DEF Jump, SetValue, Resting
  <2>2. /\ diff \in Int /\ -MaxDiff <= diff /\ diff <= MaxDiff
        /\ value[i] \in Int /\ Base[i] \in Nat /\ MaxDiff \in Nat
    BY DEF Diffs
  <2>3. /\ value'[i] >= 0
        /\ Base[i] >= MaxDiff => Rest(i)' = Base[i]
        /\ Base[i] < MaxDiff => Rest(i)' >= Base[i] /\ Rest(i)' < 2 * MaxDiff
    BY <2>1, <2>2 DEF PriceInv, Rest, Raised
  <2>4. \A j \in Instruments \ {i} :
          value'[j] = value[j] /\ difference'[j] = difference[j]
            /\ Resting(j)' = Resting(j)
    BY <1>2 DEF Jump, SetValue, Resting
  <2>5. QED
    BY <2>3, <2>4 DEF PriceInv, Rest
<1>3. ASSUME NEW i \in Instruments, TakeBack(i) PROVE PriceInv'
  <2>1. /\ ~Resting(i) /\ Resting(i)'
        /\ value'[i] = value[i] - difference[i]
    BY <1>3 DEF TakeBack, SetValue, Resting, Lowered
  <2>2. /\ value[i] \in Int /\ difference[i] \in Int
        /\ Base[i] \in Nat /\ MaxDiff \in Nat
    BY DEF Diffs
  <2>3. /\ value'[i] >= 0
        /\ Base[i] >= MaxDiff => Rest(i)' = Base[i]
        /\ Base[i] < MaxDiff => Rest(i)' >= Base[i] /\ Rest(i)' < 2 * MaxDiff
    BY <2>1, <2>2 DEF PriceInv, Rest
  <2>4. \A j \in Instruments \ {i} :
          value'[j] = value[j] /\ difference'[j] = difference[j]
            /\ Resting(j)' = Resting(j)
    BY <1>3 DEF TakeBack, SetValue, Resting
  <2>5. QED
    BY <2>3, <2>4 DEF PriceInv, Rest
<1>4. ASSUME NEW i \in Instruments, Stamp(i) PROVE PriceInv'
  BY <1>4, PriceFrame DEF Stamp, Resting
<1>5. ASSUME NEW i \in Instruments, NEW j \in Instruments, Serialize(i, j)
      PROVE  PriceInv'
  BY <1>5, PriceFrame DEF Serialize, Resting
<1>6. ASSUME NEW i \in Instruments, Send(i) PROVE PriceInv'
  <2>1. \A j \in Instruments : Resting(j)' = Resting(j)
    <3>1. /\ counter[i] \in {Period[i], Period[i] + 1} /\ step[i] = "send"
          /\ counter' = [counter EXCEPT ![i] =
                           IF counter[i] = Period[i] + 1 THEN 1 ELSE counter[i] + 1]
          /\ step' = [step EXCEPT ![i] = "wait"]
      BY <1>6 DEF Send, NextCount
    <3>2. Period[i] \in Nat /\ Period[i] > 0
      OBVIOUS
    <3>3. QED
      BY <3>1, <3>2 DEF Resting
  <2>2. QED
    BY <1>6, <2>1, PriceFrame DEF Send
<1>7. ASSUME NEW r \in Requests, Endpoint(r) PROVE PriceInv'
  BY <1>7, PriceFrame DEF Endpoint, Ask, ReadTime, ReadValue, Resting
<1>8. CASE UNCHANGED vars
  BY <1>8, PriceFrame DEF vars, Resting
<1>9. QED
  BY <1>1, <1>2, <1>3, <1>4, <1>5, <1>6, <1>7, <1>8 DEF Next, Run

LEMMA PriceInvariance == Spec => []PriceInv
<1>1. Init => PriceInv
  <2> SUFFICES ASSUME Init, NEW i \in Instruments
               PROVE  /\ value[i] >= 0
                      /\ Base[i] >= MaxDiff => Rest(i) = Base[i]
                      /\ Base[i] < MaxDiff =>
                           Rest(i) >= Base[i] /\ Rest(i) < 2 * MaxDiff
    BY DEF PriceInv
  <2>1. /\ Base[i] \in Nat /\ MaxDiff \in Nat /\ Period[i] \in Nat \ {0}
        /\ value[i] = Base[i] /\ counter[i] = 0
    BY ServiceAssumption DEF Init
  <2>2. Resting(i)
    BY <2>1 DEF Resting
  <2>3. QED
    BY <2>1, <2>2 DEF Rest
<1>2. QED
  BY <1>1, PriceStep, TypeInvariance, PTL DEF Spec

\* Prices that start at the largest difference or above do not drift; those that start
\* below it drift no further than twice that difference, and no price becomes negative,
\* although a difference that is refused is taken away later.
THEOREM PricesReturn == Spec => []BackToBase
<1>1. PriceInv => BackToBase
  <2> SUFFICES ASSUME PriceInv, NEW i \in Instruments
               PROVE  /\ value[i] >= 0
                      /\ Resting(i) =>
                           IF Base[i] >= MaxDiff THEN value[i] = Base[i]
                           ELSE value[i] >= Base[i] /\ value[i] < 2 * MaxDiff
    BY DEF BackToBase
  <2>1. Base[i] \in Nat /\ MaxDiff \in Nat
    BY ServiceAssumption
  <2> QED
    BY <2>1 DEF PriceInv, Rest
<1>2. QED
  BY <1>1, PriceInvariance, PTL

-----------------------------------------------------------------------------
(* Readers.                                                                *)

\* The inductive invariant: a time that has been read belongs to a change that
\* has been made, a broadcast of i carries the change that i made, and what is
\* announced has been made.
ReadersInv ==
  /\ \A r \in Requests :
       /\ answer[r].time # None => asked[r] # None
       /\ answer[r].time # None => answer[r].time <= changes[asked[r]]
       /\ answer[r].change # None =>
            answer[r].time # None /\ answer[r].change >= answer[r].time
  /\ \A i \in Instruments :
       /\ announced[i] <= changes[i]
       /\ step[i] = "wait" => announced[i] = changes[i]
       /\ message[i][i] \in {None, changes[i]}

LEMMA LargerOf ==
  ASSUME NEW m \in Nat, NEW n \in Nat, n <= m
  PROVE  (IF m > n THEN m ELSE n) = m
  OBVIOUS

LEMMA ReadersStep == TypeInv /\ ReadersInv /\ [Next]_vars => ReadersInv'
<1> SUFFICES ASSUME TypeInv, ReadersInv, [Next]_vars PROVE ReadersInv'
  OBVIOUS
<1> USE ServiceAssumption DEF TypeInv, TypeOK, Shape, ReadersInv, ticker, endpoint
<1>1. ASSUME NEW i \in Instruments, Count(i) PROVE ReadersInv'
  BY <1>1 DEF Count
<1>2. ASSUME NEW i \in Instruments, NEW diff \in Diffs, Jump(i, diff)
      PROVE  ReadersInv'
  <2>1. /\ changes' = [changes EXCEPT ![i] = changes[i] + 1]
        /\ step' = [step EXCEPT ![i] = "stamp"]
        /\ message[i] = Unsent
        /\ UNCHANGED <<message, announced, asked, answer>>
    BY <1>2 DEF Jump, SetValue
  <2>2. QED
    BY <2>1 DEF Unsent
<1>3. ASSUME NEW i \in Instruments, TakeBack(i) PROVE ReadersInv'
  <2>1. /\ changes' = [changes EXCEPT ![i] = changes[i] + 1]
        /\ step' = [step EXCEPT ![i] = "stamp"]
        /\ message[i] = Unsent
        /\ UNCHANGED <<message, announced, asked, answer>>
    BY <1>3 DEF TakeBack, SetValue
  <2>2. QED
    BY <2>1 DEF Unsent
<1>4. ASSUME NEW i \in Instruments, Stamp(i) PROVE ReadersInv'
  BY <1>4 DEF Stamp
<1>5. ASSUME NEW i \in Instruments, NEW j \in Instruments, Serialize(i, j)
      PROVE  ReadersInv'
  BY <1>5 DEF Serialize, Seen
<1>6. ASSUME NEW i \in Instruments, Send(i) PROVE ReadersInv'
  <2>1. /\ step[i] = "send" /\ message[i][i] = changes[i]
        /\ step' = [step EXCEPT ![i] = "wait"]
        /\ message' = [message EXCEPT ![i] = Unsent]
        /\ UNCHANGED <<changes, asked, answer>>
    BY <1>6 DEF Send
  <2>2. \A j \in Instruments :
          /\ message[i][j] \in Nat /\ message[i][j] <= changes[j]
          /\ announced'[j] = IF message[i][j] > announced[j]
                             THEN message[i][j] ELSE announced[j]
    BY <1>6 DEF Send
  <2>3. \A j \in Instruments :
          /\ announced[j] \in Nat /\ changes[j] \in Nat
          /\ announced[j] <= changes[j]
    OBVIOUS
  <2>4. \A j \in Instruments :
          /\ announced'[j] <= changes[j]
          /\ announced[j] = changes[j] => announced'[j] = changes[j]
    BY <2>2, <2>3
  <2>5. announced'[i] = changes[i]
    <3>1. announced'[i] = IF changes[i] > announced[i] THEN changes[i]
                          ELSE announced[i]
      BY <2>1, <2>2
    <3>2. changes[i] \in Nat /\ announced[i] \in Nat /\ announced[i] <= changes[i]
      BY <2>3
    <3>3. QED
      BY <3>1, <3>2, LargerOf
  <2>6. QED
    BY <2>1, <2>4, <2>5 DEF Unsent
<1>7. ASSUME NEW r \in Requests, Endpoint(r) PROVE ReadersInv'
  <2>1. CASE \E i \in Instruments : Ask(r, i)
    BY <2>1 DEF Ask
  <2>2. CASE ReadTime(r)
    BY <2>2 DEF ReadTime, NextRead
  <2>3. CASE ReadValue(r)
    BY <2>3 DEF ReadValue, NextRead
  <2>4. QED
    BY <1>7, <2>1, <2>2, <2>3 DEF Endpoint
<1>8. CASE UNCHANGED vars
  BY <1>8 DEF vars
<1>9. QED
  BY <1>1, <1>2, <1>3, <1>4, <1>5, <1>6, <1>7, <1>8 DEF Next, Run

LEMMA ReadersInvariance == Spec => []ReadersInv
<1>1. Init => ReadersInv
  BY ServiceAssumption DEF Init, ReadersInv, Unread, Unsent
<1>2. QED
  BY <1>1, ReadersStep, TypeInvariance, PTL DEF Spec

\* Reading the time before the value is what makes an answer at least as new as
\* it says it is.
THEOREM AnswersFresh == Spec => []AnswerFresh
<1>1. ReadersInv => AnswerFresh
  BY DEF ReadersInv, AnswerFresh, NextRead
<1>2. QED
  BY <1>1, ReadersInvariance, PTL

\* No change is lost between the broadcasts of several threads.
THEOREM ChangesAnnounced == Spec => []ChangeAnnounced
<1>1. ReadersInv => ChangeAnnounced
  BY DEF ReadersInv, ChangeAnnounced
<1>2. QED
  BY <1>1, ReadersInvariance, PTL

=============================================================================
