---------------------------- MODULE UsersProofs -----------------------------
(* Proofs about Users: what the unique key is good for, and how far the      *)
(* testing tool may go by the numbers it gives its users.                    *)
EXTENDS Users, TLAPS

\* The inductive invariant.  Rows have ids that were drawn; a request that is
\* about to commit has drawn an id nobody else has; the unique key keeps logins
\* apart; an answer is a row.
LoginInv ==
  /\ TypeOK
  /\ \A id \in Ids : users[id] # None => id < nextId
  /\ \A c \in Calls : phase[c] # "unsent" => login[c] \in Logins
  /\ \A c \in Calls : phase[c] \in {"unsent", "find", "draw"} => user[c] = None
  /\ \A c \in Calls : phase[c] = "commit" =>
       user[c] \in Ids /\ user[c] < nextId /\ users[user[c]] = None
  /\ \A c, d \in Calls :
       phase[c] = "commit" /\ phase[d] = "commit" /\ user[c] = user[d] => c = d
  /\ \A i, j \in Ids : users[i] # None /\ users[i] = users[j] => i = j
  /\ \A c \in Calls : phase[c] = "answered" =>
       user[c] \in Ids /\ users[user[c]] = login[c]

LEMMA LoginInit == Init => LoginInv
<1> SUFFICES ASSUME Init PROVE LoginInv
  OBVIOUS
<1>1. TypeOK
  <2>1. nextId \in 1..(MaxId + 1)
    BY UsersAssumption DEF Init
  <2> QED
    BY <2>1 DEF Init, TypeOK
<1>2. /\ \A id \in Ids : users[id] = None
      /\ \A c \in Calls : phase[c] = "unsent" /\ user[c] = None
  BY DEF Init
<1> QED
  BY <1>1, <1>2 DEF LoginInv

LEMMA LoginStep == LoginInv /\ [Next]_vars => LoginInv'
<1> SUFFICES ASSUME LoginInv, [Next]_vars PROVE LoginInv'
  OBVIOUS
<1> USE UsersAssumption DEF LoginInv, TypeOK, Handling, Settled, Goto
<1>1. ASSUME NEW c \in Calls, NEW l \in Logins, Send(c, l) PROVE LoginInv'
  BY <1>1 DEF Send, tool
<1>3. ASSUME NEW t \in Tools, NEW i \in 1..K, ToolLogin(t, i) PROVE LoginInv'
  <2>1. <<t, i>> \in Calls /\ i \in Logins
    BY DEF Calls, ToolCalls, Logins
  <2> QED
    BY <1>1, <1>3, <2>1 DEF ToolLogin
<1>4. ASSUME NEW t \in Tools, NEW i \in 1..K, ToolSave(t, i) PROVE LoginInv'
  BY <1>4 DEF ToolSave, request, ToolCalls
<1>5. ASSUME NEW c \in Calls, Find(c) PROVE LoginInv'
  <2>1. login[c] \in Logins
    BY <1>5 DEF Find
  <2>2. CASE RowsOf(login[c]) = {} /\ Goto(c, "draw") /\ UNCHANGED user
    BY <1>5, <2>2 DEF Find, tool
  <2>3. ASSUME NEW id \in RowsOf(login[c]),
               user' = [user EXCEPT ![c] = id], Goto(c, "answered")
        PROVE  LoginInv'
    <3>1. id \in Ids /\ users[id] = login[c]
      BY DEF RowsOf
    <3> QED
      BY <1>5, <2>3, <3>1 DEF Find, tool
  <2> QED
    BY <1>5, <2>2, <2>3 DEF Find
<1>6. ASSUME NEW c \in Calls, DrawId(c) PROVE LoginInv'
  <2>1. nextId \in Ids /\ users[nextId] = None
    BY <1>6 DEF DrawId, Ids
  <2> QED
    BY <1>6, <2>1 DEF DrawId, tool, Ids
<1>7. ASSUME NEW c \in Calls, Insert(c) PROVE LoginInv'
  <2>1. /\ user[c] \in Ids /\ user[c] < nextId /\ users[user[c]] = None
        /\ login[c] \in Logins
    BY <1>7 DEF Insert
  <2>2. \A id \in Ids : users[id] # login[c]
    BY <1>7 DEF Insert, Taken
  <2>3. \A id \in Ids : users'[id] = IF id = user[c] THEN login[c] ELSE users[id]
    BY <1>7, <2>1 DEF Insert
  <2> QED
    BY <1>7, <2>1, <2>2, <2>3 DEF Insert, tool
<1>8. ASSUME NEW c \in Calls, Refuse(c) PROVE LoginInv'
  BY <1>8 DEF Refuse, Taken, tool
<1>9. ASSUME NEW c \in Calls, Fail(c) PROVE LoginInv'
  BY <1>9 DEF Fail, tool
<1>10. ASSUME NEW t \in Tools, NEW i \in 1..K, HandleSave(t, i) PROVE LoginInv'
  <2>1. i \in Ids /\ <<t, i>> \in ToolCalls
    BY DEF Ids, ToolCalls
  <2> QED
    BY <1>10, <2>1 DEF HandleSave, request
<1>11. CASE UNCHANGED vars
  BY <1>11 DEF vars, request, tool
<1> QED
  BY <1>1, <1>3, <1>4, <1>5, <1>6, <1>7, <1>8, <1>9, <1>10, <1>11
  DEF Next, Client, Server, GuestLogin, Calls

LEMMA LoginInvariance == Spec => []LoginInv
  BY LoginInit, LoginStep, PTL DEF Spec

\* Whatever is refused, fails or is left waiting, calls, rows and sessions keep their
\* shape, and a call only ever holds a row of the table.
THEOREM UserTypes == Spec => []TypeOK
<1>1. LoginInv => TypeOK
  BY DEF LoginInv
<1> QED
  BY <1>1, LoginInvariance, PTL

\* Sessions that log in with one name share one user, whoever came first.
THEOREM AnswersAgreeAlways == Spec => []AnswersAgree
<1>1. LoginInv => AnswersAgree
  BY UsersAssumption DEF LoginInv, TypeOK, AnswersAgree
<1> QED
  BY <1>1, LoginInvariance, PTL

-----------------------------------------------------------------------------
(* The testing tool, while all is calm.                                    *)

\* What has been disturbed once stays so.
LEMMA CalmBefore ==
  ASSUME LoginInv, [Next]_vars, Calm'
  PROVE  Calm
<1> USE DEF LoginInv, TypeOK, Goto, Calm, Calls, ToolCalls
<1>1. ASSUME NEW c \in Calls, NEW l \in Logins, Send(c, l) PROVE Calm
  BY <1>1 DEF Send, tool
<1>2. ASSUME NEW t \in Tools, NEW i \in 1..K, ToolLogin(t, i) PROVE Calm
  <2>1. <<t, i>> \in Calls /\ i \in Logins
    BY UsersAssumption DEF Logins
  <2> QED
    BY <1>1, <1>2, <2>1 DEF ToolLogin
<1>3. ASSUME NEW t \in Tools, NEW i \in 1..K, ToolSave(t, i) \/ HandleSave(t, i) PROVE Calm
  BY <1>3 DEF ToolSave, HandleSave, request
<1>4. ASSUME NEW c \in Calls,
             Find(c) \/ DrawId(c) \/ Insert(c) \/ Refuse(c) \/ Fail(c)
      PROVE  Calm
  <2>1. /\ UNCHANGED tool
        /\ phase[c] \notin {"unsent", "failed"}
        /\ \A d \in Calls : d # c => phase'[d] = phase[d] /\ user'[d] = user[d]
        /\ phase'[c] # "unsent"
    BY <1>4, UsersAssumption DEF Find, DrawId, Insert, Refuse, Fail
  <2> QED
    BY <2>1 DEF tool
<1>5. CASE UNCHANGED vars
  BY <1>5 DEF vars, request, tool
<1> QED
  BY <1>1, <1>2, <1>3, <1>4, <1>5 DEF Next, Client, Server, GuestLogin

\* While all is calm only the tool logs in, and only an insert fails.
LEMMA CalmCalls ==
  ASSUME LoginInv, Calm, Calm'
  PROVE  /\ \A c \in Guests, l \in Logins : ~GuestLogin(c, l)
         /\ \A c \in Calls : Find(c) \/ DrawId(c) \/ Insert(c) \/ Refuse(c) \/ Fail(c)
              => \E t \in Tools, i \in 1..K : c = <<t, i>>
         /\ \A c \in Calls : Fail(c) => phase[c] = "commit"
<1> USE DEF LoginInv, TypeOK, Goto, Calm, Calls, ToolCalls
<1>1. ASSUME NEW c \in Guests, NEW l \in Logins, GuestLogin(c, l) PROVE FALSE
  BY <1>1 DEF GuestLogin, Send
<1>2. ASSUME NEW c \in Calls, Find(c) \/ DrawId(c) \/ Insert(c) \/ Refuse(c) \/ Fail(c)
      PROVE  c \notin Guests
  BY <1>2, UsersAssumption DEF Find, DrawId, Insert, Refuse, Fail
<1>3. ASSUME NEW c \in Calls, Fail(c) PROVE phase[c] = "commit"
  <2>1. phase'[c] = "failed" /\ user'[c] = user[c] /\ phase[c] \in {"find", "draw", "commit"}
    BY <1>3, UsersAssumption DEF Fail
  <2> QED
    BY <2>1
<1> QED
  BY <1>1, <1>2, <1>3

\* The inductive invariant.  No login has a row with an id smaller than its
\* number: a login is sent when the one before it is settled, and whatever that one
\* came to, an id had been drawn for it, or for the row it found.
ShiftInv ==
  /\ \A id \in Ids : users[id] # None => users[id] <= id
  /\ \A t \in Tools, i \in 1..K :
       LET c == <<t, i>>
       IN  /\ phase[c] # "unsent" => login[c] = i
           /\ saving[c] # "unsent" => phase[c] \in Settled
           /\ phase[c] \in {"find", "draw"} => i <= nextId
           /\ phase[c] \in {"commit"} \cup Settled => i < nextId
           /\ phase[c] = "commit" => i <= user[c]
           /\ saving[c] = "handled" => savedFor[c] \in {None} \cup 1..i

LEMMA ShiftInit == Init => ShiftInv
  BY UsersAssumption DEF Init, ShiftInv, Calls, ToolCalls, Settled

LEMMA ShiftStep ==
  ASSUME LoginInv, ShiftInv, [Next]_vars, Calm, Calm'
  PROVE  ShiftInv'
<1>0. /\ \A t \in Tools, i \in 1..K : <<t, i>> \in Calls /\ <<t, i>> \in ToolCalls
      /\ 1..K \subseteq Ids /\ 1..K \subseteq Int /\ nextId \in Int /\ Ids \subseteq Int
      /\ TypeOK /\ None \notin Logins /\ None \notin Ids
  BY UsersAssumption DEF Calls, ToolCalls, Ids, LoginInv, TypeOK
<1> USE <1>0 DEF Goto, Settled
<1>2. ASSUME NEW t \in Tools, NEW i \in 1..K, ToolLogin(t, i) PROVE ShiftInv'
  <2>1. \A s \in Tools, j \in 1..K :
          /\ phase'[<<s, j>>] = IF s = t /\ j = i THEN "find" ELSE phase[<<s, j>>]
          /\ login'[<<s, j>>] = IF s = t /\ j = i THEN i ELSE login[<<s, j>>]
    BY <1>2 DEF ToolLogin, Send, TypeOK
  <2>2. i <= nextId
    <3>1. CASE i = 1
      BY <3>1 DEF TypeOK
    <3>2. CASE i > 1
      <4>1. i - 1 \in 1..K /\ saving[<<t, i - 1>>] # "unsent"
        BY <1>2, <3>2, UsersAssumption DEF ToolLogin
      <4>2. i - 1 < nextId
        BY <4>1 DEF ShiftInv
      <4> QED
        BY <4>2
    <3> QED
      BY <3>1, <3>2
  <2>3. phase[<<t, i>>] = "unsent" /\ UNCHANGED <<users, nextId, user, tool>>
    BY <1>2 DEF ToolLogin, Send
  <2> QED
    BY <2>1, <2>2, <2>3 DEF ShiftInv, tool
<1>3. ASSUME NEW t \in Tools, NEW i \in 1..K, ToolSave(t, i) PROVE ShiftInv'
  <2>1. /\ phase[<<t, i>>] \in Settled
        /\ \A s \in Tools, j \in 1..K :
             saving'[<<s, j>>] = IF s = t /\ j = i THEN "sent" ELSE saving[<<s, j>>]
        /\ UNCHANGED <<users, nextId, request, savedFor>>
    BY <1>3 DEF ToolSave, Calm, TypeOK
  <2> QED
    BY <2>1 DEF ShiftInv, request
<1>4. ASSUME NEW t \in Tools, NEW i \in 1..K, HandleSave(t, i) PROVE ShiftInv'
  <2>1. users[i] \in {None} \cup 1..i
    BY DEF ShiftInv, TypeOK, Logins
  <2>2. /\ saving[<<t, i>>] = "sent"
        /\ \A s \in Tools, j \in 1..K :
             /\ saving'[<<s, j>>] = IF s = t /\ j = i THEN "handled" ELSE saving[<<s, j>>]
             /\ savedFor'[<<s, j>>] = IF s = t /\ j = i THEN users[i] ELSE savedFor[<<s, j>>]
        /\ UNCHANGED <<users, nextId, request, hasty>>
    BY <1>4 DEF HandleSave, TypeOK
  <2> QED
    BY <2>1, <2>2 DEF ShiftInv, request
<1>5. ASSUME NEW t \in Tools, NEW i \in 1..K, Find(<<t, i>>) PROVE ShiftInv'
  <2>1. phase[<<t, i>>] = "find" /\ login[<<t, i>>] = i /\ i <= nextId
    BY <1>5 DEF Find, ShiftInv
  <2>2. CASE RowsOf(i) = {}
    <3>1. \A s \in Tools, j \in 1..K :
            phase'[<<s, j>>] = IF s = t /\ j = i THEN "draw" ELSE phase[<<s, j>>]
      BY <1>5, <2>1, <2>2 DEF Find, TypeOK
    <3>2. UNCHANGED <<users, nextId, login, user, saving, savedFor>>
      BY <1>5, <2>1, <2>2 DEF Find, tool
    <3> QED
      BY <2>1, <3>1, <3>2 DEF ShiftInv
  <2>3. CASE RowsOf(i) # {}
    <3>1. PICK id \in RowsOf(i) : user' = [user EXCEPT ![<<t, i>>] = id]
                                  /\ phase' = [phase EXCEPT ![<<t, i>>] = "answered"]
      BY <1>5, <2>1, <2>3 DEF Find
    <3>2. i <= id /\ id < nextId
      <4>1. id \in Ids /\ users[id] = i
        BY DEF RowsOf
      <4>2. i # None
        BY UsersAssumption DEF Logins
      <4>3. users[id] <= id
        BY <4>1, <4>2 DEF ShiftInv
      <4>4. id < nextId
        BY <4>1, <4>2 DEF LoginInv
      <4> QED
        BY <4>1, <4>3, <4>4
    <3>3. \A s \in Tools, j \in 1..K :
            /\ phase'[<<s, j>>] = IF s = t /\ j = i THEN "answered" ELSE phase[<<s, j>>]
            /\ <<s, j>> # <<t, i>> => user'[<<s, j>>] = user[<<s, j>>]
      BY <3>1 DEF TypeOK
    <3>4. UNCHANGED <<users, nextId, login, tool>> /\ id \in Int
      BY <1>5 DEF Find, RowsOf
    <3> QED
      BY <2>1, <3>2, <3>3, <3>4 DEF ShiftInv, tool
  <2> QED
    BY <2>2, <2>3
<1>6. ASSUME NEW t \in Tools, NEW i \in 1..K, DrawId(<<t, i>>) PROVE ShiftInv'
  <2>1. /\ i <= nextId /\ nextId' = nextId + 1
        /\ \A s \in Tools, j \in 1..K :
             /\ phase'[<<s, j>>] = IF s = t /\ j = i THEN "commit" ELSE phase[<<s, j>>]
             /\ user'[<<s, j>>] = IF s = t /\ j = i THEN nextId ELSE user[<<s, j>>]
        /\ phase[<<t, i>>] = "draw"
        /\ UNCHANGED <<users, login, tool>>
    BY <1>6 DEF DrawId, ShiftInv, TypeOK
  <2> QED
    BY <2>1 DEF ShiftInv, tool
<1>7. ASSUME NEW t \in Tools, NEW i \in 1..K, Insert(<<t, i>>) PROVE ShiftInv'
  <2>1. /\ phase[<<t, i>>] = "commit" /\ login[<<t, i>>] = i
        /\ i <= user[<<t, i>>] /\ i < nextId
        /\ user[<<t, i>>] \in Ids
    BY <1>7 DEF Insert, ShiftInv, LoginInv
  <2>2. /\ \A s \in Tools, j \in 1..K :
             phase'[<<s, j>>] = IF s = t /\ j = i THEN "answered" ELSE phase[<<s, j>>]
        /\ \A id \in Ids : users'[id] = IF id = user[<<t, i>>] THEN i ELSE users[id]
        /\ UNCHANGED <<nextId, login, user, tool>>
    BY <1>7, <2>1 DEF Insert, TypeOK
  <2>3. \A id \in Ids : users'[id] # None => users'[id] <= id
    BY <2>1, <2>2 DEF ShiftInv
  <2>4. UNCHANGED <<nextId, login, user, saving, savedFor>>
    BY <2>2 DEF tool
  <2> QED
    BY <2>1, <2>2, <2>3, <2>4 DEF ShiftInv
<1>8. ASSUME NEW t \in Tools, NEW i \in 1..K, Refuse(<<t, i>>) \/ Fail(<<t, i>>)
      PROVE  ShiftInv'
  <2>1. /\ phase[<<t, i>>] = "commit"
        /\ \A s \in Tools, j \in 1..K :
             \/ phase'[<<s, j>>] = phase[<<s, j>>]
             \/ <<s, j>> = <<t, i>> /\ phase'[<<s, j>>] \in {"refused", "failed"}
        /\ UNCHANGED <<users, nextId, login, user, tool>>
    BY <1>8, CalmCalls DEF Refuse, Fail, TypeOK
  <2> QED
    BY <2>1 DEF ShiftInv, tool
<1>9. CASE UNCHANGED vars
  BY <1>9 DEF vars, request, tool, ShiftInv
<1>10. CASE Next
  BY <1>2, <1>3, <1>4, <1>5, <1>6, <1>7, <1>8, <1>10, CalmCalls
  DEF Next, Client, Server
<1> QED
  BY <1>9, <1>10

LEMMA ShiftInvariance == Spec => [](Calm => ShiftInv)
<1>1. Init => (Calm => ShiftInv)
  BY ShiftInit
<1>2. LoginInv /\ (Calm => ShiftInv) /\ [Next]_vars => (Calm => ShiftInv)'
  BY ShiftStep, CalmBefore
<1> QED
  BY <1>1, <1>2, LoginInvariance, PTL DEF Spec

\* However many runs of the tool overlap, and whichever of their inserts are
\* refused or fail, none saves positions for a user of a higher number than it
\* means.
THEOREM SavesNeverReachLater == Spec => []SavesReachNoLaterUser
<1>1. (Calm => ShiftInv) => SavesReachNoLaterUser
  BY DEF ShiftInv, SavesReachNoLaterUser
<1> QED
  BY <1>1, ShiftInvariance, PTL

-----------------------------------------------------------------------------
(* Ids drawn in vain.                                                      *)

\* A login has come to nothing, or is bound to: two inserts of a login are under way,
\* or one although there is a row for it.
Lost == \E c \in Calls : phase[c] \in {"refused", "failed"}

Doomed ==
  \/ Lost
  \/ \E c \in Calls : phase[c] = "commit" /\ Taken(login[c])
  \/ \E c, d \in Calls :
       c # d /\ phase[c] = "commit" /\ phase[d] = "commit" /\ login[c] = login[d]

\* Every id drawn is accounted for, by a row or by an insert under way, unless a login
\* has been lost; and users are numbered as the tool numbers them unless one is
\* doomed.
VainInv ==
  /\ \A id \in Ids : id < nextId =>
       users[id] # None \/ (\E c \in Calls : phase[c] = "commit" /\ user[c] = id) \/ Lost
  /\ ~Doomed =>
       /\ \A id \in Ids : users[id] \in {None, id}
       /\ \A c \in Calls : phase[c] = "commit" => user[c] = login[c]
       /\ \A t \in Tools, i \in 1..K :
            saving[<<t, i>>] = "handled" => savedFor[<<t, i>>] = i

LEMMA VainInit == Init => VainInv
<1> SUFFICES ASSUME Init PROVE VainInv
  OBVIOUS
<1>1. \A id \in Ids : users[id] = None /\ ~(id < nextId)
  BY UsersAssumption DEF Init, Ids
<1>2. \A c \in Calls : phase[c] = "unsent"
  BY DEF Init
<1>3. \A t \in Tools, i \in 1..K : saving[<<t, i>>] = "unsent"
  BY DEF Init, ToolCalls
<1> QED
  BY <1>1, <1>2, <1>3 DEF VainInv

\* What is doomed is lost in the end.
LEMMA DoomedStays ==
  ASSUME LoginInv, Doomed, [Next]_vars
  PROVE  Doomed'
<1> USE DEF LoginInv, TypeOK, Goto
<1>1. ASSUME NEW c \in Calls, NEW l \in Logins, Send(c, l) PROVE Doomed'
  <2>1. /\ phase[c] = "unsent" /\ UNCHANGED users
        /\ \A d \in Calls : d # c => phase'[d] = phase[d] /\ login'[d] = login[d]
    BY <1>1 DEF Send
  <2> QED
    BY <2>1 DEF Doomed, Lost, Taken
<1>2. ASSUME NEW t \in Tools, NEW i \in 1..K, ToolLogin(t, i) PROVE Doomed'
  <2>1. <<t, i>> \in Calls /\ i \in Logins
    BY UsersAssumption DEF Calls, ToolCalls, Logins
  <2> QED
    BY <1>1, <1>2, <2>1 DEF ToolLogin
<1>3. ASSUME UNCHANGED <<users, request>> PROVE Doomed'
  BY <1>3 DEF Doomed, Lost, Taken, request
<1>4. ASSUME NEW t \in Tools, NEW i \in 1..K, ToolSave(t, i) \/ HandleSave(t, i)
      PROVE  Doomed'
  BY <1>3, <1>4 DEF ToolSave, HandleSave
<1>5. ASSUME NEW c \in Calls, Find(c) \/ DrawId(c) PROVE Doomed'
  <2>1. /\ phase[c] \in {"find", "draw"} /\ UNCHANGED <<users, login>>
        /\ \A d \in Calls : d # c => phase'[d] = phase[d]
    BY <1>5 DEF Find, DrawId
  <2> QED
    BY <2>1 DEF Doomed, Lost, Taken
<1>6. ASSUME NEW c \in Calls, Insert(c) PROVE Doomed'
  <2>1. /\ phase[c] = "commit" /\ UNCHANGED login /\ ~Taken(login[c])
        /\ \A d \in Calls : d # c => phase'[d] = phase[d]
        /\ user[c] \in Ids /\ users[user[c]] = None
        /\ \A id \in Ids : users'[id] = IF id = user[c] THEN login[c] ELSE users[id]
    BY <1>6 DEF Insert
  <2>2. \A l : Taken(l) /\ l # None => \E id \in Ids : users'[id] = l
    BY <2>1 DEF Taken
  <2>3. \E id \in Ids : users'[id] = login[c]
    BY <2>1
  <2>4. \A d \in Calls : phase[d] = "commit" => login[d] # None
    BY UsersAssumption
  <2>5. CASE Lost
    BY <2>1, <2>5 DEF Doomed, Lost
  <2>6. ASSUME NEW d \in Calls, phase[d] = "commit", Taken(login[d]) PROVE Doomed'
    <3>1. d # c
      BY <2>1, <2>6
    <3>2. phase'[d] = "commit" /\ \E id \in Ids : users'[id] = login'[d]
      BY <2>1, <2>2, <2>4, <2>6, <3>1
    <3> QED
      BY <3>2 DEF Doomed, Taken
  <2>7. ASSUME NEW d \in Calls, NEW e \in Calls, d # e,
               phase[d] = "commit", phase[e] = "commit", login[d] = login[e]
        PROVE  Doomed'
    <3>1. CASE d # c /\ e # c
      BY <2>1, <2>7, <3>1 DEF Doomed
    <3>2. ASSUME NEW x \in Calls, x # c, phase[x] = "commit", login[x] = login[c]
          PROVE  Doomed'
      BY <2>1, <2>3, <3>2 DEF Doomed, Taken
    <3> QED
      BY <2>7, <3>1, <3>2
  <2> QED
    BY <2>5, <2>6, <2>7 DEF Doomed
<1>7. ASSUME NEW c \in Calls, Refuse(c) \/ Fail(c) PROVE Doomed'
  <2>1. phase'[c] \in {"refused", "failed"}
    BY <1>7 DEF Refuse, Fail
  <2> QED
    BY <2>1 DEF Doomed, Lost
<1>8. CASE UNCHANGED vars
  BY <1>3, <1>8 DEF vars
<1> QED
  BY <1>1, <1>2, <1>4, <1>5, <1>6, <1>7, <1>8 DEF Next, Client, Server, GuestLogin, Calls

LEMMA VainStep ==
  ASSUME LoginInv, ShiftInv, VainInv, [Next]_vars, Calm, Calm'
  PROVE  VainInv'
<1>0. /\ \A t \in Tools, i \in 1..K : <<t, i>> \in Calls /\ <<t, i>> \in ToolCalls
      /\ 1..K \subseteq Ids /\ 1..K \subseteq Logins /\ nextId \in Int
      /\ TypeOK /\ None \notin Logins
      /\ ~Doomed' => ~Doomed
      /\ Lost => Lost'
  <2>1. Lost => Lost'
    <3> SUFFICES ASSUME NEW d \in Calls, phase[d] \in {"refused", "failed"}
                 PROVE  phase'[d] = phase[d]
      BY DEF Lost
    <3> QED
      BY UsersAssumption DEF LoginInv, TypeOK, Goto, Next, Client, Server, GuestLogin, Send,
         ToolLogin, ToolSave, HandleSave, Find, DrawId, Insert, Refuse, Fail, vars, request,
         Calls, ToolCalls
  <2> QED
    BY <2>1, DoomedStays, UsersAssumption
    DEF Calls, ToolCalls, Ids, Logins, LoginInv, TypeOK
<1> USE <1>0 DEF Goto
\* Steps that touch no insert, no row and no save.
<1>1. ASSUME UNCHANGED <<users, nextId, user, savedFor>>,
             \A c \in Calls : phase[c] = "commit" => phase'[c] = "commit"
                               /\ login'[c] = login[c],
             \A c \in Calls : phase'[c] = "commit" => phase[c] = "commit",
             \A t \in Tools, i \in 1..K :
               saving'[<<t, i>>] = "handled" => saving[<<t, i>>] = "handled"
      PROVE  VainInv'
  BY <1>1 DEF VainInv
<1>2. ASSUME NEW t \in Tools, NEW i \in 1..K, ToolLogin(t, i) PROVE VainInv'
  <2>1. /\ phase[<<t, i>>] = "unsent" /\ UNCHANGED <<users, nextId, user, saving, savedFor>>
        /\ \A c \in Calls : c # <<t, i>> => phase'[c] = phase[c] /\ login'[c] = login[c]
        /\ phase'[<<t, i>>] = "find"
    BY <1>2 DEF ToolLogin, Send, TypeOK, tool
  <2> QED
    BY <1>1, <2>1
<1>3. ASSUME NEW t \in Tools, NEW i \in 1..K, ToolSave(t, i) PROVE VainInv'
  <2>1. /\ UNCHANGED <<users, nextId, phase, login, user, savedFor>>
        /\ \A s \in Tools, j \in 1..K :
             saving'[<<s, j>>] = "handled" => saving[<<s, j>>] = "handled"
    BY <1>3 DEF ToolSave, TypeOK, request
  <2> QED
    BY <1>1, <2>1
<1>4. ASSUME NEW t \in Tools, NEW i \in 1..K, HandleSave(t, i) PROVE VainInv'
  <2> DEFINE c == <<t, i>>
  <2>1. /\ UNCHANGED <<users, nextId, phase, login, user>>
        /\ \A s \in Tools, j \in 1..K : <<s, j>> # c =>
             saving'[<<s, j>>] = saving[<<s, j>>] /\ savedFor'[<<s, j>>] = savedFor[<<s, j>>]
        /\ saving[c] = "sent" /\ savedFor'[c] = users[i]
    BY <1>4 DEF HandleSave, TypeOK, request
  <2>2. phase[c] \in Settled /\ login[c] = i
    BY <2>1 DEF ShiftInv, Settled
  <2>3. Lost' <=> Lost
    BY <2>1 DEF Lost
  <2>4. ASSUME ~Doomed PROVE users[i] = i
    <3>1. phase[c] = "answered"
      BY <2>2, <2>4 DEF Doomed, Lost, Settled
    <3>2. user[c] \in Ids /\ users[user[c]] = i
      BY <2>2, <3>1 DEF LoginInv
    <3> QED
      BY <2>4, <3>2 DEF VainInv
  <2> QED
    BY <2>1, <2>3, <2>4 DEF VainInv
<1>5. ASSUME NEW t \in Tools, NEW i \in 1..K, Find(<<t, i>>) PROVE VainInv'
  <2> DEFINE c == <<t, i>>
  <2>1. /\ UNCHANGED <<users, nextId, login, saving, savedFor>>
        /\ phase[c] = "find" /\ phase'[c] # "commit"
        /\ \A d \in Calls : d # c => phase'[d] = phase[d] /\ user'[d] = user[d]
    BY <1>5 DEF Find, TypeOK, tool
  <2> QED
    BY <2>1 DEF VainInv
<1>6. ASSUME NEW t \in Tools, NEW i \in 1..K, DrawId(<<t, i>>) PROVE VainInv'
  <2> DEFINE c == <<t, i>>
  <2>1. /\ UNCHANGED <<users, login, saving, savedFor>>
        /\ phase[c] = "draw" /\ phase'[c] = "commit"
        /\ nextId' = nextId + 1 /\ user'[c] = nextId
        /\ \A d \in Calls : d # c => phase'[d] = phase[d] /\ user'[d] = user[d]
    BY <1>6 DEF DrawId, TypeOK, tool
  <2>2. login[c] = i /\ i <= nextId
    BY <2>1 DEF ShiftInv
  <2>3. \A id \in Ids : id < nextId' =>
          users'[id] # None \/ (\E d \in Calls : phase'[d] = "commit" /\ user'[d] = id) \/ Lost'
    <3> SUFFICES ASSUME NEW id \in Ids, id < nextId', users[id] = None, ~Lost'
                 PROVE  \E d \in Calls : phase'[d] = "commit" /\ user'[d] = id
      BY <2>1
    <3>1. CASE id = nextId
      BY <2>1, <3>1
    <3>2. CASE id < nextId
      BY <2>1, <3>2 DEF VainInv
    <3> QED
      BY <2>1, <3>1, <3>2 DEF Ids
  <2>4. ASSUME ~Doomed' PROVE i = nextId
    <3> SUFFICES ASSUME i < nextId PROVE Doomed'
      BY <2>2, <2>4
    <3>1. CASE users[i] # None
      <4>1. users[i] = i
        BY <2>4, <3>1 DEF VainInv
      <4>2. phase'[c] = "commit" /\ login'[c] = i /\ users'[i] = i
        BY <2>1, <2>2, <4>1
      <4> QED
        BY <4>2 DEF Doomed, Taken
    <3>2. CASE users[i] = None
      <4>1. PICK d \in Calls : phase[d] = "commit" /\ user[d] = i
        BY <2>4, <3>2 DEF VainInv, Doomed
      <4>2. login[d] = i /\ d # c
        BY <2>1, <2>4, <4>1 DEF VainInv
      <4> QED
        BY <2>1, <2>2, <4>1, <4>2 DEF Doomed
    <3> QED
      BY <3>1, <3>2
  <2> QED
    BY <2>1, <2>2, <2>3, <2>4 DEF VainInv
<1>7. ASSUME NEW t \in Tools, NEW i \in 1..K, Insert(<<t, i>>) PROVE VainInv'
  <2> DEFINE c == <<t, i>>
  <2>1. /\ UNCHANGED <<nextId, login, user, saving, savedFor>>
        /\ phase[c] = "commit" /\ phase'[c] = "answered"
        /\ \A d \in Calls : d # c => phase'[d] = phase[d]
        /\ user[c] \in Ids
        /\ \A id \in Ids : users'[id] = IF id = user[c] THEN login[c] ELSE users[id]
    BY <1>7 DEF Insert, LoginInv, TypeOK, tool
  <2>2. login[c] = i
    BY <2>1 DEF ShiftInv
  <2>3. ~Doomed' => user[c] = i
    BY <2>1, <2>2 DEF VainInv
  <2>4. i # None
    OBVIOUS
  <2> QED
    BY <2>1, <2>2, <2>3, <2>4 DEF VainInv
<1>8. ASSUME NEW t \in Tools, NEW i \in 1..K, Refuse(<<t, i>>) \/ Fail(<<t, i>>)
      PROVE  VainInv'
  <2>1. phase'[<<t, i>>] \in {"refused", "failed"}
    BY <1>8 DEF Refuse, Fail, TypeOK
  <2>2. Lost' /\ Doomed'
    BY <2>1 DEF Lost, Doomed
  <2> QED
    BY <2>2 DEF VainInv
<1>9. CASE UNCHANGED vars
  BY <1>1, <1>9 DEF vars, request, tool
<1>10. CASE Next
  BY <1>2, <1>3, <1>4, <1>5, <1>6, <1>7, <1>8, <1>10, CalmCalls
  DEF Next, Client, Server
<1> QED
  BY <1>9, <1>10

\* As long as no login has been lost and none is under way, the numbers the tool gives
\* its users are their ids, for any number of users and however many runs overlap.
THEOREM ToolSavesRight == Spec => []ToolsSaveForThemselves
<1>1. Init => (Calm => VainInv)
  BY VainInit
<1>2. LoginInv /\ (Calm => ShiftInv) /\ (Calm => VainInv) /\ [Next]_vars
        => (Calm => VainInv)'
  BY VainStep, CalmBefore
<1>3. (Calm => VainInv) => ToolsSaveForThemselves
  BY DEF VainInv, Doomed, Lost, ToolsSaveForThemselves
<1> QED
  BY <1>1, <1>2, <1>3, LoginInvariance, ShiftInvariance, PTL DEF Spec

=============================================================================
