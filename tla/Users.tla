------------------------------- MODULE Users --------------------------------
(***************************************************************************)
(* Logins.  UserServiceImpl.save looks a login up and inserts a user if    *)
(* there is none, in two transactions; the table has a unique key on the   *)
(* login and draws its ids from a sequence, which a refused insert does    *)
(* not give back.  Requests are handled on the threads of a pool.          *)
(*                                                                         *)
(* The testing tool logs in users 1..K one after the other, waits a while  *)
(* after each and then saves positions for the user with that id, although *)
(* it never looks at the id it is answered with.                           *)
(***************************************************************************)
EXTENDS Integers

CONSTANTS
  Tools,    \* runs of the testing tool
  K,        \* users each run logs in: user i has login i (100 in the code)
  Guests,   \* logins of other clients
  L,        \* the logins are 1..L
  MayFail,  \* phases of a login in which the database may throw
  MaxId,    \* bound on the ids drawn
  None

VARIABLES
  users,    \* table user: id -> login, or None
  nextId,   \* the sequence of its ids
  phase,    \* where each login request is
  login,    \* the login it asks for
  user,     \* the id it has drawn or found
  saving,   \* whether the tool's save that follows a login was sent, handled
  savedFor, \* the login of the user it saved positions for, None if refused
  hasty     \* whether a run has sent a save before its login was settled; only for
            \* properties

request == <<phase, login, user>>
tool    == <<saving, savedFor, hasty>>
vars    == <<users, nextId, request, tool>>

ToolCalls == Tools \X (1..K)
Calls     == ToolCalls \cup Guests
Logins    == 1..L
Ids       == 1..MaxId

ASSUME UsersAssumption ==
  /\ K \in Nat \ {0} /\ L \in Nat /\ K <= L
  /\ Guests \cap ToolCalls = {}
  /\ MayFail \subseteq {"find", "draw", "commit"}
  /\ MaxId \in Nat /\ K <= MaxId
  /\ None \notin Logins \cup Ids

Handling == {"find", "draw", "commit"}
Settled  == {"answered", "refused", "failed"}

-----------------------------------------------------------------------------
(* Faulty variants of definitions below, for putting properties to the test. *)

\* a second row for a login is accepted
TakenNever(l) == FALSE

\* the sequence and its user disagree on the increment
DrawApart(c) ==
  /\ phase[c] = "draw"
  /\ nextId <= MaxId
  /\ user' = [user EXCEPT ![c] = nextId]
  /\ nextId' = nextId + 3
  /\ phase' = [phase EXCEPT ![c] = "commit"]
  /\ UNCHANGED <<users, login, tool>>

\* the tool counts its users from zero and the table from one
HandleNext(t, i) ==
  /\ saving[<<t, i>>] = "sent"
  /\ saving' = [saving EXCEPT ![<<t, i>>] = "handled"]
  /\ savedFor' = [savedFor EXCEPT ![<<t, i>>] = users[i + 1]]
  /\ UNCHANGED <<users, nextId, request, hasty>>

-----------------------------------------------------------------------------
\* findByLogin.
RowsOf(l) == {id \in Ids : users[id] = l}

\* The unique key on the login refuses another row.
Taken(l) == \E id \in Ids : users[id] = l

Init ==
  /\ users = [id \in Ids |-> None]
  /\ nextId = 1
  /\ phase = [c \in Calls |-> "unsent"]
  /\ login = [c \in Calls |-> None]
  /\ user = [c \in Calls |-> None]
  /\ saving = [c \in ToolCalls |-> "unsent"]
  /\ savedFor = [c \in ToolCalls |-> None]
  /\ hasty = FALSE

Goto(c, p) == phase' = [phase EXCEPT ![c] = p]

-----------------------------------------------------------------------------
(* Clients.                                                                *)

Send(c, l) ==
  /\ phase[c] = "unsent"
  /\ login' = [login EXCEPT ![c] = l]
  /\ Goto(c, "find")
  /\ UNCHANGED <<users, nextId, user, tool>>

GuestLogin(c, l) == c \in Guests /\ Send(c, l)

\* The next turn of the tool's loop.  A run that is stopped takes no further step.
ToolLogin(t, i) ==
  /\ i > 1 => saving[<<t, i - 1>>] # "unsent"
  /\ Send(<<t, i>>, i)

\* ... and its second half, after a wait that a login may outlast.
ToolSave(t, i) ==
  LET c == <<t, i>>
  IN  /\ phase[c] # "unsent"
      /\ saving[c] = "unsent"
      /\ saving' = [saving EXCEPT ![c] = "sent"]
      /\ hasty' = (hasty \/ phase[c] \notin Settled)
      /\ UNCHANGED <<users, nextId, request, savedFor>>

-----------------------------------------------------------------------------
(* The server.                                                             *)

Find(c) ==
  /\ phase[c] = "find"
  /\ \/ /\ RowsOf(login[c]) = {}
        /\ Goto(c, "draw")
        /\ UNCHANGED user
     \/ \E id \in RowsOf(login[c]) :
          /\ user' = [user EXCEPT ![c] = id]
          /\ Goto(c, "answered")
  /\ UNCHANGED <<users, nextId, login, tool>>

\* The insert takes an id from the sequence ...
DrawId(c) ==
  /\ phase[c] = "draw"
  /\ nextId <= MaxId
  /\ user' = [user EXCEPT ![c] = nextId]
  /\ nextId' = nextId + 1
  /\ Goto(c, "commit")
  /\ UNCHANGED <<users, login, tool>>

\* ... and commits, unless another row has the login by then.
Insert(c) ==
  /\ phase[c] = "commit"
  /\ ~Taken(login[c])
  /\ users' = [users EXCEPT ![user[c]] = login[c]]
  /\ Goto(c, "answered")
  /\ UNCHANGED <<nextId, login, user, tool>>

\* The client gets no answer: WebSocketErrorHandler is no controller advice, so
\* its handler method is never called.
Refuse(c) ==
  /\ phase[c] = "commit"
  /\ Taken(login[c])
  /\ Goto(c, "refused")
  /\ UNCHANGED <<users, nextId, login, user, tool>>

Fail(c) ==
  /\ phase[c] \in MayFail
  /\ Goto(c, "failed")
  /\ UNCHANGED <<users, nextId, login, user, tool>>

\* InstrumentController.save for user i: positions reference the row with that
\* id, whoever it is, and are refused when there is none.
HandleSave(t, i) ==
  /\ saving[<<t, i>>] = "sent"
  /\ saving' = [saving EXCEPT ![<<t, i>>] = "handled"]
  /\ savedFor' = [savedFor EXCEPT ![<<t, i>>] = users[i]]
  /\ UNCHANGED <<users, nextId, request, hasty>>

-----------------------------------------------------------------------------
Client ==
  \/ \E c \in Guests, l \in Logins : GuestLogin(c, l)
  \/ \E t \in Tools, i \in 1..K : ToolLogin(t, i) \/ ToolSave(t, i)

Server ==
  \/ \E c \in Calls : Find(c) \/ DrawId(c) \/ Insert(c) \/ Refuse(c) \/ Fail(c)
  \/ \E t \in Tools, i \in 1..K : HandleSave(t, i)

Next == Client \/ Server

Spec == Init /\ [][Next]_vars

-----------------------------------------------------------------------------
(* Properties.                                                             *)

TypeOK ==
  /\ users \in [Ids -> Logins \cup {None}]
  /\ nextId \in 1..(MaxId + 1)
  /\ phase \in [Calls -> {"unsent"} \cup Handling \cup Settled]
  /\ login \in [Calls -> Logins \cup {None}]
  /\ user \in [Calls -> Ids \cup {None}]
  /\ saving \in [ToolCalls -> {"unsent", "sent", "handled"}]
  /\ savedFor \in [ToolCalls -> Logins \cup {None}]
  /\ hasty \in BOOLEAN

\* However many sessions log in with a name at once, all that are answered get
\* the same user, the one the table has for it.
AnswersAgree ==
  \A c, d \in Calls :
    (phase[c] = "answered" /\ phase[d] = "answered" /\ login[c] = login[d]) =>
      user[c] = user[d] /\ users[user[c]] = login[c]

\* What the tool relies on: its wait has been long enough for every login so far,
\* nobody else has logged in, and no login has failed before it drew an id.
Calm ==
  /\ ~hasty
  /\ \A c \in Guests : phase[c] = "unsent"
  /\ \A c \in Calls : phase[c] = "failed" => user[c] # None

\* Runs that overlap get in each other's way: one looks a login up before the
\* other has inserted it, is refused and has drawn an id in vain, and so has an
\* insert that fails.  While all is calm that shifts users to later ids only:
\* positions meant for user i go to user i or an earlier one or are refused, and
\* never go to a user of a higher number.
SavesReachNoLaterUser ==
  Calm =>
    \A t \in Tools, i \in 1..K :
      saving[<<t, i>>] = "handled" => savedFor[<<t, i>>] \in {None} \cup 1..i

\* As long as no insert has been refused or has failed either and none is under
\* way, every save has gone to the user it was meant for, however the runs overlap
\* and wherever one was stopped: an id drawn in vain never goes unnoticed.
ToolsSaveForThemselves ==
  (Calm /\ \A c \in Calls : phase[c] \in {"unsent", "answered"}) =>
    \A t \in Tools, i \in 1..K :
      saving[<<t, i>>] = "handled" => savedFor[<<t, i>>] = i

=============================================================================
