------------------------------ MODULE Presence ------------------------------
(***************************************************************************)
(* The lists of users: the registry of server/server.go (setClient,        *)
(* unsetClient, GetUsers), UsersChannel of server/channel/users/users.go,  *)
(* and what a client keeps of it (client/client.go, Run).                  *)
(* Goroutines: one per connection, which registers, removes and asks for   *)
(* the lists; one per change that tells UserUpdate; and the ticker         *)
(* (SendInterval). Lists are read and sent in separate steps.              *)
(***************************************************************************)
EXTENDS Integers, Sequences, FiniteSets

CONSTANTS
  Conns,          \* connections
  Name,           \* Name[c]: the user's name
  UsersChannels,  \* the sequence of channels whose users are listed
  Subscribed,     \* Subscribed[c]: the channels among them c asked for
  Watchers,       \* connections subscribed to the users channel
  MaxAsks,        \* bound: requests for the lists
  NoList

Ticker == "ticker"
Tasks  == Conns \cup {Ticker}

ASSUME PresenceAssumption ==
  /\ IsFiniteSet(Conns)
  /\ Ticker \notin Conns
  /\ DOMAIN Name = Conns
  /\ Len(UsersChannels) \in Nat \ {0} /\ DOMAIN UsersChannels = 1..Len(UsersChannels)
  /\ Subscribed \in [Conns -> SUBSET {UsersChannels[i] : i \in DOMAIN UsersChannels}]
  /\ Watchers \subseteq Conns
  /\ MaxAsks \in Nat

Listed == {UsersChannels[i] : i \in DOMAIN UsersChannels}

VARIABLES
  conn,      \* conn[c]: "new", "up" (registered) or "gone"
  told,      \* goroutines that have yet to run UserUpdate
  change,    \* UsersChannel.change
  pc,        \* pc[t]: "idle", "clear" (ticker only), "get" or "send", in do
  at,        \* at[t]: the place of the channel that do is at
  list,      \* list[t]: what GetUsers has returned
  asks,
  seen,      \* seen[c][h]: Client.allUsers, once all that was sent is read
  tick,      \* history: the last list of h that the ticker sent to c
  raced      \* history: raced[c][h]: the last list was an answer, old when sent

doVars == <<pc, at, list>>
presencevars == <<conn, told, change, doVars, asks, seen, tick, raced>>

Up == {c \in Conns : conn[c] = "up"}

PresenceInit ==
  /\ conn = [c \in Conns |-> "new"]
  /\ told = 0
  /\ change = FALSE
  /\ pc = [t \in Tasks |-> "idle"]
  /\ at = [t \in Tasks |-> 0]
  /\ list = [t \in Tasks |-> NoList]
  /\ asks = 0
  /\ seen = [c \in Conns |-> [h \in Listed |-> NoList]]
  /\ tick = [c \in Conns |-> [h \in Listed |-> NoList]]
  /\ raced = [c \in Conns |-> [h \in Listed |-> FALSE]]

-----------------------------------------------------------------------------
(* setClient and unsetClient start a goroutine that runs UserUpdate *)

\* Mutant: a new client is not announced.
SetClientQuiet(c) ==
  /\ conn[c] = "new"
  /\ conn' = [conn EXCEPT ![c] = "up"]
  /\ UNCHANGED <<told, change, doVars, asks, seen, tick, raced>>

SetClient(c) ==
  /\ conn[c] = "new"
  /\ conn' = [conn EXCEPT ![c] = "up"]
  /\ told' = told + 1
  /\ UNCHANGED <<change, doVars, asks, seen, tick, raced>>

UnsetClient(c) ==
  /\ conn[c] = "up"
  /\ pc[c] = "idle"
  /\ conn' = [conn EXCEPT ![c] = "gone"]
  /\ told' = told + 1
  /\ UNCHANGED <<change, doVars, asks, seen, tick, raced>>

UserUpdate ==
  /\ told > 0
  /\ told' = told - 1
  /\ change' = TRUE
  /\ UNCHANGED <<conn, doVars, asks, seen, tick, raced>>

-----------------------------------------------------------------------------
(* do: for every listed channel GetUsers, then Broadcast *)

Of(n, h) == {c \in Up : Name[c] = n /\ h \in Subscribed[c]}

\* GetUsers: the names registered for h, with their connections; sent as
\* eight bits.
Users(h) ==
  [n \in {Name[c] : c \in {d \in Up : h \in Subscribed[d]}} |-> Cardinality(Of(n, h)) % 256]

GetUsers(t) ==
  /\ pc[t] = "get"
  /\ list' = [list EXCEPT ![t] = Users(UsersChannels[at[t]])]
  /\ pc' = [pc EXCEPT ![t] = "send"]
  /\ UNCHANGED <<conn, told, change, at, asks, seen, tick, raced>>

\* Mutant: an answer goes to all who have the channel, not to who asked.
RecipientsAll(t, h) == {c \in Up \cap Watchers : h \in Subscribed[c]}

\* The ticker's filter is the channel, that of an answer the client too.
Recipients(t, h) ==
  {c \in Up \cap Watchers : h \in Subscribed[c] /\ (t # Ticker => c = t)}

\* The next channel, or the end of do.
Advance(t) ==
  IF at[t] < Len(UsersChannels)
  THEN at' = [at EXCEPT ![t] = @ + 1] /\ pc' = [pc EXCEPT ![t] = "get"]
  ELSE at' = [at EXCEPT ![t] = 0] /\ pc' = [pc EXCEPT ![t] = "idle"]

Broadcast(t) ==
  LET h  == UsersChannels[at[t]]
      to == Recipients(t, h)
      Told(f) == [c \in Conns |-> IF c \in to THEN [f[c] EXCEPT ![h] = list[t]] ELSE f[c]]
  IN
  /\ pc[t] = "send"
  /\ seen' = Told(seen)
  /\ tick' = IF t = Ticker THEN Told(tick) ELSE tick
  /\ raced' = [c \in Conns |-> IF c \in to THEN [raced[c] EXCEPT ![h] = c = t /\ list[t] # Users(h)]
                              ELSE raced[c]]
  /\ list' = [list EXCEPT ![t] = NoList]
  /\ Advance(t)
  /\ UNCHANGED <<conn, told, change, asks>>

\* handle: a client asks for the lists.
Ask(c) ==
  /\ conn[c] = "up"
  /\ pc[c] = "idle"
  /\ asks < MaxAsks
  /\ asks' = asks + 1
  /\ at' = [at EXCEPT ![c] = 1]
  /\ pc' = [pc EXCEPT ![c] = "get"]
  /\ UNCHANGED <<conn, told, change, list, seen, tick, raced>>

-----------------------------------------------------------------------------
(* SendInterval: after a sleep, if there was a change, the flag is cleared *)
(* and then the lists are read and sent                                    *)

Wake ==
  /\ pc[Ticker] = "idle"
  /\ change
  /\ pc' = [pc EXCEPT ![Ticker] = "clear"]
  /\ UNCHANGED <<conn, told, change, at, list, asks, seen, tick, raced>>

\* Mutants of Clear: the flag stays set; it is cleared with the first list
\* already read.
ClearNot ==
  /\ pc[Ticker] = "clear"
  /\ at' = [at EXCEPT ![Ticker] = 1]
  /\ pc' = [pc EXCEPT ![Ticker] = "get"]
  /\ UNCHANGED <<conn, told, change, list, asks, seen, tick, raced>>

Clear ==
  /\ pc[Ticker] = "clear"
  /\ change' = FALSE
  /\ at' = [at EXCEPT ![Ticker] = 1]
  /\ pc' = [pc EXCEPT ![Ticker] = "get"]
  /\ UNCHANGED <<conn, told, list, asks, seen, tick, raced>>

-----------------------------------------------------------------------------
DoStep(t)  == GetUsers(t) \/ Broadcast(t)
TickerStep == Wake \/ Clear \/ DoStep(Ticker)

\* Everyone has gone and everyone has been told.
PresenceEnds ==
  /\ \A c \in Conns : conn[c] = "gone"
  /\ told = 0 /\ ~change /\ pc[Ticker] = "idle"
  /\ UNCHANGED presencevars

PresenceNext ==
  \/ \E c \in Conns : SetClient(c) \/ UnsetClient(c) \/ Ask(c) \/ DoStep(c)
  \/ UserUpdate \/ TickerStep \/ PresenceEnds

PresenceSpec == PresenceInit /\ [][PresenceNext]_presencevars

\* Goroutines are scheduled and the ticker wakes again and again.
PresenceFairness ==
  /\ \A c \in Conns : WF_presencevars(DoStep(c))
  /\ WF_presencevars(UserUpdate)
  /\ WF_presencevars(TickerStep)

FairPresence == PresenceSpec /\ PresenceFairness

-----------------------------------------------------------------------------
\* Nothing is known to have changed since the ticker went back to sleep.
Settled == told = 0 /\ ~change /\ pc[Ticker] = "idle"

Watches(c, h) == c \in Up \cap Watchers /\ h \in Subscribed[c]

\* Whenever things have settled, the last list that the ticker sent to each
\* client is the registry: no change gets lost between the flag, the lists
\* and their sending.
TickerAccurate ==
  Settled => \A c \in Conns, h \in Listed : Watches(c, h) => tick[c][h] = Users(h)

\* Then a client shows the registry too, but for one case: an answer to its
\* own request that was read before a change and sent after the ticker's
\* lists replaces them until the next change.
SeenAccurate ==
  Settled => \A c \in Conns, h \in Listed :
    Watches(c, h) => seen[c][h] = Users(h) \/ raced[c][h]

\* A client that stays comes to see itself in the lists.
SeesItself ==
  \A c \in Watchers : \A h \in Subscribed[c] :
    conn[c] = "up" ~> conn[c] = "gone" \/ (seen[c][h] # NoList /\ Name[c] \in DOMAIN seen[c][h])

\* However clients come and go, the ticker comes to rest.
Settles == []<>Settled

\* Once nothing moves the lists that were sent, and those that are shown, are
\* the registry's, but for that one case.
ListsAccurate == TickerAccurate /\ SeenAccurate
=============================================================================
