------------------------------ MODULE Catchup -------------------------------
(***************************************************************************)
(* Chat messages live and in replay: ChatChannel.Handle with its bots      *)
(* (server/channel/chat/chat.go), HistoryChannel.handle                    *)
(* (server/channel/history/history.go) and what the client then shows      *)
(* (client/client.go, Run). Handle logs a message and broadcasts it, entry *)
(* by entry, in separate steps; a replay reads the log and sends a reset   *)
(* and the logged messages in separate steps: they interleave.             *)
(* Every goroutine that pushes appends to s.outgoing, from where each      *)
(* client gets its messages in that order (see Delivery): view[c] is what  *)
(* the client of c shows once it has read all that was pushed for it.      *)
(***************************************************************************)
EXTENDS ChatRouting, Functions

CONSTANTS
  Conns,       \* connections, subscribed to chat and history
  Name,        \* Name[c]: the user's name; several connections may share one
  BotNames,    \* the names bots speak under
  Says,        \* messages clients send
  Replies,     \* messages bots answer with
  MaxMessages, \* HistoryChannel.amount: what the history keeps
  Amount,      \* what clients ask for
  MaxLog,      \* bound: messages logged
  MaxReplays   \* bound: replays asked for

ASSUME CatchupAssumption ==
  /\ Name \in [Conns -> Names]
  /\ BotNames \subseteq Names
  /\ Says \subseteq Message /\ Replies \subseteq Message
  /\ {MaxMessages, Amount} \subseteq Nat \ {0}
  /\ {MaxLog, MaxReplays} \subseteq Nat
  /\ Conns \cap (1..MaxLog) = {}

\* A command's bot runs in a goroutine of its own, named by that message.
Tasks   == 1..MaxLog
Callers == Conns \cup Tasks

VARIABLES
  up,      \* registered connections
  log,     \* all messages added to the history, which keeps the newest
  pc,      \* pc[p]: where a connection's handler or a bot's goroutine is
  doing,   \* doing[p]: the message p is handling, 0 if none
  step,    \* step[p]: the entry of its batch that comes next or is pushed
  todo,    \* todo[p]: connections that entry has yet to be pushed for
  snap,    \* snap[c]: the entries a replay has read from the log
  view,    \* view[c]: what c shows, <<message, entry>>
  replays,
  low, top,  \* history: the log's part that the last replay of c covers
  during,  \* history: pushed for c between its replay's read and its reset
  between  \* history: pushed for c between the reset and the replayed part

taskVars == <<doing, step, todo>>
replayVars == <<snap, replays, low, top, during, between>>
vars == <<up, log, pc, taskVars, view, replayVars>>

Init ==
  /\ up = {}
  /\ log = <<>>
  /\ pc = [p \in Callers |-> IF p \in Conns THEN "new" ELSE "off"]
  /\ doing = [p \in Callers |-> 0]
  /\ step = [p \in Callers |-> 0]
  /\ todo = [p \in Callers |-> {}]
  /\ snap = [c \in Conns |-> <<>>]
  /\ view = [c \in Conns |-> <<>>]
  /\ replays = 0
  /\ low = [c \in Conns |-> 0] /\ top = [c \in Conns |-> 0]
  /\ during = [c \in Conns |-> {}] /\ between = [c \in Conns |-> {}]

-----------------------------------------------------------------------------
(* Connections; clientsMutex keeps setClient and unsetClient out while a   *)
(* broadcast pushes                                                        *)

NoReaders == \A p \in Callers : pc[p] \notin {"push", "reset"}

Join(c) ==
  /\ pc[c] = "new"
  /\ NoReaders
  /\ up' = up \cup {c}
  /\ pc' = [pc EXCEPT ![c] = "idle"]
  /\ UNCHANGED <<log, taskVars, view, replayVars>>

Leave(c) ==
  /\ pc[c] = "idle"
  /\ NoReaders
  /\ up' = up \ {c}
  /\ pc' = [pc EXCEPT ![c] = "gone"]
  /\ UNCHANGED <<log, taskVars, view, replayVars>>

-----------------------------------------------------------------------------
(* ChatChannel.Handle *)

LogItem(name, bot, m, p) == [from |-> name, bot |-> bot, msg |-> m, by |-> p]

BatchOf(i) == Batch({}, log[i].from, log[i].bot, log[i].msg)

\* hist.AddLog; the batch is known, its first entry is next.
AddLog(p, name, bot, m) ==
  /\ Len(log) < MaxLog
  /\ log' = Append(log, LogItem(name, bot, m, p))
  /\ doing' = [doing EXCEPT ![p] = Len(log) + 1]
  /\ step' = [step EXCEPT ![p] = 1]
  /\ pc' = [pc EXCEPT ![p] = "bcast"]
  /\ UNCHANGED <<up, todo, view, replayVars>>

Say(c, m) == pc[c] = "idle" /\ AddLog(c, Name[c], FALSE, m)

\* Broadcast of an entry: RLock, and the recipients are selected.
Broadcast(p) ==
  /\ pc[p] = "bcast"
  /\ todo' = [todo EXCEPT ![p] = {c \in up : CheckName(BatchOf(doing[p])[step[p]], Name[c])}]
  /\ pc' = [pc EXCEPT ![p] = "push"]
  /\ UNCHANGED <<up, log, doing, step, view, replayVars>>

\* Mutant: a connection may be selected twice.
PushTwice(p) ==
  /\ pc[p] = "push"
  /\ \E c \in todo[p] :
       LET e == <<doing[p], step[p]>> IN
       /\ todo' = [todo EXCEPT ![p] = @ \ {c}]
       /\ view' = [view EXCEPT ![c] = @ \o <<e, e>>]
       /\ during' = [during EXCEPT ![c] = IF pc[c] = "asked" THEN @ \cup {e} ELSE @]
       /\ between' = [between EXCEPT ![c] = IF pc[c] = "reset" THEN @ \cup {e} ELSE @]
  /\ UNCHANGED <<up, log, pc, doing, step, snap, replays, low, top>>

Push(p) ==
  /\ pc[p] = "push"
  /\ \E c \in todo[p] :
       LET e == <<doing[p], step[p]>> IN
       /\ todo' = [todo EXCEPT ![p] = @ \ {c}]
       /\ view' = [view EXCEPT ![c] = Append(@, e)]
       /\ during' = [during EXCEPT ![c] = IF pc[c] = "asked" THEN @ \cup {e} ELSE @]
       /\ between' = [between EXCEPT ![c] = IF pc[c] = "reset" THEN @ \cup {e} ELSE @]
  /\ UNCHANGED <<up, log, pc, doing, step, snap, replays, low, top>>

\* Where p goes after Handle: a connection back to its read loop.
Home(p) == IF p \in Conns THEN "idle" ELSE "off"

\* RUnlock. The next entry, or the end of Handle, which starts a bot's
\* goroutine if the message is a command.
EndBroadcast(p) ==
  /\ pc[p] = "push"
  /\ todo[p] = {}
  /\ IF step[p] < Len(BatchOf(doing[p]))
     THEN /\ step' = [step EXCEPT ![p] = @ + 1]
          /\ pc' = [pc EXCEPT ![p] = "bcast"]
          /\ UNCHANGED doing
     ELSE /\ step' = [step EXCEPT ![p] = 0]
          /\ doing' = [doing EXCEPT ![p] = 0]
          /\ pc' = [q \in Callers |->
                      CASE q = p -> Home(p)
                        [] q # p /\ q = doing[p] /\ IsToBot(log[doing[p]].msg) -> "bot"
                        [] OTHER -> pc[q]]
  /\ UNCHANGED <<up, log, todo, view, replayVars>>

\* botMessage: the answer to a silent command is a private message to its
\* author; it is handled like any other message.
Answer(i, m, bot) ==
  /\ pc[i] = "bot"
  /\ AddLog(i, bot, TRUE,
            IF IsSilent(log[i].msg) THEN [lead |-> "", at |-> log[i].from, mentions |-> m.mentions] ELSE m)

\* No such bot, an error or an empty answer.
NoAnswer(i) ==
  /\ pc[i] = "bot"
  /\ pc' = [pc EXCEPT ![i] = "off"]
  /\ UNCHANGED <<up, log, taskVars, view, replayVars>>

-----------------------------------------------------------------------------
(* HistoryChannel.handle *)

Least(a, b) == IF a < b THEN a ELSE b

\* The first of the newest n messages that the history still has.
First(n) == LET k == Least(Least(n, MaxMessages), Len(log)) IN Len(log) - k + 1

\* The entries of message i that are for name n, as a replay sends them; a
\* message has one entry or two.
Seen(i, n) ==
  LET es      == Batch({"never"}, log[i].from, log[i].bot, log[i].msg)
      Pick(e) == IF e \in DOMAIN es /\ CheckName(es[e], n) THEN << <<i, e>> >> ELSE <<>>
  IN  Pick(1) \o Pick(2)

\* The entries, for name n, of the messages from lo on.
Replay(lo, n) ==
  LET upto[i \in Nat] == IF i < lo THEN <<>> ELSE upto[i - 1] \o Seen(i, n)
  IN  upto[Len(log)]

\* Last: reads the log under its own lock.
Ask(c) ==
  /\ pc[c] = "idle"
  /\ replays < MaxReplays
  /\ replays' = replays + 1
  /\ snap' = [snap EXCEPT ![c] = Replay(First(Amount), Name[c])]
  /\ low' = [low EXCEPT ![c] = First(Amount)]
  /\ top' = [top EXCEPT ![c] = Len(log)]
  /\ during' = [during EXCEPT ![c] = {}]
  /\ between' = [between EXCEPT ![c] = {}]
  /\ pc' = [pc EXCEPT ![c] = "asked"]
  /\ UNCHANGED <<up, log, taskVars, view>>

\* Mutant: the client does not clear its view.
ResetNot(c) ==
  /\ pc[c] = "asked"
  /\ pc' = [pc EXCEPT ![c] = "reset"]
  /\ UNCHANGED <<up, log, taskVars, view, replayVars>>

\* BroadcastBatch: RLock; the job of the history channel, the reset, is
\* pushed first: the client clears its view.
Reset(c) ==
  /\ pc[c] = "asked"
  /\ view' = [view EXCEPT ![c] = <<>>]
  /\ pc' = [pc EXCEPT ![c] = "reset"]
  /\ UNCHANGED <<up, log, taskVars, replayVars>>

\* Mutant: the reset follows instead of preceding.
SendReplayClearing(c) ==
  /\ pc[c] = "reset"
  /\ view' = [view EXCEPT ![c] = snap[c]]
  /\ snap' = [snap EXCEPT ![c] = <<>>]
  /\ pc' = [pc EXCEPT ![c] = "idle"]
  /\ UNCHANGED <<up, log, taskVars, replays, low, top, during, between>>

\* The job of the chat channel with all its messages; RUnlock.
SendReplay(c) ==
  /\ pc[c] = "reset"
  /\ view' = [view EXCEPT ![c] = @ \o snap[c]]
  /\ snap' = [snap EXCEPT ![c] = <<>>]
  /\ pc' = [pc EXCEPT ![c] = "idle"]
  /\ UNCHANGED <<up, log, taskVars, replays, low, top, during, between>>

-----------------------------------------------------------------------------
HandleStep(p) == Broadcast(p) \/ Push(p) \/ EndBroadcast(p)
ReplayStep(c) == Reset(c) \/ SendReplay(c)

\* Everyone has gone and no bot is at work.
Terminating ==
  /\ \A p \in Callers : pc[p] \in {"gone", "off"}
  /\ UNCHANGED vars

Next ==
  \/ \E c \in Conns : Join(c) \/ Leave(c) \/ Ask(c) \/ ReplayStep(c) \/ \E m \in Says : Say(c, m)
  \/ \E p \in Callers : HandleStep(p)
  \/ \E i \in Tasks : NoAnswer(i) \/ \E m \in Replies, b \in BotNames : Answer(i, m, b)
  \/ Terminating

Spec == Init /\ [][Next]_vars

-----------------------------------------------------------------------------
IsFor(i, e, c) == CheckName(BatchOf(i)[e], Name[c])

\* Entry e of message i has yet to be pushed for c.
Due(i, e, c) ==
  \E p \in Callers :
    /\ doing[p] = i
    /\ \/ step[p] < e
       \/ step[p] = e /\ (pc[p] = "bcast" \/ c \in todo[p])

\* A client sees nothing that is not for its name, neither live nor replayed.
OnlyForMe == \A c \in Conns : \A x \in Range(view[c]) : IsFor(x[1], x[2], c)

\* After a replay a client shows every message for it that the replay covered
\* or that came later, but for those logged after the replay read the log
\* and pushed before its reset: the reset takes them away.
OnlyWindowLost ==
  \A c \in up : low[c] # 0 /\ pc[c] \notin {"asked", "reset"} =>
    \A i \in low[c]..Len(log) : \A e \in DOMAIN BatchOf(i) :
      IsFor(i, e, c) /\ ~Due(i, e, c) =>
        <<i, e>> \in Range(view[c]) \cup (IF i > top[c] THEN during[c] ELSE {})

\* What a client shows twice it was sent by a replay and live: it is the
\* newest message that its author had logged when the replay read the log.
\* (Until its reset, a replay has not touched the view.)
OnlyNewestTwice ==
  \A c \in {d \in Conns : pc[d] # "asked"} : \A x \in Range(view[c]) :
    LET n == Cardinality({k \in DOMAIN view[c] : view[c][k] = x}) IN
    \/ n = 1
    \/ /\ n = 2
       /\ x[1] <= top[c]
       /\ \A j \in x[1] + 1 .. top[c] : log[j].by # log[x[1]].by

\* An author's newer message stands above an older one only if it slipped in
\* between the reset and the replayed messages.
AuthorOrder ==
  \A c \in {d \in Conns : pc[d] # "asked"} : \A k, l \in DOMAIN view[c] :
    LET x == view[c][k]
        y == view[c][l]
    IN  k < l /\ x[1] > y[1] /\ log[x[1]].by = log[y[1]].by => x \in between[c]

\* A client that asked for the history sees all that is meant for it but for
\* that window, and nothing else.
SeesItsShare == OnlyForMe /\ OnlyWindowLost
=============================================================================
