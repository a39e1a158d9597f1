------------------------------ MODULE Delivery ------------------------------
(***************************************************************************)
(* How the server hands messages to its connected clients:                 *)
(*   - server/server.go: the client registry and its RWMutex (setClient,   *)
(*     unsetClient), BroadcastBatch, and the goroutine that takes jobs     *)
(*     from s.outgoing and queues them;                                    *)
(*   - server/client/client.go: a client's Queue, Stop, its writer         *)
(*     goroutine (Run) and send with its per-channel suppression of equal  *)
(*     messages.                                                           *)
(* Goroutines: one per connection (it also runs the handlers, which call   *)
(* BroadcastBatch), the server's own callers (Daemons: bots, the users     *)
(* ticker, the music player...), one dispatcher, one writer per            *)
(* connection, and one goroutine per batch that closes its messages.       *)
(* A send on a closed Go channel kills the process: panic.                 *)
(***************************************************************************)
EXTENDS Integers, Sequences, FiniteSets, Functions

CONSTANTS
  Conns,        \* connections; a client that reconnects is another one
  Daemons,      \* goroutines of the server itself that broadcast
  Subs,         \* <<c, h, n>>: the n-th channel connection c asked for is h
  Batches,      \* the []channel.Batch arguments callers may pass
  MaxCalls,     \* bound: number of BroadcastBatch calls
  OutgoingBuf,  \* capacity of s.outgoing (server.go: outgoingBuf)
  JobBuf,       \* capacity of Client.jobs (server.go: clientJobBuf)
  NeverEqual,   \* messages whose Equal is always false
  None

Channels == {s[2] : s \in Subs}
Callers  == Conns \cup Daemons
Calls    == 1..MaxCalls

(***************************************************************************)
(* A batch entry: the channel of its filter (None when the filter has      *)
(* none, an error), the connections its name, channel and identity filters *)
(* let through, and the message. Every caller has its entries of a channel *)
(* stand together: one message or several of its own channel, and the      *)
(* history its reset before the rest.                                      *)
(***************************************************************************)
BatchAssumption ==
  \A b \in Batches :
    /\ Len(b) \in Nat
    /\ DOMAIN b = 1..Len(b)
    /\ \A i \in DOMAIN b : b[i].h \in Channels \cup {None} /\ b[i].to \subseteq Conns
    /\ \A i, j, l \in DOMAIN b :
         i < j /\ j < l /\ b[i].h = b[l].h /\ b[i].h # None => b[j].h \in {b[i].h, None}

ASSUME DeliveryAssumption ==
  /\ IsFiniteSet(Subs)
  /\ \A s \in Subs : s[1] \in Conns
  /\ None \notin Conns \cup Channels
  /\ BatchAssumption
  /\ MaxCalls \in Nat
  /\ OutgoingBuf \in Nat \ {0}
  /\ JobBuf \in Nat \ {0}

VARIABLES
  conn,      \* conn[c]: where the goroutine of connection c is
  writer,    \* connection holding, or announced for, clientsMutex.Lock
  reg,       \* s.clients: the registered entries of Subs
  calls,     \* BroadcastBatch calls started so far
  at,        \* at[p]: the call p is in (it holds the read lock), or 0
  by,        \* by[k]: the caller of call k
  batch,     \* batch[k]: its argument
  hits,      \* hits[k]: the <<entry, registration>> pairs it selected
  phase,     \* "idle", "push", "wait" (for the WaitGroup), "closed"
  todo,      \* todo[k]: its merged jobs not yet pushed to s.outgoing
  wg,        \* wg[k]: the counter of its WaitGroup
  outgoing,  \* s.outgoing
  dpc, hand, \* the dispatcher: where it is in Queue and with which job
  qwg,       \* qwg[c]: the counter of Client.wg
  jobs,      \* jobs[c]: Client.jobs
  wpc, cur,  \* the writer of c: where it is and its current job
  left,      \* left[c]: messages of the current job not yet Done
  last,      \* last[c][h]: Client.last
  log,       \* log[c]: what the writer of c did, <<call, entry, outcome>>
  panic

connVars  == <<conn, writer, reg>>
callVars  == <<calls, by, batch, hits>>
pushVars  == <<at, phase, todo>>
queueVars == <<dpc, hand, qwg>>
writeVars == <<wpc, cur, left, last, log>>
vars == <<connVars, callVars, pushVars, wg, outgoing, queueVars, jobs, writeVars, panic>>

NoJob == [k |-> 0, c |-> None, h |-> None, ms |-> {}]

Init ==
  /\ conn = [c \in Conns |-> "new"]
  /\ writer = None
  /\ reg = {}
  /\ calls = 0
  /\ at = [p \in Callers |-> 0]
  /\ by = [k \in Calls |-> None]
  /\ batch = [k \in Calls |-> <<>>]
  /\ hits = [k \in Calls |-> {}]
  /\ phase = [k \in Calls |-> "idle"]
  /\ todo = [k \in Calls |-> {}]
  /\ wg = [k \in Calls |-> 0]
  /\ outgoing = <<>>
  /\ dpc = "idle"
  /\ hand = NoJob
  /\ qwg = [c \in Conns |-> 0]
  /\ jobs = [c \in Conns |-> <<>>]
  /\ wpc = [c \in Conns |-> "off"]
  /\ cur = [c \in Conns |-> NoJob]
  /\ left = [c \in Conns |-> {}]
  /\ last = [c \in Conns |-> [h \in Channels |-> None]]
  /\ log = [c \in Conns |-> <<>>]
  /\ panic = FALSE

-----------------------------------------------------------------------------
(* clientsMutex: a writer that has announced itself keeps new readers out  *)
(* and enters once the readers inside have left.                           *)

RLockable == writer = None
NoReaders == \A p \in Callers : at[p] = 0

EntriesOf(c) == {s \in Subs : s[1] = c}

\* Client.stopped and "Client.jobs is closed".
Stopped(c) == conn[c] \in {"stop", "close", "gone"}
Closed(c)  == conn[c] = "gone"

\* The connection's goroutine, handshake done, calls clientsMutex.Lock.
LockSet(c) ==
  /\ conn[c] = "new"
  /\ writer = None
  /\ writer' = c
  /\ conn' = [conn EXCEPT ![c] = "set"]
  /\ UNCHANGED <<reg, callVars, pushVars, wg, outgoing, queueVars, jobs, writeVars, panic>>

\* setClient under the lock: register once per channel, start the writer.
SetClient(c) ==
  /\ conn[c] = "set"
  /\ NoReaders
  /\ reg' = reg \cup EntriesOf(c)
  /\ wpc' = [wpc EXCEPT ![c] = "idle"]
  /\ writer' = None
  /\ conn' = [conn EXCEPT ![c] = "run"]
  /\ UNCHANGED <<callVars, pushVars, wg, outgoing, queueVars, jobs, cur, left, last, log, panic>>

\* The read loop ends: EOF, an error, the deadline or the client's goodbye.
Leave(c) ==
  /\ conn[c] = "run"
  /\ at[c] = 0
  /\ conn' = [conn EXCEPT ![c] = "left"]
  /\ UNCHANGED <<writer, reg, callVars, pushVars, wg, outgoing, queueVars, jobs, writeVars, panic>>

LockUnset(c) ==
  /\ conn[c] = "left"
  /\ writer = None
  /\ writer' = c
  /\ conn' = [conn EXCEPT ![c] = "unset"]
  /\ UNCHANGED <<reg, callVars, pushVars, wg, outgoing, queueVars, jobs, writeVars, panic>>

\* Mutant: Stop called before the lock is taken.
StopUnlocked(c) ==
  /\ conn[c] = "unset"
  /\ conn' = [conn EXCEPT ![c] = "stop"]
  /\ UNCHANGED <<writer, reg, callVars, pushVars, wg, outgoing, queueVars, jobs, writeVars, panic>>

\* unsetClient, inside the lock, calls Stop: first the stopped flag...
Stop(c) ==
  /\ conn[c] = "unset"
  /\ NoReaders
  /\ conn' = [conn EXCEPT ![c] = "stop"]
  /\ UNCHANGED <<writer, reg, callVars, pushVars, wg, outgoing, queueVars, jobs, writeVars, panic>>

\* ...then c.wg.Wait()...
StopWait(c) ==
  /\ conn[c] = "stop"
  /\ qwg[c] = 0
  /\ conn' = [conn EXCEPT ![c] = "close"]
  /\ UNCHANGED <<writer, reg, callVars, pushVars, wg, outgoing, queueVars, jobs, writeVars, panic>>

\* ...then close(c.jobs); the entries go and the lock is released.
CloseJobs(c) ==
  /\ conn[c] = "close"
  /\ conn' = [conn EXCEPT ![c] = "gone"]
  /\ reg' = reg \ EntriesOf(c)
  /\ writer' = None
  /\ UNCHANGED <<callVars, pushVars, wg, outgoing, queueVars, jobs, writeVars, panic>>

-----------------------------------------------------------------------------
(* BroadcastBatch *)

\* Server.jobs for every entry: the registrations an entry's filter selects.
Hits(b) ==
  {m \in (DOMAIN b) \X reg : b[m[1]].h = m[2][2] /\ m[2][1] \in b[m[1]].to}

\* The jobs merged: one per connection and channel, with all their messages.
MergedJobs(k, b) ==
  { [k |-> k, c |-> s[1], h |-> s[2],
     ms |-> {m \in Hits(b) : m[2][1] = s[1] /\ m[2][2] = s[2]}] :
      s \in {m[2] : m \in Hits(b)} }

\* RLock, build and merge the jobs, wg.Add for each of them.
BroadcastBatch(p, b) ==
  LET k == calls + 1 IN
  /\ calls < MaxCalls
  /\ at[p] = 0
  /\ RLockable
  /\ p \in Conns => conn[p] = "run"
  /\ calls' = k
  /\ at' = [at EXCEPT ![p] = k]
  /\ by' = [by EXCEPT ![k] = p]
  /\ batch' = [batch EXCEPT ![k] = b]
  /\ hits' = [hits EXCEPT ![k] = Hits(b)]
  /\ phase' = [phase EXCEPT ![k] = "push"]
  /\ todo' = [todo EXCEPT ![k] = MergedJobs(k, b)]
  /\ wg' = [wg EXCEPT ![k] = Cardinality(Hits(b))]
  /\ UNCHANGED <<connVars, outgoing, queueVars, jobs, writeVars, panic>>

\* A merged job keeps the place of its first entry; jobs of one entry come
\* in the order of a Go map iteration, that is, in any order.
Next2Push(k, j) ==
  \A i \in todo[k] : \E m \in j.ms : \A n \in i.ms : m[1] <= n[1]

\* s.outgoing <- j: blocks, read lock held, while the buffer is full.
Push(p) ==
  LET k == at[p] IN
  /\ k # 0
  /\ Len(outgoing) < OutgoingBuf
  /\ \E j \in todo[k] :
       /\ Next2Push(k, j)
       /\ outgoing' = Append(outgoing, j)
       /\ todo' = [todo EXCEPT ![k] = @ \ {j}]
  /\ UNCHANGED <<connVars, callVars, at, phase, wg, queueVars, jobs, writeVars, panic>>

\* Mutant: the messages are closed when BroadcastBatch returns.
ReturnClosing(p) ==
  /\ at[p] # 0
  /\ todo[at[p]] = {}
  /\ phase' = [phase EXCEPT ![at[p]] = "closed"]
  /\ at' = [at EXCEPT ![p] = 0]
  /\ UNCHANGED <<connVars, callVars, todo, wg, outgoing, queueVars, jobs, writeVars, panic>>

\* All jobs are out: start the closing goroutine, RUnlock, return.
Return(p) ==
  /\ at[p] # 0
  /\ todo[at[p]] = {}
  /\ phase' = [phase EXCEPT ![at[p]] = "wait"]
  /\ at' = [at EXCEPT ![p] = 0]
  /\ UNCHANGED <<connVars, callVars, todo, wg, outgoing, queueVars, jobs, writeVars, panic>>

\* Mutant: no wg.Wait() before the Close calls.
CloseMsgsEarly(k) ==
  /\ phase[k] = "wait"
  /\ phase' = [phase EXCEPT ![k] = "closed"]
  /\ UNCHANGED <<connVars, callVars, at, todo, wg, outgoing, queueVars, jobs, writeVars, panic>>

\* The closing goroutine: wg.Wait(), then Close every message of the batch.
CloseMsgs(k) ==
  /\ phase[k] = "wait"
  /\ wg[k] = 0
  /\ phase' = [phase EXCEPT ![k] = "closed"]
  /\ UNCHANGED <<connVars, callVars, at, todo, wg, outgoing, queueVars, jobs, writeVars, panic>>

-----------------------------------------------------------------------------
(* The dispatcher: for j := range s.outgoing { j.c.Queue(j.Job) } *)

Take ==
  /\ dpc = "idle"
  /\ outgoing # <<>>
  /\ hand' = Head(outgoing)
  /\ outgoing' = Tail(outgoing)
  /\ dpc' = "check"
  /\ UNCHANGED <<connVars, callVars, pushVars, wg, qwg, jobs, writeVars, panic>>

\* Mutants of Queue on a stopped client: it gives nothing back, or has deferred
\* c.wg.Done before its Add.
QueueStoppedLost ==
  /\ dpc = "check"
  /\ Stopped(hand.c)
  /\ dpc' = "idle"
  /\ hand' = NoJob
  /\ UNCHANGED <<connVars, callVars, pushVars, wg, outgoing, qwg, jobs, writeVars, panic>>

\* Queue on a stopped client gives the messages back to the batch.
QueueStopped ==
  /\ dpc = "check"
  /\ Stopped(hand.c)
  /\ wg' = [wg EXCEPT ![hand.k] = @ - Cardinality(hand.ms)]
  /\ dpc' = "idle"
  /\ hand' = NoJob
  /\ UNCHANGED <<connVars, callVars, pushVars, outgoing, qwg, jobs, writeVars, panic>>

\* stopped is read without a lock, and c.wg.Add(1) is another step.
QueueCheck ==
  /\ dpc = "check"
  /\ ~Stopped(hand.c)
  /\ dpc' = "add"
  /\ UNCHANGED <<connVars, callVars, pushVars, wg, outgoing, hand, qwg, jobs, writeVars, panic>>

QueueAdd ==
  /\ dpc = "add"
  /\ qwg' = [qwg EXCEPT ![hand.c] = @ + 1]
  /\ dpc' = "send"
  /\ UNCHANGED <<connVars, callVars, pushVars, wg, outgoing, hand, jobs, writeVars, panic>>

\* c.jobs <- job: blocks while the buffer is full...
QueueSend ==
  LET c == hand.c IN
  /\ dpc = "send"
  /\ ~Closed(c)
  /\ Len(jobs[c]) < JobBuf
  /\ jobs' = [jobs EXCEPT ![c] = Append(@, hand)]
  /\ dpc' = "done"
  /\ UNCHANGED <<connVars, callVars, pushVars, wg, outgoing, hand, qwg, writeVars, panic>>

\* ...and panics once the channel is closed.
QueuePanic ==
  /\ dpc = "send"
  /\ Closed(hand.c)
  /\ panic' = TRUE
  /\ UNCHANGED <<connVars, callVars, pushVars, wg, outgoing, queueVars, jobs, writeVars>>

\* Mutant: no c.wg.Done().
QueueDoneNot ==
  /\ dpc = "done"
  /\ dpc' = "idle"
  /\ hand' = NoJob
  /\ UNCHANGED <<connVars, callVars, pushVars, wg, outgoing, qwg, jobs, writeVars, panic>>

QueueDone ==
  /\ dpc = "done"
  /\ qwg' = [qwg EXCEPT ![hand.c] = @ - 1]
  /\ dpc' = "idle"
  /\ hand' = NoJob
  /\ UNCHANGED <<connVars, callVars, pushVars, wg, outgoing, jobs, writeVars, panic>>

-----------------------------------------------------------------------------
(* The writer goroutine of a connection: Run and send *)

WriterTake(c) ==
  /\ wpc[c] = "idle"
  /\ jobs[c] # <<>>
  /\ cur' = [cur EXCEPT ![c] = Head(jobs[c])]
  /\ left' = [left EXCEPT ![c] = Head(jobs[c]).ms]
  /\ jobs' = [jobs EXCEPT ![c] = Tail(@)]
  /\ wpc' = [wpc EXCEPT ![c] = "send"]
  /\ UNCHANGED <<connVars, callVars, pushVars, wg, outgoing, queueVars, last, log, panic>>

\* Mutant: the messages of a job in any order.
NextMsgsAny(c) == left[c]

\* The next message of the job: the order of Msgs is that of the entries.
NextMsgs(c) == {m \in left[c] : \A n \in left[c] : m[1] <= n[1]}

SameAsLast(c, h, x) == x \notin NeverEqual /\ last[c][h] = x

\* Mutant: a message that was written may be sent again.
WriterSendAgain(c) ==
  /\ wpc[c] = "send"
  /\ \E m \in NextMsgs(c) : log' = [log EXCEPT ![c] = Append(@, <<cur[c].k, m[1], "written">>)]
  /\ wpc' \in {wpc, [wpc EXCEPT ![c] = "done"]}
  /\ UNCHANGED <<connVars, callVars, pushVars, wg, outgoing, queueVars, jobs, cur, left, last, panic>>

\* send: suppressed when Equal to the last one; last is set before writing.
\* A failed write is reported and changes nothing here: "written" is tried.
WriterSend(c) ==
  /\ wpc[c] = "send"
  /\ \E m \in NextMsgs(c) :
       LET x == batch[cur[c].k][m[1]].msg
           h == cur[c].h
           Logged(o) == log' = [log EXCEPT ![c] = Append(@, <<cur[c].k, m[1], o>>)]
       IN \/ SameAsLast(c, h, x) /\ Logged("equal") /\ UNCHANGED last
          \/ /\ ~SameAsLast(c, h, x)
             /\ last' = [last EXCEPT ![c][h] = x]
             /\ Logged("written")
  /\ wpc' = [wpc EXCEPT ![c] = "done"]
  /\ UNCHANGED <<connVars, callVars, pushVars, wg, outgoing, queueVars, jobs, cur, left, panic>>

\* j.WG.Done(), whatever send returned, and on to the next message or job.
WriterDone(c) ==
  /\ wpc[c] = "done"
  /\ \E m \in NextMsgs(c) :
       /\ left' = [left EXCEPT ![c] = @ \ {m}]
       /\ IF left[c] = {m}
          THEN /\ wpc' = [wpc EXCEPT ![c] = "idle"]
               /\ cur' = [cur EXCEPT ![c] = NoJob]
          ELSE /\ wpc' = [wpc EXCEPT ![c] = "send"]
               /\ UNCHANGED cur
  /\ wg' = [wg EXCEPT ![cur[c].k] = @ - 1]
  /\ UNCHANGED <<connVars, callVars, pushVars, outgoing, queueVars, jobs, last, log, panic>>

\* The range over a closed and drained channel ends.
WriterExit(c) ==
  /\ wpc[c] = "idle"
  /\ Closed(c)
  /\ jobs[c] = <<>>
  /\ wpc' = [wpc EXCEPT ![c] = "exit"]
  /\ UNCHANGED <<connVars, callVars, pushVars, wg, outgoing, queueVars, jobs, cur, left, last, log, panic>>

-----------------------------------------------------------------------------
ConnStep(c)   == \/ LockSet(c) \/ SetClient(c) \/ LockUnset(c)
                 \/ Stop(c) \/ StopWait(c) \/ CloseJobs(c)
CallerStep(p) == Push(p) \/ Return(p)
DispatchStep  == \/ Take \/ QueueStopped \/ QueueCheck \/ QueueAdd
                 \/ QueueSend \/ QueuePanic \/ QueueDone
WriterStep(c) == WriterTake(c) \/ WriterSend(c) \/ WriterDone(c) \/ WriterExit(c)

\* Everyone has left and every batch is closed, or the process is dead.
Finished ==
  \/ panic
  \/ /\ \A c \in Conns : conn[c] = "gone" /\ wpc[c] = "exit"
     /\ \A k \in Calls : phase[k] \in {"idle", "closed"}

Terminating == Finished /\ UNCHANGED vars

Next ==
  \/ /\ ~panic
     /\ \/ \E c \in Conns : ConnStep(c) \/ Leave(c) \/ WriterStep(c)
        \/ \E p \in Callers : CallerStep(p) \/ \E b \in Batches : BroadcastBatch(p, b)
        \/ \E k \in Calls : CloseMsgs(k)
        \/ DispatchStep
  \/ Terminating

Spec == Init /\ [][Next]_vars

\* Goroutines are scheduled. A write ends: the connection has a deadline of
\* 120 s. Peers need not connect, leave, or make anyone broadcast.
Fairness ==
  /\ \A c \in Conns : WF_vars(~panic /\ ConnStep(c)) /\ WF_vars(~panic /\ WriterStep(c))
  /\ \A p \in Callers : WF_vars(~panic /\ CallerStep(p))
  /\ \A k \in Calls : WF_vars(~panic /\ CloseMsgs(k))
  /\ WF_vars(~panic /\ DispatchStep)

FairSpec == Spec /\ Fairness

-----------------------------------------------------------------------------
(* Where the messages of a call are *)

InHand == IF dpc \in {"check", "add", "send"} THEN {hand} ELSE {}

Unpushed == UNION {todo[k] : k \in Calls}
Queued   == UNION {Range(jobs[c]) : c \in Conns}
Waiting  == Unpushed \cup Range(outgoing) \cup InHand \cup Queued

\* What call k still owes: messages of its waiting jobs, and those its
\* recipients' writers have taken but not acknowledged with Done.
WaitingUses(k) == UNION {j.ms : j \in {i \in Waiting : i.k = k}}
WriterUses(k)  == UNION {left[c] : c \in {d \in Conns : cur[d].k = k}}
Pending(k)     == WaitingUses(k) \cup WriterUses(k)

Uses == {M \in SUBSET (Nat \X Subs) : IsFiniteSet(M)}

Job == [k : Calls, c : Conns, h : Channels, ms : Uses]

TypeOK ==
  /\ conn \in [Conns -> {"new", "set", "run", "left", "unset", "stop", "close", "gone"}]
  /\ writer \in Conns \cup {None}
  /\ reg \subseteq Subs
  /\ calls \in 0..MaxCalls
  /\ at \in [Callers -> 0..MaxCalls]
  /\ by \in [Calls -> Callers \cup {None}]
  /\ batch \in [Calls -> Batches \cup {<<>>}]
  /\ hits \in [Calls -> Uses]
  /\ phase \in [Calls -> {"idle", "push", "wait", "closed"}]
  /\ todo \in [Calls -> SUBSET Job]
  /\ wg \in [Calls -> Int]
  /\ outgoing \in Seq(Job)
  /\ dpc \in {"idle", "check", "add", "send", "done"}
  /\ hand \in Job \cup {NoJob}
  /\ qwg \in [Conns -> Nat]
  /\ jobs \in [Conns -> Seq(Job)]
  /\ wpc \in [Conns -> {"off", "idle", "send", "done", "exit"}]
  /\ cur \in [Conns -> Job \cup {NoJob}]
  /\ left \in [Conns -> Uses]
  /\ panic \in BOOLEAN

-----------------------------------------------------------------------------
(* Safety *)

\* A message is closed only when no queue holds it and no writer is using it
\* (BroadcastBatch waits for the WaitGroup before the Close calls).
CloseAfterUse == \A k \in Calls : phase[k] = "closed" => Pending(k) = {}

\* The WaitGroup counts exactly what the call owes: a count too high leaks
\* the batch's messages for ever, one too low closes them under a writer,
\* and one below zero panics.
CounterExact ==
  \A k \in Calls : phase[k] # "idle" => wg[k] = Cardinality(Pending(k))

\* While a call still pushes jobs, nobody it addresses is being stopped: only
\* jobs already in s.outgoing can meet a stopped client.
PushToLive ==
  \A k \in Calls : \A j \in todo[k] : conn[j.c] \in {"run", "left", "unset"}

\* A caller's messages reach a client in the order the caller sent them,
\* across calls, entries and channels (a history reset precedes the
\* messages it is for).
CallerOrder ==
  \A c \in Conns : \A i, j \in DOMAIN log[c] :
    LET a == log[c][i]
        b == log[c][j]
    IN  i < j /\ by[a[1]] = by[b[1]] => a[1] < b[1] \/ (a[1] = b[1] /\ a[2] <= b[2])

\* Once a batch is closed, each connection it selected that has not left has
\* been handed each of its messages once per selected registration; others
\* got no more than that.
ServedOnce ==
  \A k \in Calls : phase[k] = "closed" =>
    \A c \in Conns : \A e \in DOMAIN batch[k] :
      LET sent   == {i \in DOMAIN log[c] : log[c][i][1] = k /\ log[c][i][2] = e}
          wanted == {m \in hits[k] : m[1] = e /\ m[2][1] = c}
      IN  /\ Cardinality(sent) <= Cardinality(wanted)
          /\ conn[c] = "run" => Cardinality(sent) = Cardinality(wanted)

\* Both: nobody misses a message, gets one twice or out of its caller's order.
ServedInOrder == ServedOnce /\ CallerOrder

\* Queue reports a message for a stopped client as an error and goes on
\* ("client was stopped but still received a message"): the process survives.
StoppedIsReported == ~panic

\* Every BroadcastBatch call keeps the promise of BatchLifetime.
Lifetime ==
  INSTANCE BatchLifetime WITH
    Uses   <- Nat \X Subs,
    status <- [k \in Calls |-> IF phase[k] \in {"push", "wait"} THEN "open" ELSE phase[k]],
    owed   <- [k \in Calls |-> Pending(k)]

LifetimeSpec == Lifetime!Spec

-----------------------------------------------------------------------------
(* Liveness, unless the process dies *)

\* Every batch is closed in the end, though recipients leave meanwhile and
\* buffers fill up.
BatchesClose == \A k \in Calls : phase[k] = "push" ~> phase[k] = "closed" \/ panic

\* A connection whose read loop has ended is removed, though unsetClient
\* waits for the write lock and, inside it, for the dispatcher.
LeaversGo == \A c \in Conns : conn[c] = "left" ~> conn[c] = "gone" \/ panic

\* Broadcasts and leaving clients never wait for each other for ever.
NothingHangs == BatchesClose /\ LeaversGo

-----------------------------------------------------------------------------
(* The inductive invariant behind CloseAfterUse, CounterExact and           *)
(* PushToLive (proved in DeliveryProofs)                                    *)

\* The write lock: its holder is known, readers are out while it is used,
\* and the registry holds connections that are between the two lock uses.
LockInv ==
  /\ \A c \in Conns : conn[c] \in {"set", "unset", "stop", "close"} => writer = c
  /\ \A c \in Conns : conn[c] \in {"stop", "close"} => NoReaders
  /\ \A s \in reg : conn[s[1]] \in {"run", "left", "unset", "stop", "close"}

\* Calls start in order and each has its caller while it pushes.
CallInv ==
  /\ \A k \in Calls : phase[k] = "idle" <=> k > calls
  /\ \A p \in Callers : at[p] # 0 => phase[at[p]] = "push"
  /\ \A p, q \in Callers : at[p] = at[q] /\ at[p] # 0 => p = q
  /\ \A k \in Calls : todo[k] # {} => \E p \in Callers : at[p] = k
  /\ \A k \in Calls : \A j \in todo[k] : j.k = k

\* Waiting jobs belong to open calls and address one connection.
WaitInv ==
  \A j \in Waiting : /\ phase[j.k] \in {"push", "wait"}
                     /\ j.ms # {}
                     /\ \A m \in j.ms : m[2][1] = j.c

\* The dispatcher has a job from Take to the end of Queue, and Client.wg
\* counts the Queue call between its Add and its Done.
HandInv ==
  /\ hand = NoJob <=> dpc = "idle"
  /\ \A c \in Conns : qwg[c] = IF dpc \in {"send", "done"} /\ hand.c = c THEN 1 ELSE 0

QueueInv == \A c \in Conns : \A j \in Range(jobs[c]) : j.c = c

\* A writer at work has a job of an open call and messages of its own left.
WriterInv ==
  \A c \in Conns :
    /\ conn[c] \in {"new", "set"} => wpc[c] = "off"
    /\ IF wpc[c] \in {"send", "done"}
       THEN /\ cur[c] # NoJob
            /\ phase[cur[c].k] \in {"push", "wait"}
            /\ left[c] # {}
            /\ \A m \in left[c] : m[2][1] = c
       ELSE cur[c] = NoJob /\ left[c] = {}

\* A job is in one place only, and no message is in two jobs of a call.
PlaceInv ==
  /\ IsInjective(outgoing)
  /\ \A c \in Conns : IsInjective(jobs[c])
  /\ Unpushed \cap (Range(outgoing) \cup InHand \cup Queued) = {}
  /\ Range(outgoing) \cap (InHand \cup Queued) = {}
  /\ InHand \cap Queued = {}
  /\ \A i, j \in Waiting : i.k = j.k /\ i.ms \cap j.ms # {} => i = j
  /\ \A j \in Waiting, c \in Conns : cur[c].k = j.k => j.ms \cap left[c] = {}

\* The counter of every WaitGroup is the number of messages still owed.
CountInv ==
  \A k \in Calls : /\ IsFiniteSet(Pending(k))
                   /\ wg[k] = Cardinality(Pending(k))
                   /\ phase[k] = "closed" => Pending(k) = {}

\* The state of the registry, calls, queues, writers and counters agree.
IInv ==
  /\ TypeOK /\ LockInv /\ PushToLive /\ CallInv
  /\ WaitInv /\ HandInv /\ QueueInv /\ WriterInv
  /\ PlaceInv /\ CountInv
=============================================================================
