------------------------------ MODULE Session -------------------------------
(***************************************************************************)
(* A client's connection to the server, from both sides: connect, send,    *)
(* Close and Run of client/client.go, handleConn and newClient of          *)
(* server/server.go, and the PolicyLoader of cmd/server/flags.go.          *)
(* In the client, Run, its ping goroutine and the main goroutine share     *)
(* c.conn. Any of them may find it nil and dial, which holds c.sem; any of *)
(* them may hold a reader or writer of a connection that another has       *)
(* replaced, and the one that fails closes whatever is then the current.   *)
(* A link is one connection; the ends in ended[k] have closed theirs.      *)
(***************************************************************************)
EXTENDS Integers, Sequences, FiniteSets

CONSTANTS
  Policy,    \* ClientPolicy: "world", "allow" or "fixed"
  Files,     \* what the policy file may hold at first
  MaxDials,  \* bound: connections made
  MaxFaults  \* bound: connections that the server, the network or a handler breaks

ASSUME SessionAssumption ==
  /\ Policy \in {"world", "allow", "fixed"}
  /\ Files \subseteq {"listed", "unlisted", "bad"}
  /\ {MaxDials, MaxFaults} \subseteq Nat

Links == 1..MaxDials
Procs == {"main", "run", "ping"}

VARIABLES
  pc,       \* pc[p]: where a goroutine of the client is
  using,    \* using[p]: the link whose reader or writer it holds, 0 if none
  op,       \* what main does: "none" yet, "connect", "chat", "close"
  conn,     \* c.conn, 0 if nil
  sem,      \* who holds c.sem over several steps: the goroutine that dials
  fatal,    \* c.fatal
  trusted,  \* the server's fingerprint is the configured one
  dials,
  ended,    \* ended[k]: the ends of link k that are closed
  toServer, toClient,
  handler,  \* handler[k]: where handleConn is
  asked,    \* history: what the client has asked for first on link k
  file, list, fresh, loader, \* the policy file; PolicyLoader: list, lastLoad, rw
  faults

clientVars == <<pc, using, op, conn, sem, fatal, trusted, dials, asked>>
policyVars == <<file, list, fresh, loader>>
linkVars   == <<ended, toServer, toClient>>
vars == <<clientVars, policyVars, linkVars, handler, faults>>

Init ==
  /\ pc = [p \in Procs |-> IF p = "main" THEN "idle" ELSE "off"]
  /\ using = [p \in Procs |-> 0]
  /\ op = "none" /\ conn = 0 /\ sem = "free" /\ fatal = "no"
  /\ trusted \in BOOLEAN
  /\ dials = 0
  /\ ended = [k \in Links |-> {}]
  /\ toServer = [k \in Links |-> <<>>] /\ toClient = [k \in Links |-> <<>>]
  /\ handler = [h \in Links |-> "off"]
  /\ asked = [k \in Links |-> {}]
  /\ file \in Files
  /\ list = "nil" /\ fresh = FALSE /\ loader = "free"
  /\ faults = 0

To(p, l) == pc' = [pc EXCEPT ![p] = l]

-----------------------------------------------------------------------------
(* client: connect *)

\* Where connect's caller goes with an error, f being what Err() then says:
\* Run ends if it is fatal; everyone else disconnects.
Failed(p, f) == IF p = "run" /\ f # "no" THEN "end" ELSE "drop"

\* Mutant: a fatal error is forgotten.
ConnectAnyway(p) ==
  /\ pc[p] = "connect"
  /\ To(p, "lock")
  /\ UNCHANGED <<using, op, conn, sem, fatal, trusted, dials, asked, policyVars, linkVars, handler, faults>>

\* connect looks at fatal before it takes the lock.
Connect(p) ==
  /\ pc[p] = "connect"
  /\ To(p, IF fatal = "no" THEN "lock" ELSE Failed(p, fatal))
  /\ UNCHANGED <<using, op, conn, sem, fatal, trusted, dials, asked, policyVars, linkVars, handler, faults>>

\* What the caller of connect wanted the connection for.
Purpose(p) == CASE p = "run" -> "read" [] p = "ping" -> "msg" [] OTHER -> IF op = "connect" THEN "idle" ELSE "msg"

\* tryConnect with a connection.
Reuse(p) ==
  /\ pc[p] = "lock" /\ sem = "free"
  /\ conn # 0
  /\ using' = [using EXCEPT ![p] = conn]
  /\ To(p, Purpose(p))
  /\ UNCHANGED <<op, conn, sem, fatal, trusted, dials, asked, policyVars, linkVars, handler, faults>>

\* tryConnect without one dials (at most every two seconds) and keeps the
\* lock while it negotiates; the protocol byte needs no answer.
Dial(p) ==
  /\ pc[p] = "lock" /\ sem = "free"
  /\ conn = 0
  /\ dials < MaxDials
  /\ dials' = dials + 1
  /\ using' = [using EXCEPT ![p] = dials + 1]
  /\ sem' = p
  /\ To(p, "key")
  /\ handler' = [handler EXCEPT ![dials + 1] = "accept"]
  /\ UNCHANGED <<op, conn, fatal, trusted, asked, policyVars, linkVars, faults>>

\* The server cannot be reached.
DialFails(p) ==
  /\ pc[p] = "lock" /\ sem = "free"
  /\ conn = 0
  /\ faults < MaxFaults
  /\ faults' = faults + 1
  /\ To(p, Failed(p, fatal))
  /\ UNCHANGED <<using, op, conn, sem, fatal, trusted, dials, asked, policyVars, linkVars, handler>>

\* p takes message m from its link.
Receives(p, m) ==
  /\ toClient[using[p]] # <<>>
  /\ Head(toClient[using[p]]) = m
  /\ toClient' = [toClient EXCEPT ![using[p]] = Tail(@)]

\* p writes ms on link k: what is written on a link whose other end is closed
\* gets lost, if the write does not fail.
Writes(k, ms) ==
  /\ "client" \notin ended[k]
  /\ toServer' = [toServer EXCEPT ![k] = IF "server" \in ended[k] THEN @ ELSE @ \o ms]

WriteFails(k) == ended[k] # {}

\* negotiateCrypto, then the fingerprint is compared.
Key(p) ==
  /\ pc[p] = "key"
  /\ Receives(p, "key")
  /\ Writes(using[p], <<"key">>)
  /\ IF trusted
     THEN To(p, "test") /\ UNCHANGED <<sem, fatal>>
     ELSE /\ fatal' = "fingerprint"
          /\ sem' = "free"
          /\ To(p, Failed(p, "fingerprint"))
  /\ UNCHANGED <<using, op, conn, trusted, dials, asked, policyVars, ended, handler, faults>>

\* negotiateSymmetric sends the test back; negotiateUser says who it is.
Test(p) ==
  /\ pc[p] = "test"
  /\ Receives(p, "test")
  /\ Writes(using[p], <<"identify">>)
  /\ To(p, "status")
  /\ UNCHANGED <<using, op, conn, sem, fatal, trusted, dials, asked, policyVars, ended, handler, faults>>

\* Any other status than OK is fatal.
Status(p) ==
  /\ pc[p] = "status"
  /\ \/ /\ Receives(p, "ok")
        /\ To(p, "identity")
        /\ UNCHANGED <<sem, fatal>>
     \/ /\ \E s \in {"error", "notallowed"} : Receives(p, s)
        /\ fatal' = "refused"
        /\ sem' = "free"
        /\ To(p, Failed(p, "refused"))
  /\ UNCHANGED <<using, op, conn, trusted, dials, asked, policyVars, ended, toServer, handler, faults>>

\* Mutant: whoever reads the name does not ask for the history.
IdentityOnly(p) ==
  /\ pc[p] = "identity"
  /\ Receives(p, "identity")
  /\ conn' = using[p]
  /\ sem' = "free"
  /\ To(p, Purpose(p))
  /\ UNCHANGED <<using, op, fatal, trusted, dials, asked, policyVars, ended, toServer, handler, faults>>

\* The name is known: the connection is the current one. Who dialled goes on
\* to ask for the history and the users.
Identity(p) ==
  /\ pc[p] = "identity"
  /\ Receives(p, "identity")
  /\ conn' = using[p]
  /\ sem' = "free"
  /\ To(p, "history")
  /\ UNCHANGED <<using, op, fatal, trusted, dials, asked, policyVars, ended, toServer, handler, faults>>

\* Mutant: the error return keeps the lock.
NegotiationFailsLocked(p) ==
  /\ pc[p] \in {"key", "test", "status", "identity"}
  /\ toClient[using[p]] = <<>>
  /\ "server" \in ended[using[p]]
  /\ To(p, Failed(p, fatal))
  /\ UNCHANGED <<using, op, conn, sem, fatal, trusted, dials, asked, policyVars, linkVars, handler, faults>>

\* A read or write fails; nobody closes this link.
NegotiationFails(p) ==
  /\ pc[p] \in {"key", "test", "status", "identity"}
  /\ toClient[using[p]] = <<>>
  /\ "server" \in ended[using[p]]
  /\ sem' = "free"
  /\ To(p, Failed(p, fatal))
  /\ UNCHANGED <<using, op, conn, fatal, trusted, dials, asked, policyVars, linkVars, handler, faults>>

-----------------------------------------------------------------------------
(* client: send and disconnect *)

\* send: under the lock, p writes on the link it holds, whatever the current
\* one is. On an error send disconnects. Of what a client sends on channels only
\* the goodbye is kept: the server reads on whatever the rest is.
Send(p, ms, then, otherwise) ==
  /\ sem = "free"
  /\ \/ Writes(using[p], ms) /\ To(p, then)
     \/ WriteFails(using[p]) /\ To(p, otherwise) /\ UNCHANGED toServer

\* The dialler asks for history and users; after an error in these, both send
\* and connect's caller disconnect.
AskFor(p, m, then) ==
  /\ pc[p] = m
  /\ Send(p, <<>>, then, "drop2")
  /\ asked' = [asked EXCEPT ![using[p]] = @ \cup {m}]
  /\ UNCHANGED <<using, op, conn, sem, fatal, trusted, dials, policyVars, ended, toClient, handler, faults>>

Ask(p) == AskFor(p, "history", "users") \/ AskFor(p, "users", Purpose(p))

SendMsg(p) ==
  /\ pc[p] = "msg"
  /\ Send(p, <<>>, "idle", "drop")
  /\ UNCHANGED <<using, op, conn, sem, fatal, trusted, dials, asked, policyVars, ended, toClient, handler, faults>>

\* Where p goes after it has disconnected.
Back(p) ==
  CASE pc[p] = "drop2" -> Failed(p, fatal)
    [] pc[p] = "drop" /\ p = "run" -> "connect"
    [] OTHER -> IF p = "main" /\ op = "close" THEN "closed" ELSE "idle"

\* Mutant: the connection is forgotten but not closed.
DisconnectOpen(p) ==
  /\ pc[p] \in {"drop", "drop2"} /\ sem = "free"
  /\ conn' = 0
  /\ using' = [using EXCEPT ![p] = 0]
  /\ To(p, Back(p))
  /\ UNCHANGED <<op, sem, fatal, trusted, dials, asked, policyVars, linkVars, handler, faults>>

\* disconnect closes the current connection, whichever p had trouble with.
Disconnect(p) ==
  /\ pc[p] \in {"drop", "drop2"} /\ sem = "free"
  /\ ended' = [k \in Links |-> IF k = conn THEN ended[k] \cup {"client"} ELSE ended[k]]
  /\ conn' = 0
  /\ using' = [using EXCEPT ![p] = 0]
  /\ To(p, Back(p))
  /\ UNCHANGED <<op, sem, fatal, trusted, dials, asked, policyVars, toServer, toClient, handler, faults>>

-----------------------------------------------------------------------------
(* client: Run, its ping goroutine, and main (cmd/client) *)

\* Reading ends when either end is closed, or a handler returns an error.
ReadFails ==
  /\ pc["run"] = "read"
  /\ \/ ended[using["run"]] # {} /\ UNCHANGED faults
     \/ faults < MaxFaults /\ faults' = faults + 1
  /\ To("run", "drop")
  /\ UNCHANGED <<using, op, conn, sem, fatal, trusted, dials, asked, policyVars, linkVars, handler>>

\* Every two seconds, unless the select takes done. (What main sends in between goes
\* the same way, connect and send, and is not modelled apart.)
Ping ==
  /\ pc["ping"] = "idle"
  /\ To("ping", "connect")
  /\ UNCHANGED <<using, op, conn, sem, fatal, trusted, dials, asked, policyVars, linkVars, handler, faults>>

\* done, once Run has left its loop.
PingEnds ==
  /\ pc["ping"] = "idle"
  /\ pc["run"] = "end"
  /\ To("ping", "end")
  /\ UNCHANGED <<using, op, conn, sem, fatal, trusted, dials, asked, policyVars, linkVars, handler, faults>>

\* The terminal client connects before Run and lets the user accept a new
\* fingerprint; the other modes start with Run.
MainConnect ==
  /\ pc["main"] = "idle" /\ pc["run"] = "off"
  /\ \/ op = "none" /\ UNCHANGED trusted
     \/ op = "connect" /\ fatal = "fingerprint" /\ trusted' = TRUE
  /\ op' = "connect"
  /\ fatal' = "no"
  /\ To("main", "connect")
  /\ UNCHANGED <<using, conn, sem, dials, asked, policyVars, linkVars, handler, faults>>

StartRun ==
  /\ pc["main"] = "idle" /\ pc["run"] = "off"
  /\ op = "none" \/ (op = "connect" /\ conn # 0)
  /\ op' = "chat"
  /\ pc' = [pc EXCEPT !["run"] = "connect", !["ping"] = "idle"]
  /\ UNCHANGED <<using, conn, sem, fatal, trusted, dials, asked, policyVars, linkVars, handler, faults>>

\* Close takes the current writer, says goodbye on it and disconnects.
Close ==
  /\ pc["main"] = "idle" /\ op = "chat" /\ sem = "free"
  /\ op' = "close"
  /\ using' = [using EXCEPT !["main"] = conn]
  /\ To("main", IF conn = 0 THEN "drop" ELSE "eof")
  /\ UNCHANGED <<conn, sem, fatal, trusted, dials, asked, policyVars, linkVars, handler, faults>>

SendEOF ==
  /\ pc["main"] = "eof"
  /\ Send("main", <<"eof">>, "drop", "drop2")
  /\ UNCHANGED <<using, op, conn, sem, fatal, trusted, dials, asked, policyVars, ended, toClient, handler, faults>>

\* The process ends: after Close, when Run has returned, or when the first
\* Connect has failed.
Exit ==
  /\ \/ pc["main"] = "closed"
     \/ pc["main"] = "idle" /\ pc["run"] = "end"
     \/ pc["main"] = "idle" /\ pc["run"] = "off" /\ op = "connect" /\ conn = 0
  /\ pc' = [p \in Procs |-> "end"]
  /\ ended' = [k \in Links |-> IF k <= dials THEN ended[k] \cup {"client"} ELSE ended[k]]
  /\ conn' = 0
  /\ sem' = "free"
  /\ UNCHANGED <<using, op, fatal, trusted, dials, asked, policyVars, toServer, toClient, handler, faults>>

-----------------------------------------------------------------------------
(* server: handleConn *)

At(h, l) == handler' = [handler EXCEPT ![h] = l]

Answers(k, ms) ==
  toClient' = [toClient EXCEPT ![k] = IF "client" \in ended[k] THEN @ ELSE @ \o ms]

\* The server's key goes first.
Accept(k) ==
  /\ handler[k] = "accept"
  /\ Answers(k, <<"key">>)
  /\ At(k, "key")
  /\ UNCHANGED <<clientVars, policyVars, ended, toServer, faults>>

Next2Read(k, m) == toServer[k] # <<>> /\ Head(toServer[k]) = m

Reads(k, m) ==
  /\ Next2Read(k, m)
  /\ toServer' = [toServer EXCEPT ![k] = Tail(@)]

\* The client's key, then the echo of the test, then who it is.
Negotiate(k) ==
  /\ \/ handler[k] = "key" /\ Reads(k, "key") /\ Answers(k, <<"test">>) /\ At(k, "test")
     \/ /\ handler[k] = "test" /\ Reads(k, "identify") /\ UNCHANGED toClient
        /\ At(k, IF Policy = "world" THEN "allowed" ELSE "exists")
  /\ UNCHANGED <<clientVars, policyVars, ended, faults>>

\* Status, name and setClient.
Welcome(k) ==
  /\ handler[k] = "allowed"
  /\ Answers(k, <<"ok", "identity">>)
  /\ At(k, "serve")
  /\ UNCHANGED <<clientVars, policyVars, ended, toServer, faults>>

\* The handler returns: the connection is closed, what was not read is lost.
Returns(k) ==
  /\ At(k, "gone")
  /\ ended' = [ended EXCEPT ![k] = @ \cup {"server"}]
  /\ toServer' = [toServer EXCEPT ![k] = <<>>]

\* Refused, with a status that says why.
Refuse(k) ==
  /\ handler[k] \in {"error", "notallowed"}
  /\ Answers(k, <<handler[k]>>)
  /\ Returns(k)
  /\ UNCHANGED <<clientVars, policyVars, faults>>

\* The client says goodbye.
Goodbye(k) ==
  /\ handler[k] = "serve"
  /\ Next2Read(k, "eof")
  /\ Returns(k)
  /\ UNCHANGED <<clientVars, policyVars, toClient, faults>>

Waiting(k) == handler[k] \in {"accept", "key", "test", "serve"}

\* The client has closed its end and all it had sent is read.
Hangup(k) ==
  /\ Waiting(k)
  /\ "client" \in ended[k] /\ toServer[k] = <<>>
  /\ Returns(k)
  /\ UNCHANGED <<clientVars, policyVars, toClient, faults>>

\* A deadline, a broken link or the end of the server; what is on the way to
\* the client may get lost.
Drop(k) ==
  /\ Waiting(k)
  /\ faults < MaxFaults
  /\ faults' = faults + 1
  /\ Returns(k)
  /\ UNCHANGED toClient \/ toClient' = [toClient EXCEPT ![k] = <<>>]
  /\ UNCHANGED <<clientVars, policyVars>>

-----------------------------------------------------------------------------
(* server: PolicyLoader *)

\* Exists loads the list unless that began less than five seconds ago.
Exists(k) ==
  /\ handler[k] = "exists"
  /\ At(k, IF fresh THEN "lookup" ELSE "lock")
  /\ UNCHANGED <<clientVars, policyVars, linkVars, faults>>

\* Once locked, load looks again; lastLoad is set before the file is read.
LoadLock(k) ==
  /\ handler[k] = "lock" /\ loader = "free"
  /\ IF fresh THEN At(k, "lookup") /\ UNCHANGED <<fresh, loader>>
              ELSE At(k, "load") /\ fresh' = TRUE /\ loader' = "client"
  /\ UNCHANGED <<clientVars, file, list, linkVars, faults>>

\* Only a file without errors replaces the list.
ReadFile == list' = IF file = "bad" THEN list ELSE file

Load(k) ==
  /\ handler[k] = "load"
  /\ loader' = "free"
  /\ ReadFile
  /\ At(k, IF file = "bad" THEN "error" ELSE "lookup")
  /\ UNCHANGED <<clientVars, file, fresh, linkVars, faults>>

Verdict == IF list = "listed" THEN "allowed" ELSE "notallowed"

\* The list is read without the lock.
Lookup(k) ==
  /\ handler[k] = "lookup"
  /\ At(k, Verdict)
  /\ UNCHANGED <<clientVars, policyVars, linkVars, faults>>

\* The same for another client, as far as it touches the PolicyLoader (and not
\* before it can matter to this one).
OtherLock ==
  /\ loader = "free" /\ ~fresh
  /\ \E k \in Links : handler[k] \in {"exists", "lock"}
  /\ fresh' = TRUE /\ loader' = "other"
  /\ UNCHANGED <<clientVars, file, list, linkVars, handler, faults>>

OtherLoad ==
  /\ loader = "other"
  /\ loader' = "free"
  /\ ReadFile
  /\ UNCHANGED <<clientVars, file, fresh, linkVars, handler, faults>>

\* Five seconds have passed since lastLoad. (Here, and for an edit, it is enough
\* to look at the moments before somebody reads what changes.)
Expire ==
  /\ fresh
  /\ \E k \in Links : handler[k] \in {"exists", "lock"}
  /\ fresh' = FALSE
  /\ UNCHANGED <<clientVars, file, list, loader, linkVars, handler, faults>>

\* The administrator repairs the file or adds the client.
Edit ==
  /\ file # "listed"
  /\ loader # "free"
  /\ file' = "listed"
  /\ UNCHANGED <<clientVars, list, fresh, loader, linkVars, handler, faults>>

-----------------------------------------------------------------------------
ClientStep(p) ==
  \/ Connect(p) \/ Reuse(p) \/ Dial(p) \/ DialFails(p)
  \/ Key(p) \/ Test(p) \/ Status(p) \/ Identity(p) \/ NegotiationFails(p)
  \/ Ask(p) \/ SendMsg(p) \/ Disconnect(p)

RunStep  == ClientStep("run") \/ ReadFails
PingStep == ClientStep("ping") \/ PingEnds
MainStep == ClientStep("main") \/ SendEOF \/ MainConnect \/ StartRun

HandlerStep(k) ==
  Accept(k) \/ Negotiate(k) \/ Welcome(k) \/ Refuse(k) \/ Goodbye(k) \/ Hangup(k)
LoaderStep(k) == Exists(k) \/ LoadLock(k) \/ Load(k) \/ Lookup(k)

ServerStep == \E k \in Links : HandlerStep(k) \/ LoaderStep(k)

\* Another connection is wanted and the bound is used up.
Bounded == dials = MaxDials /\ conn = 0 /\ sem = "free"

Terminating ==
  /\ pc["main"] = "end" \/ Bounded
  /\ UNCHANGED vars

Next ==
  \/ RunStep \/ PingStep \/ MainStep
  \/ Ping \/ Close \/ Exit
  \/ ServerStep \/ (\E k \in Links : Drop(k)) \/ OtherLock \/ OtherLoad
  \/ Expire \/ Edit
  \/ Terminating

Spec == Init /\ [][Next]_vars

\* Goroutines run; c.sem and rw, mutexes of package sync, do not starve a
\* waiter, nor does select a case that stays ready. Pings recur every two
\* seconds. Nobody has to leave, edit or break.
Fairness ==
  /\ WF_vars(RunStep) /\ WF_vars(PingStep) /\ WF_vars(Ping) /\ WF_vars(MainStep)
  /\ SF_vars(PingEnds)
  /\ SF_vars(ServerStep) /\ WF_vars(OtherLoad)

FairSpec == Spec /\ Fairness

-----------------------------------------------------------------------------
\* Run never sits on a connection that others have given up: if what it reads
\* is not the current connection any more, its read fails.
ReadsCurrent == pc["run"] = "read" /\ using["run"] # conn => ended[using["run"]] # {}

\* Whoever dials, and whoever else uses or loses connections meanwhile: the
\* current one has asked for the history and the users, or is about to.
Introduced ==
  conn # 0 /\ "server" \notin ended[conn] =>
    \/ asked[conn] = {"history", "users"}
    \/ \E p \in Procs : using[p] = conn /\ pc[p] \in {"history", "users"}

\* The server keeps no connection registered that the client has lost track
\* of without closing its end: nobody is listed twice for long.
NoGhost ==
  \A k \in Links : handler[k] = "serve" /\ "client" \notin ended[k] =>
    conn = k \/ \E p \in Procs : using[p] = k /\ pc[p] \in {"status", "identity"}

\* As long as the policy file does not name the client, it is not let in,
\* whatever becomes of loads by others.
OnlyListed ==
  Policy # "world" /\ file # "listed" =>
    \A k \in Links : handler[k] \notin {"allowed", "serve"}

\* Whatever fails on the way, Run gets to read a connection or returns: no
\* error path keeps the lock, and no goroutine waits for another for ever.
RunGoesOn == pc["run"] = "connect" ~> pc["run"] \in {"read", "end"} \/ Bounded

\* After a fatal error Run and its ping goroutine end.
GivesUp ==
  fatal # "no" /\ pc["run"] # "off" ~> (pc["run"] = "end" /\ pc["ping"] = "end") \/ Bounded

\* The current connection, and no other, is read by Run and has been
\* introduced to the server.
CurrentInUse == ReadsCurrent /\ Introduced

\* The server's registrations are those of connections that the client has,
\* and of clients that the policy lets in.
RightlyRegistered == NoGhost /\ OnlyListed
=============================================================================
