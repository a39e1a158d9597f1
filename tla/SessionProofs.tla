---------------------------- MODULE SessionProofs ----------------------------
(***************************************************************************)
(* CurrentInUse and RightlyRegistered of module Session, for every policy, *)
(* first policy file and number of connections and faults.                 *)
(***************************************************************************)
EXTENDS Session, SequenceTheorems, TLAPS

\* Where a goroutine negotiates, and where it holds a link that was negotiated.
Dialling == {"key", "test", "status", "identity"}
Holding  == {"history", "users", "read", "msg", "eof"}
Resting  == {"idle", "connect", "lock", "drop", "drop2", "closed", "end"}

\* Where the server knows who the client is, or asks for it.
Known == {"exists", "lock", "load", "lookup", "allowed", "error", "notallowed", "serve"}

Requests == {"key", "identify", "eof"}
Replies  == {"key", "test", "ok", "identity", "error", "notallowed"}

ClientOK ==
  /\ pc \in [Procs -> {"off"} \cup Dialling \cup Holding \cup Resting]
  /\ using \in [Procs -> 0..MaxDials]
  /\ op \in {"none", "connect", "chat", "close"}
  /\ conn \in 0..MaxDials /\ dials \in 0..MaxDials
  /\ sem \in {"free"} \cup Procs
  /\ fatal \in {"no", "fingerprint", "refused"} /\ trusted \in BOOLEAN
  /\ asked \in [Links -> SUBSET {"history", "users"}]

ServerOK ==
  /\ handler \in [Links -> {"off", "accept", "key", "test", "gone"} \cup Known]
  /\ file \in {"listed", "unlisted", "bad"} /\ list \in {"nil", "listed", "unlisted"}
  /\ fresh \in BOOLEAN /\ loader \in {"free", "client", "other"}
  /\ faults \in Nat

WireOK ==
  /\ ended \in [Links -> SUBSET {"client", "server"}]
  /\ toServer \in [Links -> Seq(Requests)]
  /\ toClient \in [Links -> Seq(Replies)]

TypeOK == ClientOK /\ ServerOK /\ WireOK

\* Who holds c.sem negotiates a link, while nobody has a connection; the ping
\* goroutine starts with Run.
DialInv ==
  /\ pc["run"] = "off" => pc["ping"] = "off"
  /\ conn <= dials
  /\ \A p \in Procs : pc[p] \in Dialling \cup Holding => using[p] \in 1..dials
  /\ \A p \in Procs : pc[p] \in Dialling <=> sem = p
  /\ \A p \in Procs : sem = p => conn = 0 /\ "client" \notin ended[using[p]]

\* Message m is on its way in s.
Says(s, m) == \E i \in 1..Len(s) : s[i] = m

\* A link that was not dialled is silent.
FreshInv ==
  \A k \in Links : k > dials => handler[k] = "off" /\ ended[k] = {} /\ toServer[k] = <<>>

\* The current connection is open on this side; the server's end is closed by
\* the return of its handler, and a refusal is the last thing it sends.
EndInv ==
  /\ conn # 0 => "client" \notin ended[conn]
  /\ \A k \in Links : "server" \in ended[k] <=> handler[k] = "gone"
  /\ \A k \in Links : Says(toClient[k], "error") \/ Says(toClient[k], "notallowed") => handler[k] = "gone"

\* What Run has been given to read is the current connection, or its read fails.
RunInv ==
  pc["run"] \in {"history", "users", "read"} /\ using["run"] # conn => ended[using["run"]] # {}

\* History is asked for before users.
AskInv == \A p \in Procs : pc[p] = "users" => "history" \in asked[using[p]]

\* The client still knows of link k, or has closed it, or the server has.
Traced(k) ==
  \/ conn = k \/ "client" \in ended[k] \/ handler[k] = "gone"
  \/ \E p \in Procs : using[p] = k /\ pc[p] \in {"status", "identity"}

\* It does for every link on which the client has said who it is.
GhostInv ==
  \A k \in Links :
    handler[k] \in Known \/ Says(toServer[k], "identify") => Traced(k)

\* The list names the client only if the file does.
PolicyInv == file # "listed" => list # "listed"

LinkInv == TypeOK /\ DialInv /\ FreshInv /\ EndInv
UseInv  == RunInv /\ AskInv /\ Introduced
IInv    == LinkInv /\ UseInv /\ GhostInv /\ PolicyInv /\ OnlyListed

-----------------------------------------------------------------------------
(* What is on the links.                                                   *)

LEMMA SaysConcat ==
  ASSUME NEW S, NEW s \in Seq(S), NEW t \in Seq(S), NEW m
  PROVE  Says(s \o t, m) <=> Says(s, m) \/ Says(t, m)
<1>1. /\ Len(s) \in Nat /\ Len(t) \in Nat /\ Len(s \o t) = Len(s) + Len(t)
      /\ \A i \in 1..Len(s) + Len(t) : (s \o t)[i] = IF i <= Len(s) THEN s[i] ELSE t[i - Len(s)]
  BY ConcatProperties
<1>2. ASSUME Says(s \o t, m)  PROVE Says(s, m) \/ Says(t, m)
  <2>1. PICK i \in 1..Len(s) + Len(t) : (s \o t)[i] = m
    BY <1>1, <1>2 DEF Says
  <2>2. CASE i <= Len(s)
    <3>1. i \in 1..Len(s) /\ s[i] = m
      BY <1>1, <2>1, <2>2
    <3> QED BY <3>1 DEF Says
  <2>3. CASE i > Len(s)
    <3>1. i - Len(s) \in 1..Len(t) /\ t[i - Len(s)] = m
      BY <1>1, <2>1, <2>3
    <3> QED BY <3>1 DEF Says
  <2> QED BY <1>1, <2>2, <2>3
<1>3. ASSUME Says(s, m)  PROVE Says(s \o t, m)
  <2>1. PICK i \in 1..Len(s) : s[i] = m
    BY <1>3 DEF Says
  <2>2. i \in 1..Len(s \o t) /\ (s \o t)[i] = m
    BY <1>1, <2>1
  <2> QED BY <2>2 DEF Says
<1>4. ASSUME Says(t, m)  PROVE Says(s \o t, m)
  <2>1. PICK i \in 1..Len(t) : t[i] = m
    BY <1>4 DEF Says
  <2>2. i + Len(s) \in 1..Len(s \o t) /\ (s \o t)[i + Len(s)] = m
    BY <1>1, <2>1
  <2> QED BY <2>2 DEF Says
<1> QED BY <1>2, <1>3, <1>4

LEMMA SaysTail ==
  ASSUME NEW S, NEW s \in Seq(S), s # <<>>, NEW m
  PROVE  /\ Tail(s) \in Seq(S) /\ Says(s, Head(s))
         /\ Says(Tail(s), m) => Says(s, m)
<1>1. /\ Len(s) \in Nat /\ Len(s) > 0 /\ Head(s) = s[1] /\ Tail(s) \in Seq(S)
      /\ Len(Tail(s)) = Len(s) - 1 /\ \A i \in 1..Len(Tail(s)) : Tail(s)[i] = s[i + 1]
  BY HeadTailProperties
<1>2. Says(s, Head(s))
  BY <1>1 DEF Says
<1>3. ASSUME Says(Tail(s), m)  PROVE Says(s, m)
  <2>1. PICK i \in 1..Len(Tail(s)) : Tail(s)[i] = m
    BY <1>3 DEF Says
  <2>2. i + 1 \in 1..Len(s) /\ s[i + 1] = m
    BY <1>1, <2>1
  <2> QED BY <2>2 DEF Says
<1> QED BY <1>1, <1>2, <1>3

LEMMA SaysFew ==
  /\ \A m : ~Says(<<>>, m)
  /\ \A a, m : Says(<<a>>, m) <=> a = m
  /\ \A a, b, m : Says(<<a, b>>, m) <=> a = m \/ b = m
<1>1. \A m : ~Says(<<>>, m)
  BY DEF Says
<1>2. ASSUME NEW a, NEW m  PROVE Says(<<a>>, m) <=> a = m
  <2>1. Len(<<a>>) = 1 /\ <<a>>[1] = a
    OBVIOUS
  <2> QED BY <2>1 DEF Says
<1>3. ASSUME NEW a, NEW b, NEW m  PROVE Says(<<a, b>>, m) <=> a = m \/ b = m
  <2>1. Len(<<a, b>>) = 2 /\ <<a, b>>[1] = a /\ <<a, b>>[2] = b
    OBVIOUS
  <2>2. 1 \in 1..2 /\ 2 \in 1..2 /\ \A i \in 1..2 : i = 1 \/ i = 2
    OBVIOUS
  <2> QED BY <2>1, <2>2 DEF Says
<1> QED BY <1>1, <1>2, <1>3

\* Whoever writes adds to one link what it writes, or nothing.
LEMMA WritesOnly ==
  ASSUME WireOK, NEW k \in Links, NEW ms \in Seq(Requests), Writes(k, ms)
  PROVE  /\ "client" \notin ended[k]
         /\ toServer' \in [Links -> Seq(Requests)]
         /\ \A j \in Links : j # k => toServer'[j] = toServer[j]
         /\ \A j \in Links : \A m : Says(toServer'[j], m) => Says(toServer[j], m) \/ (j = k /\ Says(ms, m))
<1>1. /\ "client" \notin ended[k] /\ toServer[k] \in Seq(Requests)
      /\ toServer' = [toServer EXCEPT ![k] = IF "server" \in ended[k] THEN toServer[k] ELSE toServer[k] \o ms]
  BY DEF Writes, WireOK
<1>2. /\ toServer[k] \o ms \in Seq(Requests)
      /\ \A m : Says(toServer[k] \o ms, m) <=> Says(toServer[k], m) \/ Says(ms, m)
  BY <1>1, ConcatProperties, SaysConcat
<1>3. toServer'[k] \in {toServer[k], toServer[k] \o ms} /\ \A j \in Links : j # k => toServer'[j] = toServer[j]
  BY <1>1 DEF WireOK
<1>4. toServer' \in [Links -> Seq(Requests)]
  BY <1>1, <1>2 DEF WireOK
<1> QED BY <1>1, <1>2, <1>3, <1>4

\* The same for what the server answers.
LEMMA AnswersOnly ==
  ASSUME WireOK, NEW k \in Links, NEW ms \in Seq(Replies), Answers(k, ms)
  PROVE  /\ toClient' \in [Links -> Seq(Replies)]
         /\ \A j \in Links : j # k => toClient'[j] = toClient[j]
         /\ \A j \in Links : \A m : Says(toClient'[j], m) => Says(toClient[j], m) \/ (j = k /\ Says(ms, m))
<1>1. /\ toClient[k] \in Seq(Replies)
      /\ toClient' = [toClient EXCEPT ![k] = IF "client" \in ended[k] THEN toClient[k] ELSE toClient[k] \o ms]
  BY DEF Answers, WireOK
<1>2. /\ toClient[k] \o ms \in Seq(Replies)
      /\ \A m : Says(toClient[k] \o ms, m) <=> Says(toClient[k], m) \/ Says(ms, m)
  BY <1>1, ConcatProperties, SaysConcat
<1>3. toClient'[k] \in {toClient[k], toClient[k] \o ms} /\ \A j \in Links : j # k => toClient'[j] = toClient[j]
  BY <1>1 DEF WireOK
<1>4. toClient' \in [Links -> Seq(Replies)]
  BY <1>1, <1>2 DEF WireOK
<1> QED BY <1>1, <1>2, <1>3, <1>4

\* An answer that refuses nothing.
LEMMA QuietAnswer ==
  ASSUME WireOK, NEW k \in Links, NEW ms \in Seq(Replies), Answers(k, ms),
         ~Says(ms, "error"), ~Says(ms, "notallowed")
  PROVE  /\ toClient' \in [Links -> Seq(Replies)]
         /\ \A j \in Links : j # k => toClient'[j] = toClient[j]
         /\ \A m \in {"error", "notallowed"} : Says(toClient'[k], m) => Says(toClient[k], m)
<1>1. /\ toClient' \in [Links -> Seq(Replies)]
      /\ \A j \in Links : j # k => toClient'[j] = toClient[j]
      /\ \A j \in Links : \A m : Says(toClient'[j], m) => Says(toClient[j], m) \/ (j = k /\ Says(ms, m))
  BY AnswersOnly
<1> QED BY <1>1

\* Whoever receives a message takes one that was on its link.
LEMMA ReceivesOnly ==
  ASSUME WireOK, NEW p, using[p] \in Links, NEW m, Receives(p, m)
  PROVE  /\ toClient' \in [Links -> Seq(Replies)] /\ Says(toClient[using[p]], m)
         /\ \A j \in Links : \A x : Says(toClient'[j], x) => Says(toClient[j], x)
<1> DEFINE k == using[p]
<1>1. /\ toClient[k] \in Seq(Replies) /\ toClient[k] # <<>> /\ Head(toClient[k]) = m
      /\ toClient' = [toClient EXCEPT ![k] = Tail(toClient[k])]
  BY DEF Receives, WireOK
<1>2. /\ Tail(toClient[k]) \in Seq(Replies) /\ Says(toClient[k], m)
      /\ \A x : Says(Tail(toClient[k]), x) => Says(toClient[k], x)
  BY <1>1, SaysTail
<1>3. toClient'[k] = Tail(toClient[k]) /\ \A j \in Links : j # k => toClient'[j] = toClient[j]
  BY <1>1 DEF WireOK
<1>4. toClient' \in [Links -> Seq(Replies)]
  BY <1>1, <1>2 DEF WireOK
<1> QED BY <1>2, <1>3, <1>4

LEMMA ReadsOnly ==
  ASSUME WireOK, NEW k \in Links, NEW m, Reads(k, m)
  PROVE  /\ toServer' \in [Links -> Seq(Requests)] /\ Says(toServer[k], m)
         /\ \A j \in Links : \A x : Says(toServer'[j], x) => Says(toServer[j], x)
         /\ \A j \in Links : j # k => toServer'[j] = toServer[j]
<1>1. /\ toServer[k] \in Seq(Requests) /\ toServer[k] # <<>> /\ Head(toServer[k]) = m
      /\ toServer' = [toServer EXCEPT ![k] = Tail(toServer[k])]
  BY DEF Reads, Next2Read, WireOK
<1>2. /\ Tail(toServer[k]) \in Seq(Requests) /\ Says(toServer[k], m)
      /\ \A x : Says(Tail(toServer[k]), x) => Says(toServer[k], x)
  BY <1>1, SaysTail
<1>3. toServer'[k] = Tail(toServer[k]) /\ \A j \in Links : j # k => toServer'[j] = toServer[j]
  BY <1>1 DEF WireOK
<1>4. toServer' \in [Links -> Seq(Requests)]
  BY <1>1, <1>2 DEF WireOK
<1> QED BY <1>2, <1>3, <1>4

\* Where a goroutine goes when it has what it wanted, or has failed.
LEMMA WhereTo ==
  /\ \A p : Purpose(p) \in {"read", "msg", "idle"} /\ (Purpose(p) = "read" <=> p = "run")
  /\ \A p, f : Failed(p, f) \in {"drop", "end"}
  /\ \A p : Back(p) \in {"drop", "connect", "end", "closed", "idle"}
BY DEF Purpose, Failed, Back

-----------------------------------------------------------------------------
(* Types.                                                                  *)

LEMMA InitTypes == Init => TypeOK
<1> SUFFICES ASSUME Init  PROVE TypeOK
  OBVIOUS
<1>1. ClientOK
  <2>1. /\ pc \in [Procs -> {"off", "idle"}] /\ using = [p \in Procs |-> 0] /\ conn = 0 /\ dials = 0
        /\ op = "none" /\ sem = "free" /\ fatal = "no" /\ trusted \in BOOLEAN /\ asked = [k \in Links |-> {}]
    BY DEF Init, Resting
  <2>2. pc \in [Procs -> {"off"} \cup Dialling \cup Holding \cup Resting]
    BY <2>1 DEF Resting
  <2>3. MaxDials \in Nat
    BY SessionAssumption
  <2> QED BY <2>1, <2>2, <2>3 DEF ClientOK
<1>2. ServerOK
  BY SessionAssumption DEF Init, ServerOK
<1>3. WireOK
  BY EmptySeq DEF Init, WireOK
<1> QED BY <1>1, <1>2, <1>3 DEF TypeOK

LEMMA ClientTypes ==
  ASSUME TypeOK, RunStep \/ PingStep \/ MainStep \/ Ping \/ Close \/ Exit
  PROVE  ClientOK'
<1>1. /\ ClientOK /\ MaxDials \in Nat /\ {"run", "ping", "main"} = Procs
      /\ Resting \subseteq {"off"} \cup Dialling \cup Holding \cup Resting
  BY SessionAssumption DEF TypeOK, Procs
<1>2. ASSUME NEW q \in Procs, ClientStep(q)  PROVE ClientOK'
  <2>1. CASE Connect(q)
    BY <1>1, <2>1, WhereTo DEF Connect, To, ClientOK, Resting
  <2>2. CASE Reuse(q)
    BY <1>1, <2>2, WhereTo DEF Reuse, To, ClientOK, Holding, Resting
  <2>3. CASE Dial(q)
    BY <1>1, <2>3 DEF Dial, To, ClientOK, Dialling
  <2>4. CASE DialFails(q)
    BY <1>1, <2>4, WhereTo DEF DialFails, To, ClientOK, Resting
  <2>5. CASE Key(q)
    BY <1>1, <2>5, WhereTo DEF Key, To, ClientOK, Dialling, Resting
  <2>6. CASE Test(q)
    BY <1>1, <2>6 DEF Test, To, ClientOK, Dialling
  <2>7. CASE Status(q)
    BY <1>1, <2>7, WhereTo DEF Status, To, ClientOK, Dialling, Resting
  <2>8. CASE Identity(q)
    BY <1>1, <2>8 DEF Identity, To, ClientOK, Holding
  <2>9. CASE NegotiationFails(q)
    BY <1>1, <2>9, WhereTo DEF NegotiationFails, To, ClientOK, Resting
  <2>10. ASSUME NEW m \in {"history", "users"}, NEW then \in {"users", Purpose(q)}, AskFor(q, m, then)
         PROVE  ClientOK'
    <3>1. /\ pc' = [pc EXCEPT ![q] = then] \/ pc' = [pc EXCEPT ![q] = "drop2"]
          /\ asked' = [asked EXCEPT ![using[q]] = @ \cup {m}]
          /\ UNCHANGED <<using, op, conn, sem, fatal, trusted, dials>>
      BY <2>10 DEF AskFor, Send, To
    <3>2. then \in Dialling \cup Holding \cup Resting
      BY WhereTo DEF Holding, Resting
    <3>3. asked' \in [Links -> SUBSET {"history", "users"}]
      BY <1>1, <3>1 DEF ClientOK
    <3>4. pc' \in [Procs -> {"off"} \cup Dialling \cup Holding \cup Resting]
      BY <1>1, <3>1, <3>2 DEF ClientOK, Resting
    <3> QED BY <1>1, <3>1, <3>3, <3>4 DEF ClientOK
  <2>11. CASE SendMsg(q)
    BY <1>1, <2>11 DEF SendMsg, Send, To, ClientOK, Resting
  <2>12. CASE Disconnect(q)
    BY <1>1, <2>12, WhereTo DEF Disconnect, To, ClientOK, Resting
  <2> QED BY <1>2, <2>1, <2>2, <2>3, <2>4, <2>5, <2>6, <2>7, <2>8, <2>9, <2>10, <2>11, <2>12 DEF ClientStep, Ask
<1>3. CASE ReadFails \/ Ping \/ PingEnds
  BY <1>1, <1>3 DEF ReadFails, Ping, PingEnds, To, ClientOK, Resting
<1>4. CASE MainConnect \/ StartRun
  BY <1>1, <1>4 DEF MainConnect, StartRun, To, ClientOK, Resting
<1>5. CASE Close \/ SendEOF
  BY <1>1, <1>5 DEF Close, SendEOF, Send, To, ClientOK, Holding, Resting
<1>6. CASE Exit
  BY <1>1, <1>6 DEF Exit, ClientOK, Resting
<1> QED BY <1>1, <1>2, <1>3, <1>4, <1>5, <1>6 DEF RunStep, PingStep, MainStep

\* The steps of the client leave the server's variables alone, but for a dial
\* and for the faults.
LEMMA ClientLeaves ==
  ASSUME TypeOK, RunStep \/ PingStep \/ MainStep \/ Ping \/ Close \/ Exit
  PROVE  ServerOK'
<1>1. ServerOK
  BY DEF TypeOK
<1>2. /\ UNCHANGED <<policyVars, handler>> \/ (UNCHANGED policyVars /\ handler' = [handler EXCEPT ![dials + 1] = "accept"])
      /\ UNCHANGED faults \/ faults' = faults + 1
  <2>1. ASSUME NEW q \in Procs, ClientStep(q)
        PROVE  /\ UNCHANGED <<policyVars, handler>>
                  \/ (UNCHANGED policyVars /\ handler' = [handler EXCEPT ![dials + 1] = "accept"])
               /\ UNCHANGED faults \/ faults' = faults + 1
    <3>1. CASE Dial(q) \/ DialFails(q)
      BY <3>1 DEF Dial, DialFails
    <3>2. CASE Connect(q) \/ Reuse(q) \/ Key(q) \/ Test(q)
      BY <3>2 DEF Connect, Reuse, Key, Test
    <3>3. CASE Status(q) \/ Identity(q) \/ NegotiationFails(q) \/ Disconnect(q)
      BY <3>3 DEF Status, Identity, NegotiationFails, Disconnect
    <3>4. CASE Ask(q) \/ SendMsg(q)
      BY <3>4 DEF Ask, AskFor, SendMsg
    <3> QED BY <2>1, <3>1, <3>2, <3>3, <3>4 DEF ClientStep
  <2>2. CASE ReadFails \/ PingEnds \/ SendEOF \/ MainConnect \/ StartRun \/ Ping \/ Close \/ Exit
    BY <2>2 DEF ReadFails, PingEnds, SendEOF, MainConnect, StartRun, Ping, Close, Exit
  <2> QED BY <2>1, <2>2 DEF RunStep, PingStep, MainStep, Procs
<1>3. UNCHANGED policyVars /\ faults' \in Nat
  BY <1>1, <1>2 DEF ServerOK
<1>4. handler' \in [Links -> {"off", "accept", "key", "test", "gone"} \cup Known]
  BY <1>1, <1>2 DEF ServerOK
<1> QED BY <1>1, <1>3, <1>4 DEF ServerOK, policyVars

\* The steps of the server, of other clients and of the administrator.
ServerSide(k) == HandlerStep(k) \/ LoaderStep(k) \/ Drop(k)
Elsewhere     == OtherLock \/ OtherLoad \/ Expire \/ Edit

LEMMA ServerTypes ==
  ASSUME TypeOK, NEW k \in Links, ServerSide(k) \/ Elsewhere
  PROVE  ServerOK'
<1>1. ServerOK /\ \A m \in Known : m \in {"off", "accept", "key", "test", "gone"} \cup Known
  BY DEF TypeOK
<1>2. CASE Accept(k) \/ Welcome(k) \/ Negotiate(k)
  BY <1>1, <1>2 DEF Accept, Welcome, Negotiate, At, ServerOK, Known, policyVars
<1>3. CASE Refuse(k) \/ Goodbye(k) \/ Hangup(k) \/ Drop(k)
  BY <1>1, <1>3 DEF Refuse, Goodbye, Hangup, Drop, Returns, At, ServerOK, policyVars
<1>4. CASE Exists(k) \/ Lookup(k)
  BY <1>1, <1>4 DEF Exists, Lookup, Verdict, At, ServerOK, Known, policyVars
<1>5. CASE LoadLock(k)
  BY <1>1, <1>5 DEF LoadLock, At, ServerOK, Known
<1>6. CASE Load(k)
  BY <1>1, <1>6 DEF Load, ReadFile, At, ServerOK, Known
<1>7. CASE Elsewhere
  BY <1>1, <1>7 DEF Elsewhere, OtherLock, OtherLoad, ReadFile, Expire, Edit, ServerOK
<1> QED BY <1>2, <1>3, <1>4, <1>5, <1>6, <1>7 DEF ServerSide, HandlerStep, LoaderStep

-----------------------------------------------------------------------------
(* What a step may do to the links, by its kind.                           *)

Others(p) == \A q \in Procs : q # p => pc'[q] = pc[q] /\ using'[q] = using[q]

\* Nothing is said on a link that is not dialled, and on the others not who
\* the client is.
Unsaid ==
  /\ toServer' \in [Links -> Seq(Requests)]
  /\ \A k \in Links : Says(toServer'[k], "identify") => Says(toServer[k], "identify")
  /\ \A k \in Links : k > dials => toServer'[k] = toServer[k]

\* Nothing new has arrived for the client.
Unheard ==
  /\ toClient' \in [Links -> Seq(Replies)]
  /\ \A k \in Links : \A m : Says(toClient'[k], m) => Says(toClient[k], m)

\* Nobody but goroutines that have nothing to negotiate or to ask for moves.
Retires ==
  /\ UNCHANGED <<using, conn, sem, dials, asked, ended, handler, toClient>> /\ Unsaid
  /\ \A p \in Procs :
       pc'[p] = pc[p] \/ (pc[p] \notin Dialling \cup {"history", "users"} /\ pc'[p] \in Resting)
  /\ pc["ping"] = "off" /\ pc'["ping"] # "off" => pc'["run"] # "off"

\* p takes the current connection, if there is one.
Takes(p) ==
  /\ sem = "free" /\ UNCHANGED <<conn, sem, dials, asked, linkVars, handler>> /\ Others(p)
  /\ pc[p] \in Resting
  /\ pc'[p] \in Resting \/ (pc'[p] \in {"read", "msg", "eof"} /\ conn # 0 /\ using'[p] = conn)

Dials(p) ==
  /\ sem = "free" /\ conn = 0 /\ dials < MaxDials
  /\ UNCHANGED <<conn, asked, linkVars>> /\ Others(p)
  /\ pc[p] \in Resting /\ pc'[p] = "key" /\ sem' = p
  /\ dials' = dials + 1 /\ using'[p] = dials + 1
  /\ handler' = [handler EXCEPT ![dials + 1] = "accept"]

\* p goes on with its negotiation or gives it up; the server may lose sight of
\* it only when its handler has returned.
Negotiates(p) ==
  /\ UNCHANGED <<using, conn, dials, asked, ended, handler>> /\ Others(p) /\ Unheard
  /\ pc[p] \in Dialling
  /\ (pc'[p] \in Dialling /\ sem' = sem) \/ (pc'[p] \in Resting /\ sem' = "free")
  /\ \/ Unsaid
     \/ /\ pc'[p] = "status" /\ toServer' \in [Links -> Seq(Requests)]
        /\ \A k \in Links : k # using[p] => toServer'[k] = toServer[k]
  /\ pc[p] \in {"status", "identity"} =>
       pc'[p] \in {"status", "identity"} \/ handler[using[p]] = "gone"

\* p's link becomes the current connection.
Adopts(p) ==
  /\ UNCHANGED <<using, dials, asked, ended, handler, toServer>> /\ Others(p) /\ Unheard
  /\ pc[p] \in Dialling /\ pc'[p] = "history" /\ sem' = "free" /\ conn' = using[p]

\* p asks for the history or the users, or finds the link broken.
Asks(p) ==
  /\ sem = "free"
  /\ UNCHANGED <<using, conn, sem, dials, ended, handler, toClient>> /\ Others(p) /\ Unsaid
  /\ pc[p] \in {"history", "users"}
  /\ \/ pc[p] = "history" /\ pc'[p] = "users"
     \/ pc[p] = "users" /\ pc'[p] \in {"read", "msg", "idle"}
     \/ pc'[p] = "drop2" /\ ended[using[p]] # {}
  /\ asked' = [asked EXCEPT ![using[p]] = @ \cup {pc[p]}]

\* The current connection is closed.
Closes(p) ==
  /\ sem = "free" /\ UNCHANGED <<sem, dials, asked, toServer, toClient, handler>> /\ Others(p)
  /\ conn' = 0 /\ pc[p] \in Resting /\ pc'[p] \in Resting
  /\ ended' = [k \in Links |-> IF k = conn THEN ended[k] \cup {"client"} ELSE ended[k]]

\* The handler of link k moves on or returns.
Serves(k) ==
  /\ UNCHANGED clientVars
  /\ handler[k] \notin {"off", "gone"} /\ handler'[k] # "off"
  /\ \A j \in Links : j # k =>
       handler'[j] = handler[j] /\ ended'[j] = ended[j] /\ toServer'[j] = toServer[j] /\ toClient'[j] = toClient[j]
  /\ \/ ended' = ended /\ handler'[k] # "gone"
     \/ ended'[k] = ended[k] \cup {"server"} /\ handler'[k] = "gone"
  /\ handler'[k] \in Known => handler[k] \in Known \/ Says(toServer[k], "identify")
  /\ Says(toServer'[k], "identify") => Says(toServer[k], "identify")
  /\ \A m \in {"error", "notallowed"} :
       Says(toClient'[k], m) => Says(toClient[k], m) \/ handler'[k] = "gone"

\* Sending on a link one holds, as far as the server needs to know.
LEMMA SendsNothing ==
  ASSUME TypeOK, DialInv, NEW p \in Procs, pc[p] \in Dialling \cup Holding,
         NEW ms \in Seq(Requests), ~Says(ms, "identify"),
         Writes(using[p], ms) \/ UNCHANGED toServer
  PROVE  Unsaid
<1>1. using[p] \in Links /\ using[p] \in 1..dials /\ WireOK /\ dials \in Nat
  BY SessionAssumption DEF TypeOK, ClientOK, DialInv, Links
<1>2. CASE Writes(using[p], ms)
  <2>1. /\ toServer' \in [Links -> Seq(Requests)]
        /\ \A k \in Links : k # using[p] => toServer'[k] = toServer[k]
        /\ \A k \in Links : \A m : Says(toServer'[k], m) => Says(toServer[k], m) \/ (k = using[p] /\ Says(ms, m))
    BY <1>1, <1>2, WritesOnly
  <2> QED BY <1>1, <2>1 DEF Unsaid
<1>3. CASE UNCHANGED toServer
  BY <1>1, <1>3 DEF Unsaid, WireOK
<1> QED BY <1>2, <1>3

LEMMA Quiet ==
  ASSUME TypeOK, UNCHANGED toServer  PROVE Unsaid
BY DEF TypeOK, WireOK, Unsaid

LEMMA ClientKinds ==
  ASSUME TypeOK, DialInv, EndInv, NEW p \in Procs, ClientStep(p)
  PROVE  \/ Retires
         \/ Takes(p) \/ Dials(p) \/ Negotiates(p) \/ Adopts(p) \/ Asks(p) \/ Closes(p)
<1>1. /\ ClientOK /\ WireOK /\ pc \in [Procs -> {"off"} \cup Dialling \cup Holding \cup Resting]
      /\ using \in [Procs -> 0..MaxDials] /\ Dialling \cap Resting = {} /\ Holding \cap Resting = {}
      /\ Dialling \cap Holding = {}
  BY DEF TypeOK, ClientOK, Dialling, Holding, Resting
<1>2. /\ pc[p] \in Dialling \cup Holding => using[p] \in Links /\ using[p] \in 1..dials /\ dials \in Nat
      /\ pc[p] \in Dialling => sem = p
      /\ \A l : To(p, l) => pc'[p] = l /\ \A q \in Procs : q # p => pc'[q] = pc[q]
  BY <1>1, SessionAssumption DEF ClientOK, DialInv, Links, To
<1>3. CASE Connect(p)
  <2>1. pc[p] = "connect" /\ pc'[p] \in Resting /\ \A q \in Procs : q # p => pc'[q] = pc[q]
    BY <1>2, <1>3, WhereTo DEF Connect, Resting
  <2>2. UNCHANGED <<using, conn, sem, dials, asked, ended, handler, toClient, toServer>>
    BY <1>3 DEF Connect, linkVars
  <2> QED BY <2>1, <2>2, Quiet DEF Retires, Dialling, Procs
<1>4. CASE DialFails(p)
  <2>1. pc[p] = "lock" /\ pc'[p] \in Resting /\ \A q \in Procs : q # p => pc'[q] = pc[q]
    BY <1>2, <1>4, WhereTo DEF DialFails, Resting
  <2>2. UNCHANGED <<using, conn, sem, dials, asked, ended, handler, toClient, toServer>>
    BY <1>4 DEF DialFails, linkVars
  <2> QED BY <2>1, <2>2, Quiet DEF Retires, Dialling, Procs
<1>5. CASE SendMsg(p)
  <2>1. pc[p] = "msg" /\ pc'[p] \in Resting /\ \A q \in Procs : q # p => pc'[q] = pc[q]
    BY <1>2, <1>5 DEF SendMsg, Send, Resting
  <2>2. /\ UNCHANGED <<using, conn, sem, dials, asked, ended, handler, toClient>>
        /\ Writes(using[p], <<>>) \/ UNCHANGED toServer
    BY <1>5 DEF SendMsg, Send
  <2>3. Unsaid
    BY <2>1, <2>2, SendsNothing, SaysFew, EmptySeq DEF Holding
  <2> QED BY <2>1, <2>2, <2>3 DEF Retires, Dialling, Procs
<1>6. CASE Reuse(p)
  <2>1. /\ pc[p] = "lock" /\ pc'[p] \in Resting \cup {"read", "msg"} /\ using'[p] = conn
        /\ \A q \in Procs : q # p => pc'[q] = pc[q] /\ using'[q] = using[q]
    BY <1>1, <1>2, <1>6, WhereTo DEF Reuse, Resting
  <2> QED BY <1>6, <2>1 DEF Reuse, Takes, Others, Resting
<1>7. CASE Dial(p)
  <2>1. /\ pc[p] = "lock" /\ pc'[p] = "key" /\ using'[p] = dials + 1
        /\ \A q \in Procs : q # p => pc'[q] = pc[q] /\ using'[q] = using[q]
    BY <1>1, <1>2, <1>7 DEF Dial
  <2> QED BY <1>7, <2>1 DEF Dial, Dials, Others, Resting
<1>8. CASE Key(p)
  <2>1. /\ pc[p] = "key" /\ UNCHANGED <<using, conn, dials, asked, ended, handler>>
        /\ Receives(p, "key") /\ Writes(using[p], <<"key">>)
        /\ (To(p, "test") /\ sem' = sem) \/ (\E f : To(p, Failed(p, f)) /\ sem' = "free")
    BY <1>8 DEF Key
  <2>2. Unsaid /\ Unheard
    <3>1. <<"key">> \in Seq(Requests) /\ ~Says(<<"key">>, "identify")
      BY SaysFew DEF Requests
    <3>2. Unsaid
      BY <2>1, <3>1, SendsNothing DEF Dialling
    <3> QED BY <1>1, <1>2, <2>1, <3>2, ReceivesOnly DEF Unheard, Dialling
  <2>3. (pc'[p] \in Dialling /\ sem' = sem) \/ (pc'[p] \in Resting /\ sem' = "free")
    BY <1>2, <2>1, WhereTo DEF Dialling, Resting
  <2> QED BY <1>2, <2>1, <2>2, <2>3 DEF Negotiates, Others, Dialling
<1>9. CASE Test(p)
  <2>1. /\ pc[p] = "test" /\ UNCHANGED <<using, conn, dials, asked, ended, handler, sem>>
        /\ Receives(p, "test") /\ Writes(using[p], <<"identify">>) /\ To(p, "status")
    BY <1>9 DEF Test
  <2>2. /\ toServer' \in [Links -> Seq(Requests)]
        /\ \A k \in Links : k # using[p] => toServer'[k] = toServer[k]
    <3>1. <<"identify">> \in Seq(Requests)
      BY DEF Requests
    <3> QED BY <1>1, <1>2, <2>1, <3>1, WritesOnly DEF Dialling
  <2>3. Unheard
    BY <1>1, <1>2, <2>1, ReceivesOnly DEF Unheard, Dialling
  <2> QED BY <1>2, <2>1, <2>2, <2>3 DEF Negotiates, Others, Dialling
<1>10. CASE Status(p)
  <2>1. PICK s \in {"ok", "error", "notallowed"} :
          /\ pc[p] = "status" /\ UNCHANGED <<using, conn, dials, asked, ended, handler, toServer>>
          /\ Receives(p, s)
          /\ \/ s = "ok" /\ To(p, "identity") /\ sem' = sem
             \/ s # "ok" /\ To(p, Failed(p, "refused")) /\ sem' = "free"
    BY <1>10 DEF Status
  <2>2. Unsaid /\ Unheard /\ Says(toClient[using[p]], s)
    BY <1>1, <1>2, <2>1, ReceivesOnly, Quiet DEF Unheard, Dialling
  <2>3. \/ pc'[p] = "identity" /\ sem' = sem
        \/ pc'[p] \in Resting /\ sem' = "free" /\ handler[using[p]] = "gone"
    BY <1>2, <2>1, <2>2, WhereTo DEF EndInv, Dialling, Resting
  <2> QED BY <1>2, <2>1, <2>2, <2>3 DEF Negotiates, Others, Dialling
<1>11. CASE Identity(p)
  <2>1. /\ pc[p] = "identity" /\ UNCHANGED <<using, dials, asked, ended, handler, toServer>>
        /\ Receives(p, "identity") /\ conn' = using[p] /\ sem' = "free" /\ To(p, "history")
    BY <1>11 DEF Identity
  <2>2. Unheard
    BY <1>1, <1>2, <2>1, ReceivesOnly DEF Unheard, Dialling
  <2> QED BY <1>2, <2>1, <2>2 DEF Adopts, Others, Dialling
<1>12. CASE NegotiationFails(p)
  <2>1. /\ pc[p] \in Dialling /\ UNCHANGED <<using, conn, dials, asked, ended, handler, toServer, toClient>>
        /\ "server" \in ended[using[p]] /\ sem' = "free" /\ To(p, Failed(p, fatal))
    BY <1>12 DEF NegotiationFails, linkVars, Dialling
  <2>2. Unsaid /\ Unheard /\ handler[using[p]] = "gone"
    BY <1>1, <1>2, <2>1, Quiet DEF Unheard, WireOK, EndInv
  <2> QED BY <1>2, <2>1, <2>2, WhereTo DEF Negotiates, Others, Resting
<1>13. CASE Ask(p)
  <2>1. PICK m \in {"history", "users"}, then \in {"users", "read", "msg", "idle"} :
          /\ AskFor(p, m, then)
          /\ (m = "history" /\ then = "users") \/ (m = "users" /\ then \in {"read", "msg", "idle"})
    BY <1>13, WhereTo DEF Ask
  <2>2. /\ pc[p] = m /\ sem = "free"
        /\ UNCHANGED <<using, conn, sem, dials, ended, handler, toClient>>
        /\ asked' = [asked EXCEPT ![using[p]] = @ \cup {m}]
        /\ \/ Writes(using[p], <<>>) /\ To(p, then)
           \/ UNCHANGED toServer /\ To(p, "drop2") /\ ended[using[p]] # {}
    BY <2>1 DEF AskFor, Send, WriteFails
  <2>3. Unsaid
    BY <2>2, SendsNothing, SaysFew, EmptySeq DEF Holding
  <2> QED BY <1>2, <2>1, <2>2, <2>3 DEF Asks, Others
<1>14. CASE Disconnect(p)
  <2>1. /\ pc[p] \in Resting /\ pc'[p] \in Resting
        /\ \A q \in Procs : q # p => pc'[q] = pc[q] /\ using'[q] = using[q]
    BY <1>1, <1>2, <1>14, WhereTo DEF Disconnect, Resting
  <2> QED BY <1>14, <2>1 DEF Disconnect, Closes, Others
<1> QED BY <1>3, <1>4, <1>5, <1>6, <1>7, <1>8, <1>9, <1>10, <1>11, <1>12, <1>13, <1>14 DEF ClientStep

LEMMA OtherKinds ==
  ASSUME TypeOK, DialInv,
         ReadFails \/ Ping \/ PingEnds \/ MainConnect \/ StartRun \/ Close \/ SendEOF \/ Elsewhere \/ UNCHANGED vars
  PROVE  Retires \/ Takes("main")
<1>1. /\ ClientOK /\ pc \in [Procs -> {"off"} \cup Dialling \cup Holding \cup Resting] /\ Procs = {"main", "run", "ping"}
      /\ using \in [Procs -> 0..MaxDials]
  BY DEF TypeOK, ClientOK, Procs
<1>2. CASE ReadFails \/ Ping \/ PingEnds \/ MainConnect \/ StartRun
  <2>1. \A p \in Procs : pc'[p] = pc[p] \/ (pc[p] \in {"read", "idle", "off"} /\ pc'[p] \in Resting)
    <3>1. CASE ReadFails \/ Ping \/ PingEnds \/ MainConnect
      BY <1>1, <3>1 DEF ReadFails, Ping, PingEnds, MainConnect, To, Resting
    <3>2. CASE StartRun
      BY <1>1, <3>2 DEF StartRun, DialInv, Resting
    <3> QED BY <1>2, <3>1, <3>2
  <2>2. pc["ping"] = "off" /\ pc'["ping"] # "off" => pc'["run"] # "off"
    BY <1>1, <1>2 DEF ReadFails, Ping, PingEnds, MainConnect, StartRun, To
  <2>3. UNCHANGED <<using, conn, sem, dials, asked, ended, handler, toClient, toServer>>
    BY <1>2 DEF ReadFails, Ping, PingEnds, MainConnect, StartRun, linkVars
  <2> QED BY <2>1, <2>2, <2>3, Quiet DEF Retires, Dialling
<1>3. CASE SendEOF
  <2>1. /\ pc["main"] = "eof" /\ UNCHANGED <<using, conn, sem, dials, asked, ended, handler, toClient>>
        /\ Writes(using["main"], <<"eof">>) \/ UNCHANGED toServer
        /\ To("main", "drop") \/ To("main", "drop2")
    BY <1>3 DEF SendEOF, Send
  <2>2. <<"eof">> \in Seq(Requests) /\ ~Says(<<"eof">>, "identify")
    BY SaysFew DEF Requests
  <2>3. Unsaid
    BY <1>1, <2>1, <2>2, SendsNothing DEF Holding
  <2>4. \A p \in Procs : pc'[p] = pc[p] \/ (pc[p] = "eof" /\ pc'[p] \in Resting)
    BY <1>1, <2>1 DEF To, Resting
  <2> QED BY <2>1, <2>3, <2>4 DEF Retires, Dialling, Procs
<1>4. CASE Close
  <2>1. /\ pc["main"] = "idle" /\ using'["main"] = conn /\ pc'["main"] = IF conn = 0 THEN "drop" ELSE "eof"
        /\ Others("main")
    BY <1>1, <1>4 DEF Close, To, Others
  <2> QED BY <1>4, <2>1 DEF Close, Takes, Resting
<1>5. CASE Elsewhere \/ UNCHANGED vars
  <2>1. UNCHANGED <<pc, using, conn, sem, dials, asked, ended, handler, toClient, toServer>>
    BY <1>5 DEF Elsewhere, OtherLock, OtherLoad, Expire, Edit, clientVars, linkVars, vars
  <2> QED BY <2>1, Quiet DEF Retires
<1> QED BY <1>2, <1>3, <1>4, <1>5

LEMMA ServerKinds ==
  ASSUME TypeOK, NEW k \in Links, ServerSide(k)
  PROVE  Serves(k) /\ WireOK'
<1>1. /\ WireOK /\ ServerOK /\ handler \in [Links -> {"off", "accept", "key", "test", "gone"} \cup Known]
      /\ ended \in [Links -> SUBSET {"client", "server"}]
      /\ toServer \in [Links -> Seq(Requests)] /\ toClient \in [Links -> Seq(Replies)]
      /\ <<>> \in Seq(Requests) /\ <<>> \in Seq(Replies)
  BY EmptySeq DEF TypeOK, WireOK, ServerOK
<1>2. \A m : ~Says(<<>>, m)
  BY SaysFew
<1>3. \A l : At(k, l) => handler'[k] = l /\ \A j \in Links : j # k => handler'[j] = handler[j]
  BY <1>1 DEF At
<1>4. Returns(k) =>
        /\ handler'[k] = "gone" /\ ended'[k] = ended[k] \cup {"server"} /\ toServer'[k] = <<>>
        /\ \A j \in Links : j # k => handler'[j] = handler[j] /\ ended'[j] = ended[j] /\ toServer'[j] = toServer[j]
        /\ ended' \in [Links -> SUBSET {"client", "server"}] /\ toServer' \in [Links -> Seq(Requests)]
  BY <1>1, <1>3 DEF Returns
<1>5. CASE Accept(k)
  <2>1. /\ <<"key">> \in Seq(Replies) /\ ~Says(<<"key">>, "error") /\ ~Says(<<"key">>, "notallowed")
    BY SaysFew DEF Replies
  <2>2. /\ handler[k] = "accept" /\ Answers(k, <<"key">>) /\ At(k, "key") /\ UNCHANGED <<clientVars, ended, toServer>>
    BY <1>5 DEF Accept
  <2>3. /\ toClient' \in [Links -> Seq(Replies)] /\ \A j \in Links : j # k => toClient'[j] = toClient[j]
        /\ \A m \in {"error", "notallowed"} : Says(toClient'[k], m) => Says(toClient[k], m)
    BY <1>1, <2>1, <2>2, QuietAnswer
  <2> QED BY <1>1, <1>3, <2>2, <2>3 DEF Serves, WireOK, Known
<1>6. CASE Negotiate(k)
  <2>1. CASE handler[k] = "key" /\ Reads(k, "key") /\ Answers(k, <<"test">>) /\ At(k, "test")
    <3>1. /\ <<"test">> \in Seq(Replies) /\ ~Says(<<"test">>, "error") /\ ~Says(<<"test">>, "notallowed")
      BY SaysFew DEF Replies
    <3>2. /\ toClient' \in [Links -> Seq(Replies)] /\ \A j \in Links : j # k => toClient'[j] = toClient[j]
          /\ \A m \in {"error", "notallowed"} : Says(toClient'[k], m) => Says(toClient[k], m)
      BY <1>1, <2>1, <3>1, QuietAnswer
    <3>3. /\ toServer' \in [Links -> Seq(Requests)] /\ \A j \in Links : j # k => toServer'[j] = toServer[j]
          /\ Says(toServer'[k], "identify") => Says(toServer[k], "identify")
      BY <1>1, <2>1, ReadsOnly
    <3> QED BY <1>1, <1>3, <1>6, <2>1, <3>2, <3>3 DEF Negotiate, Serves, WireOK, Known
  <2>2. CASE /\ handler[k] = "test" /\ Reads(k, "identify") /\ UNCHANGED toClient
             /\ At(k, IF Policy = "world" THEN "allowed" ELSE "exists")
    <3>1. /\ toServer' \in [Links -> Seq(Requests)] /\ \A j \in Links : j # k => toServer'[j] = toServer[j]
          /\ Says(toServer[k], "identify")
      BY <1>1, <2>2, ReadsOnly
    <3> QED BY <1>1, <1>3, <1>6, <2>2, <3>1 DEF Negotiate, Serves, WireOK
  <2> QED BY <1>6, <2>1, <2>2 DEF Negotiate
<1>7. CASE Welcome(k)
  <2>1. /\ <<"ok", "identity">> \in Seq(Replies)
        /\ ~Says(<<"ok", "identity">>, "error") /\ ~Says(<<"ok", "identity">>, "notallowed")
    BY SaysFew DEF Replies
  <2>2. /\ handler[k] = "allowed" /\ Answers(k, <<"ok", "identity">>) /\ At(k, "serve")
        /\ UNCHANGED <<clientVars, ended, toServer>>
    BY <1>7 DEF Welcome
  <2>3. /\ toClient' \in [Links -> Seq(Replies)] /\ \A j \in Links : j # k => toClient'[j] = toClient[j]
        /\ \A m \in {"error", "notallowed"} : Says(toClient'[k], m) => Says(toClient[k], m)
    BY <1>1, <2>1, <2>2, QuietAnswer
  <2> QED BY <1>1, <1>3, <2>2, <2>3 DEF Serves, WireOK, Known
<1>8. CASE Refuse(k)
  <2>1. /\ handler[k] \in {"error", "notallowed"} /\ Answers(k, <<handler[k]>>) /\ Returns(k) /\ UNCHANGED clientVars
    BY <1>8 DEF Refuse
  <2>2. <<handler[k]>> \in Seq(Replies)
    BY <2>1 DEF Replies
  <2>3. toClient' \in [Links -> Seq(Replies)] /\ \A j \in Links : j # k => toClient'[j] = toClient[j]
    BY <1>1, <2>1, <2>2, AnswersOnly
  <2> QED BY <1>1, <1>2, <1>4, <2>1, <2>3 DEF Serves, WireOK, Known
<1>9. CASE Goodbye(k) \/ Hangup(k)
  <2>1. /\ handler[k] \notin {"off", "gone"} /\ Returns(k) /\ UNCHANGED <<clientVars, toClient>>
    BY <1>9 DEF Goodbye, Hangup, Waiting
  <2> QED BY <1>1, <1>2, <1>4, <2>1 DEF Serves, WireOK, Known
<1>10. CASE Drop(k)
  <2>1. /\ handler[k] \notin {"off", "gone"} /\ Returns(k) /\ UNCHANGED clientVars
        /\ UNCHANGED toClient \/ toClient' = [toClient EXCEPT ![k] = <<>>]
    BY <1>10 DEF Drop, Waiting
  <2>2. toClient' \in [Links -> Seq(Replies)] /\ \A j \in Links : j # k => toClient'[j] = toClient[j]
    BY <1>1, <2>1
  <2> QED BY <1>1, <1>2, <1>4, <2>1, <2>2 DEF Serves, WireOK, Known
<1>11. CASE LoaderStep(k)
  <2>1. /\ UNCHANGED <<clientVars, linkVars>> /\ handler[k] \in Known
        /\ \E l \in Known : At(k, l)
    BY <1>11 DEF LoaderStep, Exists, LoadLock, Load, Lookup, Verdict, Known
  <2> QED BY <1>1, <1>3, <2>1 DEF Serves, WireOK, linkVars, Known
<1> QED BY <1>5, <1>6, <1>7, <1>8, <1>9, <1>10, <1>11 DEF ServerSide, HandlerStep

Kinds ==
  \/ Retires \/ Exit
  \/ \E p \in Procs : Takes(p) \/ Dials(p) \/ Negotiates(p) \/ Adopts(p) \/ Asks(p) \/ Closes(p)
  \/ \E k \in Links : Serves(k)

LEMMA StepKinds ==
  ASSUME TypeOK, DialInv, EndInv, [Next]_vars
  PROVE  Kinds /\ TypeOK'
<1>1. WireOK /\ Procs = {"main", "run", "ping"}
  BY DEF TypeOK, Procs
<1>2. ASSUME Retires \/ Takes("main")
             \/ \E p \in Procs : Takes(p) \/ Dials(p) \/ Negotiates(p) \/ Adopts(p) \/ Asks(p) \/ Closes(p)
      PROVE  Kinds /\ WireOK'
  <2>1. CASE Retires
    BY <1>1, <2>1 DEF Kinds, Retires, Unsaid, WireOK
  <2>2. ASSUME NEW p \in Procs, Takes(p) \/ Dials(p)  PROVE WireOK'
    BY <1>1, <2>2 DEF Takes, Dials, linkVars, WireOK
  <2>3. ASSUME NEW p \in Procs, Negotiates(p) \/ Adopts(p)  PROVE WireOK'
    BY <1>1, <2>3 DEF Negotiates, Adopts, Unsaid, Unheard, WireOK
  <2>4. ASSUME NEW p \in Procs, Asks(p)  PROVE WireOK'
    BY <1>1, <2>4 DEF Asks, Unsaid, WireOK
  <2>5. ASSUME NEW p \in Procs, Closes(p)  PROVE WireOK'
    BY <1>1, <2>5 DEF Closes, WireOK
  <2> QED BY <1>1, <1>2, <2>1, <2>2, <2>3, <2>4, <2>5 DEF Kinds
<1>3. CASE Exit
  <2>1. WireOK'
    BY <1>1, <1>3 DEF Exit, WireOK
  <2> QED BY <1>3, <2>1, ClientTypes, ClientLeaves DEF Kinds, TypeOK
<1>4. ASSUME NEW p \in Procs, ClientStep(p)  PROVE Kinds /\ TypeOK'
  <2>1. RunStep \/ PingStep \/ MainStep
    BY <1>1, <1>4 DEF RunStep, PingStep, MainStep
  <2> QED BY <1>2, <1>4, <2>1, ClientKinds, ClientTypes, ClientLeaves DEF TypeOK
<1>5. CASE ReadFails \/ Ping \/ PingEnds \/ MainConnect \/ StartRun \/ Close \/ SendEOF
  <2>1. RunStep \/ PingStep \/ MainStep \/ Ping \/ Close
    BY <1>5 DEF RunStep, PingStep, MainStep
  <2> QED BY <1>2, <1>5, <2>1, OtherKinds, ClientTypes, ClientLeaves DEF TypeOK
<1>6. ASSUME NEW k \in Links, ServerSide(k)  PROVE Kinds /\ TypeOK'
  <2>1. Serves(k) /\ WireOK' /\ ServerOK'
    BY <1>6, ServerKinds, ServerTypes
  <2>2. ClientOK'
    BY <2>1 DEF Serves, TypeOK, ClientOK, clientVars
  <2> QED BY <2>1, <2>2 DEF Kinds, TypeOK
<1>7. CASE Elsewhere
  <2>1. ClientOK' /\ WireOK'
    BY <1>7 DEF Elsewhere, OtherLock, OtherLoad, Expire, Edit, clientVars, linkVars, TypeOK, ClientOK, WireOK
  <2>2. ServerOK'
    <3>1. CASE Links = {}
      BY <1>7, <3>1 DEF Elsewhere, OtherLock, OtherLoad, ReadFile, Expire, Edit, TypeOK, ServerOK
    <3>2. CASE Links # {}
      BY <1>7, <3>2, ServerTypes
    <3> QED BY <3>1, <3>2
  <2> QED BY <1>2, <1>7, <2>1, <2>2, OtherKinds DEF TypeOK
<1>8. CASE UNCHANGED vars
  <2>1. TypeOK'
    BY <1>8 DEF vars, clientVars, policyVars, linkVars, TypeOK, ClientOK, ServerOK, WireOK
  <2> QED BY <1>2, <1>8, <2>1, OtherKinds
<1> QED
  BY <1>1, <1>3, <1>4, <1>5, <1>6, <1>7, <1>8
  DEF Next, RunStep, PingStep, MainStep, ServerStep, ServerSide, Elsewhere, Terminating

-----------------------------------------------------------------------------
(* Who holds the lock, and which links are alive.                          *)

LEMMA DialKept ==
  ASSUME TypeOK, TypeOK', DialInv, FreshInv, EndInv, Kinds
  PROVE  DialInv'
<1>1. /\ \A q \in Procs : pc[q] \in {"off"} \cup Dialling \cup Holding \cup Resting /\ using[q] \in 0..MaxDials
      /\ conn \in 0..MaxDials /\ dials \in 0..MaxDials /\ sem \in {"free"} \cup Procs /\ MaxDials \in Nat
      /\ ended \in [Links -> SUBSET {"client", "server"}]
      /\ "run" \in Procs /\ "ping" \in Procs /\ "free" \notin Procs /\ "off" \notin Resting
      /\ Dialling \cap Resting = {} /\ Holding \cap Resting = {} /\ Dialling \cap Holding = {}
      /\ "key" \in Dialling /\ {"history", "users", "read", "msg", "eof"} = Holding /\ {"idle", "drop2"} \subseteq Resting
      /\ "off" \notin Dialling \cup Holding
  BY SessionAssumption DEF TypeOK, ClientOK, WireOK, Dialling, Holding, Resting, Procs
<1>2. CASE Retires
  BY <1>1, <1>2 DEF Retires, DialInv
<1>3. ASSUME NEW p \in Procs, Takes(p)  PROVE DialInv'
  BY <1>1, <1>3 DEF Takes, Others, linkVars, DialInv
<1>4. ASSUME NEW p \in Procs, Dials(p)  PROVE DialInv'
  <2>1. dials + 1 \in Links /\ "client" \notin ended[dials + 1]
    BY <1>1, <1>4 DEF Dials, FreshInv, Links
  <2> QED BY <1>1, <1>4, <2>1 DEF Dials, Others, linkVars, DialInv
<1>5. ASSUME NEW p \in Procs, Negotiates(p)  PROVE DialInv'
  BY <1>1, <1>5 DEF Negotiates, Others, DialInv
<1>6. ASSUME NEW p \in Procs, Adopts(p)  PROVE DialInv'
  BY <1>1, <1>6 DEF Adopts, Others, DialInv
<1>7. ASSUME NEW p \in Procs, Asks(p)  PROVE DialInv'
  BY <1>1, <1>7 DEF Asks, Others, DialInv
<1>8. ASSUME NEW p \in Procs, Closes(p)  PROVE DialInv'
  BY <1>1, <1>8 DEF Closes, Others, DialInv
<1>9. CASE Exit
  BY <1>1, <1>9 DEF Exit, Resting, DialInv
<1>10. ASSUME NEW k \in Links, Serves(k)  PROVE DialInv'
  <2>1. UNCHANGED <<pc, using, conn, sem, dials>>
    BY <1>10 DEF Serves, clientVars
  <2>2. \A j \in Links : "client" \in ended'[j] => "client" \in ended[j]
    BY <1>10 DEF Serves
  <2>3. \A q \in Procs : sem = q => using[q] \in Links
    BY <1>1 DEF DialInv, Links
  <2> QED BY <2>1, <2>2, <2>3 DEF DialInv
<1> QED BY <1>2, <1>3, <1>4, <1>5, <1>6, <1>7, <1>8, <1>9, <1>10 DEF Kinds

LEMMA FreshKept ==
  ASSUME TypeOK, TypeOK', DialInv, FreshInv, Kinds
  PROVE  FreshInv'
<1>1. /\ conn \in 0..MaxDials /\ dials \in 0..MaxDials /\ MaxDials \in Nat /\ conn <= dials
      /\ handler \in [Links -> {"off", "accept", "key", "test", "gone"} \cup Known]
      /\ \A q \in Procs : pc[q] \in Dialling => using[q] \in 1..dials
  BY SessionAssumption DEF TypeOK, ClientOK, ServerOK, DialInv
<1> SUFFICES ASSUME NEW k \in Links, k > dials'
             PROVE  handler'[k] = "off" /\ ended'[k] = {} /\ toServer'[k] = <<>>
  BY DEF FreshInv
<1>2. dials' >= dials
  BY <1>1 DEF Kinds, Retires, Exit, Takes, Dials, Negotiates, Adopts, Asks, Closes, Serves, clientVars
<1>3. k > dials /\ handler[k] = "off" /\ ended[k] = {} /\ toServer[k] = <<>>
  BY <1>1, <1>2 DEF TypeOK, ClientOK, Links, FreshInv
<1>4. CASE Retires
  BY <1>3, <1>4 DEF Retires, Unsaid
<1>5. ASSUME NEW p \in Procs, Takes(p) \/ Dials(p)
      PROVE  handler'[k] = "off" /\ ended'[k] = {} /\ toServer'[k] = <<>>
  BY <1>1, <1>3, <1>5 DEF Takes, Dials, linkVars, Links
<1>6. ASSUME NEW p \in Procs, Negotiates(p) \/ Adopts(p)
      PROVE  handler'[k] = "off" /\ ended'[k] = {} /\ toServer'[k] = <<>>
  <2>1. CASE Adopts(p)
    BY <1>3, <2>1 DEF Adopts
  <2>2. CASE Negotiates(p)
    <3>1. k # using[p] /\ UNCHANGED <<ended, handler>>
      BY <1>1, <1>3, <2>2 DEF Negotiates, Links
    <3>2. toServer'[k] = toServer[k]
      BY <1>3, <2>2, <3>1 DEF Negotiates, Unsaid
    <3> QED BY <1>3, <3>1, <3>2
  <2> QED BY <1>6, <2>1, <2>2
<1>7. ASSUME NEW p \in Procs, Asks(p) \/ Closes(p)
      PROVE  handler'[k] = "off" /\ ended'[k] = {} /\ toServer'[k] = <<>>
  BY <1>1, <1>3, <1>7 DEF Asks, Closes, Unsaid, Links
<1>8. CASE Exit
  BY <1>1, <1>3, <1>8 DEF Exit, Links
<1>9. ASSUME NEW j \in Links, Serves(j)
      PROVE  handler'[k] = "off" /\ ended'[k] = {} /\ toServer'[k] = <<>>
  BY <1>3, <1>9 DEF Serves
<1> QED BY <1>4, <1>5, <1>6, <1>7, <1>8, <1>9 DEF Kinds

LEMMA EndKept ==
  ASSUME TypeOK, TypeOK', DialInv, FreshInv, EndInv, Kinds
  PROVE  EndInv'
<1>1. /\ conn \in 0..MaxDials /\ dials \in 0..MaxDials /\ MaxDials \in Nat /\ conn <= dials /\ Links = 1..MaxDials
      /\ handler \in [Links -> {"off", "accept", "key", "test", "gone"} \cup Known]
      /\ ended \in [Links -> SUBSET {"client", "server"}]
      /\ \A q \in Procs : pc[q] \in Dialling => using[q] \in 1..dials /\ sem = q /\ "client" \notin ended[using[q]]
  BY SessionAssumption DEF TypeOK, ClientOK, ServerOK, WireOK, DialInv, Links
<1>2. ASSUME UNCHANGED <<conn, ended, handler>>, UNCHANGED toClient \/ Unheard  PROVE EndInv'
  BY <1>2 DEF Unheard, EndInv
<1>3. ASSUME NEW p \in Procs, Dials(p)  PROVE EndInv'
  <2>1. dials + 1 \in Links /\ handler[dials + 1] = "off"
    BY <1>1, <1>3 DEF Dials, FreshInv
  <2>2. /\ UNCHANGED <<conn, ended, toClient>>
        /\ \A k \in Links : handler'[k] = "gone" <=> handler[k] = "gone"
    BY <1>1, <1>3, <2>1 DEF Dials, linkVars
  <2> QED BY <2>2 DEF EndInv
<1>4. ASSUME NEW p \in Procs, Adopts(p)  PROVE EndInv'
  BY <1>1, <1>4 DEF Adopts, Unheard, EndInv
<1>5. ASSUME UNCHANGED <<handler, toClient>>, conn' = 0,
             \A k \in Links : "server" \in ended'[k] <=> "server" \in ended[k]
      PROVE  EndInv'
  BY <1>5 DEF EndInv
<1>6. ASSUME NEW p \in Procs, Closes(p)  PROVE EndInv'
  BY <1>1, <1>5, <1>6 DEF Closes
<1>7. CASE Exit
  BY <1>1, <1>5, <1>7 DEF Exit
<1>8. ASSUME NEW k \in Links, Serves(k)  PROVE EndInv'
  <2>1. UNCHANGED conn /\ \A j \in Links : "client" \in ended'[j] => "client" \in ended[j]
    BY <1>8 DEF Serves, clientVars
  <2>2. conn' # 0 => "client" \notin ended'[conn']
    BY <1>1, <2>1 DEF EndInv
  <2>3. ASSUME NEW j \in Links
        PROVE  /\ "server" \in ended'[j] <=> handler'[j] = "gone"
               /\ Says(toClient'[j], "error") \/ Says(toClient'[j], "notallowed") => handler'[j] = "gone"
    <3>1. CASE j = k
      BY <1>1, <1>8, <3>1 DEF Serves, EndInv
    <3>2. CASE j # k
      BY <1>8, <3>2 DEF Serves, EndInv
    <3> QED BY <3>1, <3>2
  <2> QED BY <2>2, <2>3 DEF EndInv
<1> QED BY <1>2, <1>3, <1>4, <1>6, <1>7, <1>8 DEF Kinds, Retires, Takes, Negotiates, Asks, linkVars

-----------------------------------------------------------------------------
(* The current connection is read and introduced.                          *)

\* Only Disconnect and the end of the process close the client's end, and the
\* server never opens its end again.
LEMMA EndsLast ==
  ASSUME TypeOK, Kinds  PROVE \A k \in Links : ended[k] \subseteq ended'[k]
<1>1. \A k \in Links : ended[k] \in SUBSET {"client", "server"}
  BY DEF TypeOK, WireOK
<1>2. ASSUME NEW k \in Links, Serves(k)  PROVE \A j \in Links : ended[j] \subseteq ended'[j]
  BY <1>2 DEF Serves
<1>3. CASE Exit
  BY <1>1, <1>3 DEF Exit
<1>4. ASSUME NEW p \in Procs, Closes(p)  PROVE \A k \in Links : ended[k] \subseteq ended'[k]
  BY <1>1, <1>4 DEF Closes
<1> QED BY <1>2, <1>3, <1>4 DEF Kinds, Retires, Takes, Dials, Negotiates, Adopts, Asks, linkVars

LEMMA RunKept ==
  ASSUME TypeOK, TypeOK', DialInv, EndInv, RunInv, Kinds
  PROVE  RunInv'
<1>1. /\ "run" \in Procs /\ Links = 1..MaxDials /\ MaxDials \in Nat /\ conn \in 0..MaxDials /\ dials \in 0..MaxDials
      /\ \A q \in Procs : pc[q] \in Dialling \cup Holding => using[q] \in 1..dials
      /\ \A q \in Procs : pc[q] \in Dialling => sem = q
      /\ {"history", "users", "read", "msg", "eof"} = Holding /\ Holding \cap Resting = {}
      /\ Holding \cap Dialling = {} /\ "key" \in Dialling
      /\ ended \in [Links -> SUBSET {"client", "server"}]
  BY SessionAssumption DEF TypeOK, ClientOK, WireOK, DialInv, Links, Procs, Holding, Resting, Dialling
<1>2. \A k \in Links : ended[k] # {} => ended'[k] # {}
  BY EndsLast
<1> SUFFICES ASSUME pc'["run"] \in {"history", "users", "read"}, using'["run"] # conn'
             PROVE  ended'[using'["run"]] # {}
  BY DEF RunInv
<1>3. ASSUME pc["run"] \in {"history", "users", "read"}, UNCHANGED <<conn>>, using'["run"] = using["run"]
      PROVE  ended'[using'["run"]] # {}
  BY <1>1, <1>2, <1>3 DEF RunInv
<1>4. CASE Retires
  BY <1>1, <1>3, <1>4 DEF Retires
<1>5. ASSUME NEW p \in Procs, Takes(p) \/ Dials(p)  PROVE ended'[using'["run"]] # {}
  BY <1>1, <1>3, <1>5 DEF Takes, Dials, Others
<1>6. ASSUME NEW p \in Procs, Negotiates(p)  PROVE ended'[using'["run"]] # {}
  BY <1>1, <1>3, <1>6 DEF Negotiates, Others
<1>7. ASSUME NEW p \in Procs, Adopts(p)  PROVE ended'[using'["run"]] # {}
  <2>1. p # "run" /\ sem = p /\ conn = 0
    BY <1>1, <1>7 DEF Adopts, Others, DialInv
  <2>2. pc["run"] \in {"history", "users", "read"} /\ using'["run"] = using["run"] /\ using["run"] # conn
    BY <1>1, <1>7, <2>1 DEF Adopts, Others
  <2>3. using["run"] \in Links
    BY <1>1, <2>2
  <2> QED BY <1>2, <2>2, <2>3 DEF RunInv
<1>8. ASSUME NEW p \in Procs, Asks(p)  PROVE ended'[using'["run"]] # {}
  BY <1>1, <1>3, <1>8 DEF Asks, Others
<1>9. ASSUME NEW p \in Procs, Closes(p)  PROVE ended'[using'["run"]] # {}
  <2>1. pc["run"] \in {"history", "users", "read"} /\ using'["run"] = using["run"] /\ using["run"] \in Links
    BY <1>1, <1>9 DEF Closes, Others
  <2>2. CASE using["run"] = conn
    BY <1>9, <2>1, <2>2 DEF Closes
  <2>3. CASE using["run"] # conn
    BY <1>2, <2>1, <2>3 DEF RunInv
  <2> QED BY <2>2, <2>3
<1>10. CASE Exit
  BY <1>1, <1>10 DEF Exit
<1>11. ASSUME NEW k \in Links, Serves(k)  PROVE ended'[using'["run"]] # {}
  BY <1>3, <1>11 DEF Serves, clientVars
<1> QED BY <1>4, <1>5, <1>6, <1>7, <1>8, <1>9, <1>10, <1>11 DEF Kinds

LEMMA AskKept ==
  ASSUME TypeOK, TypeOK', DialInv, AskInv, Kinds
  PROVE  AskInv'
<1>1. /\ \A q \in Procs : pc[q] \in Dialling \cup Holding => using[q] \in Links
      /\ "users" \in Holding /\ Holding \cap Resting = {} /\ "users" \notin Dialling
      /\ asked \in [Links -> SUBSET {"history", "users"}]
  BY SessionAssumption DEF TypeOK, ClientOK, DialInv, Links, Holding, Resting, Dialling
<1> SUFFICES ASSUME NEW q \in Procs, pc'[q] = "users"  PROVE "history" \in asked'[using'[q]]
  BY DEF AskInv
<1>2. ASSUME pc[q] = "users", UNCHANGED asked, using'[q] = using[q]  PROVE "history" \in asked'[using'[q]]
  BY <1>2 DEF AskInv
<1>3. CASE Retires
  BY <1>1, <1>2, <1>3 DEF Retires
<1>4. ASSUME NEW p \in Procs, Takes(p) \/ Dials(p)  PROVE "history" \in asked'[using'[q]]
  BY <1>1, <1>2, <1>4 DEF Takes, Dials, Others
<1>5. ASSUME NEW p \in Procs, Negotiates(p) \/ Adopts(p)  PROVE "history" \in asked'[using'[q]]
  BY <1>1, <1>2, <1>5 DEF Negotiates, Adopts, Others
<1>6. ASSUME NEW p \in Procs, Asks(p)  PROVE "history" \in asked'[using'[q]]
  <2>1. CASE q = p
    <3>1. pc[q] = "history" /\ using'[q] = using[q] /\ using[q] \in Links
      BY <1>1, <1>6, <2>1 DEF Asks, Holding
    <3> QED BY <1>1, <1>6, <2>1, <3>1 DEF Asks
  <2>2. CASE q # p
    <3>1. pc[q] = "users" /\ using'[q] = using[q] /\ using[q] \in Links /\ "history" \in asked[using[q]]
      BY <1>1, <1>6, <2>2 DEF Asks, Others, AskInv
    <3> QED BY <1>1, <1>6, <3>1 DEF Asks
  <2> QED BY <2>1, <2>2
<1>7. ASSUME NEW p \in Procs, Closes(p)  PROVE "history" \in asked'[using'[q]]
  BY <1>1, <1>2, <1>7 DEF Closes, Others
<1>8. CASE Exit
  BY <1>8 DEF Exit
<1>9. ASSUME NEW k \in Links, Serves(k)  PROVE "history" \in asked'[using'[q]]
  BY <1>2, <1>9 DEF Serves, clientVars
<1> QED BY <1>3, <1>4, <1>5, <1>6, <1>7, <1>8, <1>9 DEF Kinds

LEMMA IntroducedKept ==
  ASSUME TypeOK, TypeOK', DialInv, EndInv, AskInv, Introduced, Kinds
  PROVE  Introduced'
<1>1. /\ \A q \in Procs : pc[q] \in Dialling \cup Holding => using[q] \in Links
      /\ {"history", "users"} \subseteq Holding /\ Holding \cap Resting = {} /\ Holding \cap Dialling = {}
      /\ asked \in [Links -> SUBSET {"history", "users"}]
      /\ ended \in [Links -> SUBSET {"client", "server"}]
      /\ conn # 0 => conn \in Links
  BY SessionAssumption DEF TypeOK, ClientOK, WireOK, DialInv, Links, Holding, Resting, Dialling
<1> SUFFICES ASSUME conn' # 0, "server" \notin ended'[conn']
             PROVE  \/ asked'[conn'] = {"history", "users"}
                    \/ \E p \in Procs : using'[p] = conn' /\ pc'[p] \in {"history", "users"}
  BY DEF Introduced
<1> DEFINE Goal == \/ asked'[conn'] = {"history", "users"}
                   \/ \E p \in Procs : using'[p] = conn' /\ pc'[p] \in {"history", "users"}
\* Nobody who still has to ask for something moves.
<1>2. ASSUME UNCHANGED <<conn, asked>>,
             \A q \in Procs : pc[q] \in {"history", "users"} => pc'[q] = pc[q] /\ using'[q] = using[q]
      PROVE  Goal
  <2>1. "server" \notin ended[conn]
    BY <1>1, <1>2, EndsLast
  <2> QED BY <1>2, <2>1 DEF Introduced
<1>3. CASE Retires
  BY <1>2, <1>3 DEF Retires
<1>4. ASSUME NEW p \in Procs, Takes(p)  PROVE Goal
  BY <1>1, <1>2, <1>4 DEF Takes, Others
<1>5. ASSUME NEW p \in Procs, Dials(p)  PROVE Goal
  BY <1>1, <1>2, <1>5 DEF Dials, Others
<1>6. ASSUME NEW p \in Procs, Negotiates(p)  PROVE Goal
  BY <1>1, <1>2, <1>6 DEF Negotiates, Others
<1>7. ASSUME NEW p \in Procs, Adopts(p)  PROVE Goal
  BY <1>7 DEF Adopts
<1>8. ASSUME NEW p \in Procs, Asks(p)  PROVE Goal
  <2>1. /\ conn' = conn /\ ended' = ended /\ pc[p] \in {"history", "users"} /\ using' = using
        /\ asked' = [asked EXCEPT ![using[p]] = @ \cup {pc[p]}] /\ conn \in Links
    BY <1>1, <1>8 DEF Asks
  <2>2. CASE asked[conn] = {"history", "users"}
    BY <1>1, <2>1, <2>2
  <2>3. CASE using[p] # conn
    <3>1. asked'[conn] = asked[conn]
      BY <1>1, <2>1, <2>3
    <3>2. \/ asked[conn] = {"history", "users"}
          \/ \E q \in Procs : q # p /\ using[q] = conn /\ pc[q] \in {"history", "users"}
      BY <2>1, <2>3 DEF Introduced
    <3> QED BY <1>8, <2>1, <3>1, <3>2 DEF Asks, Others
  <2>4. CASE using[p] = conn
    <3>1. ended[conn] = {}
      BY <1>1, <2>1 DEF EndInv
    <3>2. CASE pc[p] = "history"
      BY <1>8, <2>1, <2>4, <3>1, <3>2 DEF Asks
    <3>3. CASE pc[p] = "users"
      <4>1. asked'[conn] = asked[conn] \cup {"users"} /\ "history" \in asked[conn]
        BY <1>1, <2>1, <2>4, <3>3 DEF AskInv
      <4> QED BY <1>1, <2>1, <4>1
    <3> QED BY <2>1, <3>2, <3>3
  <2> QED BY <2>3, <2>4
<1>9. ASSUME NEW k \in Links, Serves(k)  PROVE Goal
  BY <1>2, <1>9 DEF Serves, clientVars
<1> QED BY <1>3, <1>4, <1>5, <1>6, <1>7, <1>8, <1>9 DEF Kinds, Closes, Exit

-----------------------------------------------------------------------------
(* The server's registrations are known to the client, and to the policy.  *)

\* A link stays traced: who gives up its negotiation knows that the server has,
\* and who gives up the current connection closes it.
LEMMA TracedKept ==
  ASSUME TypeOK, DialInv, FreshInv, Kinds, NEW k \in Links, Traced(k), k <= dials
  PROVE  Traced(k)'
<1>1. /\ {"status", "identity"} \subseteq Dialling /\ Dialling \cap Resting = {} /\ k # 0
      /\ "history" \notin Dialling /\ "users" \notin Dialling
      /\ \A q \in Procs : pc[q] \in Dialling => sem = q /\ conn = 0
      /\ dials \in Nat /\ "free" \notin Procs
      /\ handler \in [Links -> {"off", "accept", "key", "test", "gone"} \cup Known]
      /\ ended \in [Links -> SUBSET {"client", "server"}]
  BY SessionAssumption DEF TypeOK, ClientOK, ServerOK, WireOK, DialInv, Links, Resting, Dialling, Procs
<1>2. \A j \in Links : ended[j] \subseteq ended'[j]
  BY EndsLast
<1>3. handler[k] = "gone" => handler'[k] = "gone"
  <2>1. ASSUME NEW p \in Procs, Dials(p)  PROVE handler'[k] = handler[k]
    BY <1>1, <2>1 DEF Dials
  <2>2. ASSUME NEW j \in Links, Serves(j)  PROVE handler[k] = "gone" => handler'[k] = "gone"
    BY <2>2 DEF Serves
  <2> QED BY <2>1, <2>2 DEF Kinds, Retires, Takes, Negotiates, Adopts, Asks, Closes, Exit
<1>4. CASE "client" \in ended[k] \/ handler[k] = "gone"
  BY <1>2, <1>3, <1>4 DEF Traced
<1>5. CASE conn = k
  <2>1. CASE UNCHANGED conn
    BY <1>5, <2>1 DEF Traced
  <2>2. ASSUME NEW p \in Procs, Adopts(p)  PROVE FALSE
    BY <1>1, <1>5, <2>2 DEF Adopts
  <2>3. ASSUME NEW p \in Procs, Closes(p)  PROVE "client" \in ended'[k]
    BY <1>5, <2>3 DEF Closes
  <2>4. CASE Exit
    <3>1. "client" \in ended'[k]
      BY <2>4 DEF Exit
    <3> QED BY <3>1 DEF Traced
  <2>5. UNCHANGED conn \/ Exit \/ \E p \in Procs : Adopts(p) \/ Closes(p)
    BY DEF Kinds, Retires, Takes, Dials, Negotiates, Asks, Serves, clientVars
  <2> QED BY <2>1, <2>2, <2>3, <2>4, <2>5 DEF Traced
<1>6. ASSUME NEW q \in Procs, using[q] = k, pc[q] \in {"status", "identity"}  PROVE Traced(k)'
  <2>1. CASE pc'[q] = pc[q] /\ using'[q] = using[q]
    BY <1>6, <2>1 DEF Traced
  <2>2. CASE Retires
    BY <1>1, <1>6, <2>1, <2>2 DEF Retires
  <2>3. ASSUME NEW p \in Procs, Takes(p) \/ Dials(p) \/ Closes(p)  PROVE Traced(k)'
    BY <1>1, <1>6, <2>1, <2>3 DEF Takes, Dials, Closes, Others
  <2>4. ASSUME NEW p \in Procs, Asks(p)  PROVE Traced(k)'
    BY <1>1, <1>6, <2>1, <2>4 DEF Asks, Others
  <2>5. ASSUME NEW p \in Procs, Negotiates(p)  PROVE Traced(k)'
    <3>1. CASE q # p
      BY <2>1, <2>5, <3>1 DEF Negotiates, Others
    <3>2. CASE q = p /\ handler[k] = "gone"
      BY <1>3, <3>2 DEF Traced
    <3>3. CASE q = p /\ pc'[p] \in {"status", "identity"} /\ using'[p] = using[p]
      BY <1>6, <3>3 DEF Traced
    <3> QED BY <1>6, <2>5, <3>1, <3>2, <3>3 DEF Negotiates
  <2>6. ASSUME NEW p \in Procs, Adopts(p)  PROVE Traced(k)'
    <3>1. q = p
      BY <1>1, <1>6, <2>6 DEF Adopts
    <3> QED BY <1>6, <2>6, <3>1 DEF Adopts, Traced
  <2>7. CASE Exit
    <3>1. "client" \in ended'[k]
      BY <2>7 DEF Exit
    <3> QED BY <3>1 DEF Traced
  <2>8. ASSUME NEW j \in Links, Serves(j)  PROVE Traced(k)'
    BY <2>1, <2>8 DEF Serves, clientVars
  <2> QED BY <2>2, <2>3, <2>4, <2>5, <2>6, <2>7, <2>8 DEF Kinds
<1> QED BY <1>4, <1>5, <1>6 DEF Traced

LEMMA GhostKept ==
  ASSUME TypeOK, DialInv, FreshInv, GhostInv, Kinds
  PROVE  GhostInv'
<1>1. /\ dials \in Nat /\ MaxDials \in Nat /\ Links = 1..MaxDials /\ {"accept", "off"} \cap Known = {}
      /\ handler \in [Links -> {"off", "accept", "key", "test", "gone"} \cup Known]
      /\ \A p \in Procs : pc[p] \in Dialling => using[p] \in Links
  BY SessionAssumption DEF TypeOK, ClientOK, ServerOK, DialInv, Links, Known
<1> SUFFICES ASSUME NEW k \in Links, handler'[k] \in Known \/ Says(toServer'[k], "identify")
             PROVE  Traced(k)'
  BY DEF GhostInv
<1>2. CASE handler[k] \in Known \/ Says(toServer[k], "identify")
  <2>1. Traced(k)
    BY <1>2 DEF GhostInv
  <2>2. k <= dials
    BY <1>1, <1>2, SaysFew DEF FreshInv
  <2> QED BY <2>1, <2>2, TracedKept
<1>3. CASE handler[k] \notin Known /\ ~Says(toServer[k], "identify")
  <2>1. CASE Retires
    BY <1>3, <2>1 DEF Retires, Unsaid
  <2>2. ASSUME NEW p \in Procs, Takes(p) \/ Dials(p)  PROVE FALSE
    BY <1>1, <1>3, <2>2 DEF Takes, Dials, linkVars
  <2>3. ASSUME NEW p \in Procs, Adopts(p) \/ Closes(p)  PROVE FALSE
    BY <1>3, <2>3 DEF Adopts, Closes
  <2>4. ASSUME NEW p \in Procs, Asks(p)  PROVE FALSE
    BY <1>3, <2>4 DEF Asks, Unsaid
  <2>5. CASE Exit
    BY <1>3, <2>5 DEF Exit
  <2>6. ASSUME NEW j \in Links, Serves(j)  PROVE FALSE
    BY <1>3, <2>6 DEF Serves
  \* The client says who it is, and waits for the status.
  <2>7. ASSUME NEW p \in Procs, Negotiates(p)  PROVE Traced(k)'
    <3>1. ~Unsaid
      BY <1>3, <2>7 DEF Negotiates, Unsaid
    <3>2. k = using[p] /\ pc'[p] = "status" /\ using'[p] = using[p]
      BY <1>3, <2>7, <3>1 DEF Negotiates
    <3> QED BY <3>2 DEF Traced
  <2> QED BY <2>1, <2>2, <2>3, <2>4, <2>5, <2>6, <2>7 DEF Kinds
<1> QED BY <1>2, <1>3

\* Neither the list nor a handler that has looked into it knows more than the
\* file: the file only changes to name the client.
LEMMA PolicyKept ==
  ASSUME TypeOK, PolicyInv, OnlyListed, [Next]_vars
  PROVE  PolicyInv' /\ OnlyListed'
<1>1. /\ handler \in [Links -> {"off", "accept", "key", "test", "gone"} \cup Known]
      /\ list \in {"nil", "listed", "unlisted"}
  BY DEF TypeOK, ServerOK
<1>2. ASSUME UNCHANGED <<file, list>>,
             \A k \in Links : handler'[k] \in {"allowed", "serve"} =>
                                handler[k] \in {"allowed", "serve"} \/ Policy = "world" \/ list = "listed"
      PROVE  PolicyInv' /\ OnlyListed'
  BY <1>2 DEF PolicyInv, OnlyListed
<1>3. CASE RunStep \/ PingStep \/ MainStep \/ Ping \/ Close \/ Exit
  <2>1. /\ UNCHANGED <<policyVars>>
        /\ UNCHANGED handler \/ handler' = [handler EXCEPT ![dials + 1] = "accept"]
    <3>1. ASSUME NEW q \in Procs, ClientStep(q)
          PROVE  /\ UNCHANGED <<policyVars>>
                 /\ UNCHANGED handler \/ handler' = [handler EXCEPT ![dials + 1] = "accept"]
      <4>1. CASE Connect(q) \/ Reuse(q) \/ Dial(q) \/ DialFails(q) \/ Key(q) \/ Test(q)
        BY <4>1 DEF Connect, Reuse, Dial, DialFails, Key, Test
      <4>2. CASE Status(q) \/ Identity(q) \/ NegotiationFails(q) \/ Disconnect(q)
        BY <4>2 DEF Status, Identity, NegotiationFails, Disconnect
      <4>3. CASE Ask(q) \/ SendMsg(q)
        BY <4>3 DEF Ask, AskFor, SendMsg
      <4> QED BY <3>1, <4>1, <4>2, <4>3 DEF ClientStep
    <3>2. CASE ReadFails \/ PingEnds \/ SendEOF \/ MainConnect \/ StartRun \/ Ping \/ Close \/ Exit
      BY <3>2 DEF ReadFails, PingEnds, SendEOF, MainConnect, StartRun, Ping, Close, Exit
    <3> QED BY <1>3, <3>1, <3>2 DEF RunStep, PingStep, MainStep, Procs
  <2> QED BY <1>1, <1>2, <2>1 DEF policyVars
<1>4. ASSUME NEW k \in Links, HandlerStep(k) \/ Drop(k)  PROVE PolicyInv' /\ OnlyListed'
  <2>1. CASE Accept(k) \/ Refuse(k) \/ Goodbye(k) \/ Hangup(k) \/ Drop(k)
    BY <1>1, <1>2, <2>1 DEF Accept, Refuse, Goodbye, Hangup, Drop, Returns, At, policyVars
  <2>2. CASE Negotiate(k)
    BY <1>1, <1>2, <2>2 DEF Negotiate, At, policyVars
  <2>3. CASE Welcome(k)
    BY <1>1, <1>2, <2>3 DEF Welcome, At, policyVars
  <2> QED BY <1>4, <2>1, <2>2, <2>3 DEF HandlerStep
<1>5. ASSUME NEW k \in Links, LoaderStep(k)  PROVE PolicyInv' /\ OnlyListed'
  <2>1. CASE Exists(k) \/ LoadLock(k) \/ Lookup(k)
    BY <1>1, <1>2, <2>1 DEF Exists, LoadLock, Lookup, Verdict, At, policyVars
  <2>2. CASE Load(k)
    BY <1>1, <2>2 DEF Load, ReadFile, At, PolicyInv, OnlyListed
  <2> QED BY <1>5, <2>1, <2>2 DEF LoaderStep
<1>6. CASE OtherLock \/ Expire
  BY <1>2, <1>6 DEF OtherLock, Expire
<1>7. CASE OtherLoad
  BY <1>7 DEF OtherLoad, ReadFile, PolicyInv, OnlyListed
<1>8. CASE Edit
  BY <1>8 DEF Edit, PolicyInv, OnlyListed
<1>9. CASE UNCHANGED vars
  BY <1>2, <1>9 DEF vars, policyVars
<1> QED BY <1>3, <1>4, <1>5, <1>6, <1>7, <1>8, <1>9 DEF Next, ServerStep, Terminating

-----------------------------------------------------------------------------
LEMMA InitHolds == Init => IInv
<1> SUFFICES ASSUME Init  PROVE IInv
  OBVIOUS
<1>1. TypeOK
  BY InitTypes
<1>2. /\ conn = 0 /\ dials = 0 /\ sem = "free" /\ \A p \in Procs : pc[p] \in {"idle", "off"}
      /\ pc["ping"] = "off" /\ list = "nil"
      /\ \A k \in Links : handler[k] = "off" /\ ended[k] = {} /\ toServer[k] = <<>> /\ toClient[k] = <<>>
  BY DEF Init, Procs
<1>3. DialInv
  BY <1>2 DEF DialInv, Dialling, Holding, Procs
<1>4. FreshInv /\ EndInv
  BY <1>2, SaysFew DEF FreshInv, EndInv
<1>5. UseInv
  BY <1>2 DEF UseInv, RunInv, AskInv, Introduced, Procs
<1>6. GhostInv
  BY <1>2, SaysFew DEF GhostInv, Known
<1>7. PolicyInv /\ OnlyListed
  BY <1>2 DEF PolicyInv, OnlyListed
<1> QED BY <1>1, <1>3, <1>4, <1>5, <1>6, <1>7 DEF IInv, LinkInv

LEMMA Inductive == IInv /\ [Next]_vars => IInv'
<1> SUFFICES ASSUME IInv, [Next]_vars  PROVE IInv'
  OBVIOUS
<1> USE DEF IInv, LinkInv, UseInv
<1>1. Kinds /\ TypeOK'
  BY StepKinds
<1>2. DialInv' /\ FreshInv' /\ EndInv'
  BY <1>1, DialKept, FreshKept, EndKept
<1>3. RunInv' /\ AskInv' /\ Introduced'
  BY <1>1, RunKept, AskKept, IntroducedKept
<1>4. GhostInv' /\ PolicyInv' /\ OnlyListed'
  BY <1>1, GhostKept, PolicyKept
<1> QED BY <1>1, <1>2, <1>3, <1>4

LEMMA IInvHolds == Spec => []IInv
<1> QED BY InitHolds, Inductive, PTL DEF Spec

\* The variables keep their types, the links carry only the messages of the
\* handshake and the goodbye (client/client.go, server/server.go).
THEOREM TypesKept == Spec => []TypeOK
<1>1. IInv => TypeOK
  BY DEF IInv, LinkInv
<1> QED BY <1>1, IInvHolds, PTL

\* What Run reads is the current connection, or its read fails; and that one
\* has asked for the history and the users or is about to, whoever dialled it
\* (connect, send and disconnect of client/client.go).
THEOREM AlwaysInUse == Spec => []CurrentInUse
<1>1. IInv => CurrentInUse
  BY DEF IInv, UseInv, RunInv, CurrentInUse, ReadsCurrent
<1> QED BY <1>1, IInvHolds, PTL

\* Whoever the server has registered, its client has this connection or has
\* closed it, and the policy names it (handleConn and newClient of
\* server/server.go, PolicyLoader of cmd/server/flags.go).
THEOREM AlwaysRightlyRegistered == Spec => []RightlyRegistered
<1>1. IInv => RightlyRegistered
  <2>1. ASSUME IInv, NEW k \in Links, handler[k] = "serve", "client" \notin ended[k]
        PROVE  conn = k \/ \E p \in Procs : using[p] = k /\ pc[p] \in {"status", "identity"}
    BY <2>1 DEF IInv, GhostInv, Traced, Known
  <2> QED BY <2>1 DEF IInv, NoGhost, RightlyRegistered
<1> QED BY <1>1, IInvHolds, PTL
=============================================================================
