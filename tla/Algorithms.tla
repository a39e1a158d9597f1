----------------------------- MODULE Algorithms ------------------------------
(***************************************************************************)
(* The pure algorithms, one input per state: whom a chat message reaches   *)
(* (ChatRouting), how a wide message is broken into lines and the input    *)
(* line is cut (Wrap), the authenticated stream (Framing), the handshake   *)
(* (Handshake), the completion (Completion) and the trivia bot (Trivia).   *)
(* The inputs are constants; chat messages are all there are.              *)
(***************************************************************************)
EXTENDS ChatRouting, Framing

CONSTANTS
  Channels, Version, \* of the server
  Letters,           \* what names are made of
  Players, Few,      \* who plays, and how few questions are too few
  Wraps, Inputs, Streams, Handovers, Shakes, Completions, Games \* the inputs

V == INSTANCE Wrap
H == INSTANCE Handshake
C == INSTANCE Completion
B == INSTANCE Trivia WITH Users <- Players

VARIABLE case

ChatCases == [kind : {"chat"}, from : Names, bot : BOOLEAN, msg : Message]

-----------------------------------------------------------------------------
(* What the inputs are *)

\* UTF-8: a character has up to four bytes, and no more columns than bytes.
Characters == {c \in [name : STRING, bytes : 1..4, cols : 1..2] : c.cols <= c.bytes}

\* The width of a message and of the meta column in front of it. A message
\* has no hyphens, so that those put in can be told.
ASSUME WrapsAssumption ==
  \A c \in Wraps :
    /\ c.kind = "wrap" /\ c.w \in Nat /\ c.meta \in Nat
    /\ c.text \in Seq(Characters) /\ \A i \in DOMAIN c.text : c.text[i] # V!Hyphen

\* The terminal has room for a character of two columns.
ASSUME InputsAssumption ==
  \A c \in Inputs :
    /\ c.kind = "input" /\ c.text \in Seq(Characters)
    /\ c.cursor \in 0..Len(c.text) /\ c.max \in Nat \ {0, 1}

\* Lengths of the writes (0 flushes), of the reads and of what the connection
\* hands out, and how many bytes are missing at the end.
ASSUME StreamsAssumption ==
  \A c \in Streams :
    /\ c.kind = "frame" /\ c.writes \in Seq(Nat) /\ c.cut \in Nat
    /\ c.sizes \in Seq(Nat \ {0}) \ {<<>>} /\ c.chunks \in Seq(Nat \ {0}) \ {<<>>}

\* The decrypted stream begins after a JSON value of n bytes and a newline.
ASSUME HandoversAssumption ==
  \A c \in Handovers : c.kind = "json" /\ c.n \in Nat \ {0} /\ c.more \in Nat /\ c.chunk \in Nat \ {0}

\* The first n of eight messages arrive. Nobody is nobody's name.
ASSUME ShakesAssumption ==
  \A c \in Shakes :
    /\ c.kind = "shake" /\ c.n \in 0..8
    /\ H!Nobody \notin {c.cl.name, H!Known(c.srv, c.cl.key), H!Fingerprint(c.srv.key)}

ASSUME CompletionsAssumption ==
  \A c \in Completions :
    /\ c.kind = "complete" /\ c.input \in Seq(Letters) /\ c.prefix \in Seq(Letters)
    /\ c.list \in Seq(Seq(Letters))

Questions == [id : Nat \ {0}, value : {1, 2, 5}, right : Nat, choices : Nat]

\* Who says what, and what the service says if it is asked then. Each
\* question that it sends is another one, whatever it asks.
ASSUME GamesAssumption ==
  /\ Few \in Nat \ {0}
  /\ \A c \in Games :
       /\ c.kind = "trivia" /\ Len(c.who) = Len(c.cmd) /\ Len(c.says) = Len(c.cmd)
       /\ c.who \in Seq(Players) /\ c.cmd \in Seq(STRING)
       /\ c.says \in Seq([reply : {"ok", "bad", "down"}, list : Seq(Questions)])
       /\ \A i, k \in DOMAIN c.says : \A j \in DOMAIN c.says[i].list, l \in DOMAIN c.says[k].list :
            c.says[i].list[j].id = c.says[k].list[l].id => i = k /\ j = l

Init ==
  \/ case \in ChatCases
  \/ case \in Wraps \/ case \in Inputs
  \/ case \in Streams \/ case \in Handovers
  \/ case \in Shakes
  \/ case \in Completions
  \/ case \in Games

Next == UNCHANGED case

Spec == Init /\ [][Next]_case

-----------------------------------------------------------------------------
(* Chat messages *)

\* Who may see a message sees it once, live and in every replay.
RightCopies ==
  case.kind = "chat" =>
    OneCopyEach(case.from, case.bot, case.msg) /\ ReplayAsLive(case.from, case.bot, case.msg)

\* A client is notified of what is addressed to it, shouted or all that it asked
\* for, once, and never of bots and replays (main of cmd/client/client.go).
RightNotifications == case.kind = "chat" => NotifiedOfNews(case.from, case.bot, case.msg)

-----------------------------------------------------------------------------
(* Lines *)

\* The text again from its lines: a hyphen at the end of a line was put there,
\* otherwise a space was taken away.
Unwrap(lines) ==
  FoldLeft(LAMBDA t, l : IF t = <<>> THEN l
                         ELSE IF Last(t) = V!Hyphen THEN Front(t) \o l ELSE Append(t, V!Space) \o l,
           <<>>, lines)

SameText(t, u) == t = u \/ Append(t, V!Space) = u

\* Every line of a broken message fits, and the lines have the text: whole if
\* its characters are single bytes, otherwise all but a tail, for the code
\* compares a position in bytes with a width in columns (term.go, logs).
LinesKeepText ==
  case.kind = "wrap" =>
    LET lines == V!logs(case.text, case.w, case.meta)
        text  == Unwrap(lines)
        Got(t) == IF t # <<>> /\ Last(t) = V!Hyphen THEN Front(t) ELSE t
    IN  /\ Len(lines) > 1 =>
             \A i \in DOMAIN lines : V!Margin(case.meta) + V!width(lines[i]) <= case.w
        /\ \/ SameText(text, case.text)
           \/ (\E i \in DOMAIN case.text : case.text[i].bytes > 1) /\ IsPrefix(Got(text), case.text)

\* The part of the input that is shown fits, has the cursor in it, and the
\* terminal's cursor is where the text before it ends (term.go, Flush).
CursorInView ==
  case.kind = "input" =>
    LET v == V!Shown(case.text, case.cursor, case.max)
    IN  /\ v.cursor = V!width(v.before)
        /\ v.cursor <= case.max /\ V!width(v.text) <= case.max
        /\ IsPrefix(v.before, v.text)

-----------------------------------------------------------------------------
(* The authenticated stream *)

\* All that a writer has written after the writes and a last flush.
Stream(writes) ==
  Flush(FoldLeft(LAMBDA w, n : Write(w, [i \in 1..n |-> <<"data", w.sum + i>>]), NewWriter, writes)).out

Data == LET total == FoldLeft(LAMBDA m, n : m + n, 0, case.writes) IN [i \in 1..total |-> <<"data", i>>]

\* However the connection cuts the frames up, and whatever sizes are read, a
\* reader gets what was written: all of it and then the end; when less than a
\* frame is missing it says so, and it hands out nothing else (crypto/rw.go).
ReadsWhatWasWritten ==
  case.kind = "frame" =>
    LET all == Stream(case.writes)
        in  == SubSeq(all, 1, Max({0, Len(all) - case.cut}))
        got == ReadAll(in, case.sizes, case.chunks)
    IN  /\ IsPrefix(got.data, Data)
        /\ case.cut = 0 => got.data = Data /\ got.err = "EOF"
        /\ case.cut \in 1..(HSize + 2) /\ Data # <<>> => got.err = "ErrUnexpectedEOF"

\* Nothing of the stream is lost to the JSON decoder that has read on: the
\* encrypted bytes come out whole. A peer that sends nothing more until it is
\* answered, as in the handshake, and whose newline comes with the end of the
\* value, leaves nothing in front of them (server/channel/msg.go, JSON).
HandoverInStep ==
  case.kind = "json" =>
    LET cipher == [i \in 1..case.more |-> <<"cipher", i>>]
        in     == [i \in 1..case.n |-> <<"value", i>>] \o <<"\n">> \o cipher
        next   == JSON(in, case.n, case.chunk)
    IN  /\ IsSuffix(cipher, next)
        /\ case.more = 0 /\ case.n % case.chunk # 0 => next = <<>>

\* Both: reader and writer stay in step from the first frame on.
StreamInStep == ReadsWhatWasWritten /\ HandoverInStep

-----------------------------------------------------------------------------
(* The handshake *)

\* Client and server come to the same end (tryConnect of client/client.go,
\* handleConn of server/server.go).
HandshakeAgrees ==
  case.kind = "shake" =>
    H!AgreeOnName(case.srv, case.cl, case.n) /\ H!FatalOnlyByVerdict(case.srv, case.cl, case.n)

-----------------------------------------------------------------------------
(* Completion *)

\* Completing goes on from what is typed, with what all names that could be
\* meant begin with; the word is only closed when a single one is left
\* (completion.go; with bytes for letters it may end inside a character).
CompletesWhatWasTyped ==
  case.kind = "complete" =>
    LET new   == C!complete(case.input, case.prefix, case.list, case.excludes)
        found == C!Found(case.input, case.prefix, case.list, case.excludes)
        word  == SubSeq(new, Len(C!Before(case.input)) + Len(case.prefix) + 1, Len(new))
    IN  new # <<>> =>
          /\ IsPrefix(case.input, new)
          /\ \A i \in found : IsPrefix(word, Append(case.list[i], C!Blank))
          /\ (\A i \in found : C!Blank \notin Range(case.list[i])) =>
               (Last(new) = C!Blank <=> Cardinality(found) = 1)

-----------------------------------------------------------------------------
(* The trivia bot *)

\* The bot after each command; a process that has ended stays so.
Game ==
  LET g[i \in 0..Len(case.cmd)] ==
        IF i = 0 THEN B!NewTriviaBot
        ELSE LET t == g[i - 1]
             IN  IF t.end = "panic" THEN t ELSE B!Message(t, case.who[i], case.cmd[i], case.says[i])
  IN  g

\* In a game g u gets a question at the i-th command, or all is reset.
Gets(g, u, i) == g[i].current[u] \notin {B!NoQuestion, g[i - 1].current[u]}
IsReset(g, i) == case.cmd[i] = "reset" /\ g[i].end = "no"

\* The commands since the last reset that have got u a question, and what
\* these questions are worth.
Since(g, u) ==
  {i \in 1..Len(case.cmd) : Gets(g, u, i) /\ \A k \in i..Len(case.cmd) : ~IsReset(g, k)}

Worth(g, u) ==
  LET since == Since(g, u)
      w[i \in 0..Len(case.cmd)] ==
        IF i = 0 THEN 0 ELSE w[i - 1] + (IF i \in since THEN g[i].current[u].value ELSE 0)
  IN  w[Len(case.cmd)]

\* However users mix their commands: no question is given out twice, every
\* question since the last reset is open or was answered once and scored at
\* most its value; and only a service that is down, or sends nothing, ends the
\* process, though the code means to report the error (trivia.go, Message).
FairGame ==
  case.kind = "trivia" =>
    LET n == Len(case.cmd)
        g == Game
    IN  /\ \A u, v \in Players, i, j \in 1..n :
             Gets(g, u, i) /\ Gets(g, v, j) /\ g[i].current[u] = g[j].current[v] => u = v /\ i = j
        /\ \A u \in Players :
             /\ g[n].answered[u] + (IF g[n].current[u] = B!NoQuestion THEN 0 ELSE 1)
                  = Cardinality(Since(g, u))
             /\ g[n].scores[u] <= Worth(g, u)
        /\ g[n].end = "panic" => \E i \in 1..n : case.says[i].reply = "down" \/ case.says[i].list = <<>>
=============================================================================
