------------------------------ MODULE Transfer ------------------------------
(***************************************************************************)
(* Songs on their way to a client: server/channel/music/node.go,           *)
(* playlist-songs.go, state.go and song.go, the song message of            *)
(* music/data/node.go, and on the client download.go with its WaitGroup,   *)
(* for musicDownload of cmd/client (mode "download": fetch a playlist and  *)
(* wait) and for the player of music/node/node.go (mode "node": follow     *)
(* what the server plays and fetch what is missing).                       *)
(* A song's file of size v is v bytes <<s, v>>: version v of song s. The   *)
(* server announces the size that it found when it was asked and sends the *)
(* file that it finds when the message is written; the client takes as     *)
(* many bytes as were announced, whatever they are. A connection is a      *)
(* sequence of cells. When it is cut the client reads what had been        *)
(* written, then EOF, and connects again (Session has that part).          *)
(* The player and the collection are libym's: its calls are taken to do    *)
(* what they are named for.                                                *)
(***************************************************************************)
EXTENDS Integers, Sequences, FiniteSets

CONSTANTS
  Songs, NoSong,
  MaxSize,    \* bound: the largest file
  Files,      \* bound: what the server has at first
  MaxWire,    \* bound: cells on the connection
  MaxAhead,   \* bound: requests and answers under way when the state is sent
  MaxTrouble  \* bound: connections cut, errors of the client's disk, files replaced
              \* or removed on the server, changes of what its player does

\* What passes on a connection: answers and broadcasts, and the bytes of files.
Job  == [k : {"list", "none"}] \cup [k : {"song"}, s : Songs, n : 1..MaxSize]
        \cup [k : {"now"}, s : Songs \cup {NoSong}] \cup [k : {"state"}, p : BOOLEAN]
Cell == Job \cup [k : {"byte"}, s : Songs, v : 1..MaxSize]

ASSUME TransferAssumption ==
  /\ NoSong \notin Songs \cup Seq(Cell)
  /\ {MaxSize, MaxWire, MaxAhead, MaxTrouble} \subseteq Nat
  /\ Files \subseteq [Songs -> 0..MaxSize]
  /\ MaxWire > MaxSize + 1      \* every message fits

VARIABLES
  mode,
  lib,              \* lib[s]: the size of the server's file, 0 without one
  now,              \* the server's player: [s, p], p for paused; NoSong if its
                    \* queue has no current song
  asked, jobs,      \* requests and queued answers of this connection
  told,             \* the last [s, p] the server sent on this connection, as {[s, p]}
  wire, conn,       \* cells to read; "up", or "cut" by the server
  pc, todo, copy,   \* the read loop; the playlist's rest; the copy in progress
  local,            \* local[s]: the bytes of the client's file, NoSong without one
  wg, main,         \* DownloadHandler.wg; musicDownload: "wait", "done"
  ms,               \* musicState of client.go's Run
  paused, playing, current, last, \* Handler.paused, the player, the queue, lastS
  faults, swaps, changes,
  mixed, cut, failed, \* history: songs sent in a size that was not announced,
                    \* copies that ended at EOF and were kept, copies that failed
  astray            \* history: a file shorter than announced was sent on this
                    \* connection, so that the copy takes what follows it

server == <<lib, now>>
flow   == <<asked, jobs, told, wire, conn, astray>>
reader == <<pc, todo, copy>>
node   == <<ms, paused, playing, current, last>>
bounds == <<faults, swaps, changes>>
hist   == <<mixed, cut, failed>>
vars   == <<mode, server, flow, reader, local, wg, main, node, bounds, hist>>

Unknown == [s |-> NoSong, p |-> FALSE]
NoCopy  == [s |-> NoSong, left |-> 0, got |-> <<>>]

Init ==
  /\ mode \in {"download", "node"}
  /\ lib \in Files
  /\ IF mode = "node" THEN now \in [s : Songs \cup {NoSong}, p : BOOLEAN] ELSE now = Unknown
  /\ asked = IF mode = "download" THEN <<[k |-> "list"]>> ELSE <<>>
  /\ jobs = <<>> /\ told = {} /\ wire = <<>> /\ conn = "up" /\ astray = FALSE
  /\ pc = "read" /\ todo = {} /\ copy = NoCopy
  /\ local = [s \in Songs |-> NoSong]
  /\ wg = (IF mode = "download" THEN 1 ELSE 0) /\ main = "wait"
  /\ ms = Unknown /\ paused = FALSE /\ playing = FALSE
  /\ current = NoSong /\ last = NoSong
  /\ faults = 0 /\ swaps = 0 /\ changes = 0 /\ mixed = {} /\ cut = {} /\ failed = {}

Going == main = "wait"
More  == faults + swaps + changes < MaxTrouble
Local(s) == local[s] # NoSong

---------------------------------------------------------------------------
(* The server.                                                             *)

\* What a request is answered with; the size is the one of os.Stat.
Answer(r) ==
  CASE r.k = "list" -> [k |-> "list"]
    [] r.k = "song" /\ lib[r.s] = 0 -> [k |-> "none"]
    [] OTHER -> [k |-> "song", s |-> r.s, n |-> lib[r.s]]

Serve ==
  /\ Going /\ conn = "up" /\ asked # <<>>
  /\ jobs' = Append(jobs, Answer(Head(asked)))
  /\ asked' = Tail(asked)
  /\ UNCHANGED <<mode, server, told, wire, conn, astray, reader, local, wg, main, node, bounds, hist>>

\* flushState: the song, an empty one if there is none, and the state; what
\* equals the last is not written. While a song plays its position makes every
\* state differ.
SendState ==
  /\ Going /\ mode = "node" /\ conn = "up"
  /\ told # {now} \/ (~now.p /\ now.s # NoSong)
  /\ Len(asked) + Len(jobs) < MaxAhead
  /\ \A i \in 1..Len(wire) : wire[i].k # "state"
  /\ jobs' = jobs \o (IF \A t \in told : t.s # now.s THEN <<[k |-> "now", s |-> now.s]>> ELSE <<>>)
                  \o <<[k |-> "state", p |-> now.p]>>
  /\ told' = {now}
  /\ UNCHANGED <<mode, server, asked, wire, conn, astray, reader, local, wg, main, node, bounds, hist>>

\* Binary: the header with the size announced, then the file to its end.
Cells(j) == IF j.k = "song" THEN <<j>> \o [i \in 1..lib[j.s] |-> [k |-> "byte", s |-> j.s, v |-> lib[j.s]]]
                            ELSE <<j>>

\* A file that is gone by then leaves a message without a body: the writer
\* fails and the server gives the connection up.
Write ==
  /\ Going /\ conn = "up" /\ jobs # <<>>
  /\ LET j == Head(jobs) IN
     /\ Len(wire) + Len(Cells(j)) <= MaxWire
     /\ IF j.k = "song" /\ lib[j.s] = 0
        THEN conn' = "cut" /\ asked' = <<>> /\ jobs' = <<>> /\ wire' = wire
        ELSE wire' = wire \o Cells(j) /\ jobs' = Tail(jobs) /\ UNCHANGED <<asked, conn>>
     /\ mixed' = IF j.k = "song" /\ lib[j.s] \notin {0, j.n} THEN mixed \cup {j.s} ELSE mixed
     /\ astray' = (astray \/ (j.k = "song" /\ 0 < lib[j.s] /\ lib[j.s] < j.n))
  /\ UNCHANGED <<mode, server, told, reader, local, wg, main, node, bounds, cut, failed>>

\* The connection breaks, or a handler of the server fails; the client may
\* still read what had been written.
Cut ==
  /\ Going /\ conn = "up" /\ More
  /\ conn' = "cut" /\ asked' = <<>> /\ jobs' = <<>>
  /\ \E n \in 0..Len(wire) : wire' = SubSeq(wire, 1, n)
  /\ faults' = faults + 1
  /\ UNCHANGED <<mode, server, told, astray, reader, local, wg, main, node, swaps, changes, hist>>

Swap ==
  /\ Going /\ More /\ swaps' = swaps + 1
  /\ \E s \in Songs, n \in 0..MaxSize : n # lib[s] /\ lib' = [lib EXCEPT ![s] = n]
  /\ UNCHANGED <<mode, now, flow, reader, local, wg, main, node, faults, changes, hist>>

Change ==
  /\ mode = "node" /\ More /\ changes' = changes + 1
  /\ now' \in [s : Songs \cup {NoSong}, p : BOOLEAN] /\ now' # now
  /\ UNCHANGED <<mode, lib, flow, reader, local, wg, main, node, faults, swaps, hist>>

---------------------------------------------------------------------------
(* The client's read loop. An error ends it and the client reconnects:     *)
(* whatever was on its way is lost.                                        *)

Drop ==
  /\ asked' = <<>> /\ jobs' = <<>> /\ wire' = <<>> /\ told' = {}
  /\ conn' = "up" /\ astray' = FALSE /\ pc' = "read" /\ todo' = {} /\ copy' = NoCopy

Next1(k) == Going /\ pc = "read" /\ wire # <<>> /\ Head(wire).k = k
Taken == wire' = Tail(wire) /\ UNCHANGED <<jobs, told, conn, astray>>

\* wg.Done of an answer. Nobody waits for a node's, which is not counted.
Done == wg' = IF mode = "download" THEN wg - 1 ELSE wg
Add  == wg' = IF mode = "download" THEN wg + 1 ELSE wg

\* What has no header is no message; EOF ends the loop too.
Lost ==
  /\ Going /\ pc = "read"
  /\ \/ wire # <<>> /\ Head(wire).k = "byte"
     \/ wire = <<>> /\ conn = "cut"
  /\ Drop
  /\ UNCHANGED <<mode, server, local, wg, main, node, bounds, hist>>

TakeList ==
  /\ Next1("list") /\ Taken
  /\ pc' = "list" /\ todo' = Songs
  /\ UNCHANGED <<mode, server, asked, copy, local, wg, main, node, bounds, hist>>

Ask(s) == asked' = IF conn = "up" THEN Append(asked, [k |-> "song", s |-> s]) ELSE asked

\* DownloadSong without wg.Add.
RequestUncounted(s) ==
  /\ Going /\ pc = "list" /\ s \in todo
  /\ todo' = todo \ {s}
  /\ wg' = wg /\ IF Local(s) THEN asked' = asked ELSE Ask(s)
  /\ UNCHANGED <<mode, server, jobs, told, wire, conn, astray, pc, copy, local, main, node, bounds, hist>>

\* A song of the list that is not there yet: wg.Add, then Send, which may
\* seem to succeed on a connection that is gone.
Request(s) ==
  /\ Going /\ pc = "list" /\ s \in todo
  /\ todo' = todo \ {s}
  /\ IF Local(s) THEN UNCHANGED <<wg, asked>> ELSE Add /\ Ask(s)
  /\ UNCHANGED <<mode, server, jobs, told, wire, conn, astray, pc, copy, local, main, node, bounds, hist>>

\* Send fails: its Add stays, the list's Done is deferred.
RequestFails ==
  /\ Going /\ pc = "list" /\ conn = "cut" /\ \E s \in todo : ~Local(s)
  /\ wg' = wg + 1 - 1
  /\ Drop
  /\ UNCHANGED <<mode, server, local, main, node, bounds, hist>>

EndList ==
  /\ Going /\ pc = "list" /\ todo = {}
  /\ Done /\ pc' = "read"
  /\ UNCHANGED <<mode, server, flow, todo, copy, local, main, node, bounds, hist>>

\* "not available", with the deferred Done forgotten.
TakeNoneSilently ==
  /\ Next1("none") /\ Taken
  /\ UNCHANGED <<mode, server, asked, reader, local, wg, main, node, bounds, hist>>

TakeNone ==
  /\ Next1("none") /\ Taken /\ Done
  /\ UNCHANGED <<mode, server, asked, reader, local, main, node, bounds, hist>>

\* The temporary file is made; if that fails the body stays unread and the
\* error ends the connection.
TakeSong ==
  /\ Next1("song")
  /\ \/ /\ Taken /\ pc' = "copy"
        /\ copy' = [s |-> Head(wire).s, left |-> Head(wire).n, got |-> <<>>]
        /\ UNCHANGED <<asked, todo, wg, faults, failed>>
     \/ /\ More /\ faults' = faults + 1 /\ Done /\ Drop
        /\ failed' = failed \cup {Head(wire).s}
  /\ UNCHANGED <<mode, server, local, main, node, swaps, changes, mixed, cut>>

\* Into the song's own file.
CopyInPlace ==
  /\ Going /\ pc = "copy" /\ copy.left > 0 /\ wire # <<>> /\ Taken
  /\ copy' = [copy EXCEPT !.left = @ - 1, !.got = Append(@, Head(wire))]
  /\ local' = [local EXCEPT ![copy.s] = Append(copy.got, Head(wire))]
  /\ UNCHANGED <<mode, server, asked, pc, todo, wg, main, node, bounds, hist>>

\* io.Copy from a LimitReader into the temporary file.
Copy ==
  /\ Going /\ pc = "copy" /\ copy.left > 0 /\ wire # <<>> /\ Taken
  /\ copy' = [copy EXCEPT !.left = @ - 1, !.got = Append(@, Head(wire))]
  /\ UNCHANGED <<mode, server, asked, pc, todo, local, wg, main, node, bounds, hist>>

Keep == local' = [local EXCEPT ![copy.s] = copy.got] /\ Done

\* All of it, or EOF between two frames, which io.Copy takes for the end:
\* the file gets its name.
EndCopy ==
  /\ Going /\ pc = "copy"
  /\ \/ copy.left = 0 /\ cut' = cut
     \/ copy.left > 0 /\ wire = <<>> /\ conn = "cut" /\ cut' = cut \cup {copy.s}
  /\ Keep
  /\ pc' = "read" /\ copy' = NoCopy
  /\ UNCHANGED <<mode, server, flow, todo, main, node, bounds, mixed, failed>>

\* The connection breaks within a frame: an error.
CopyFails ==
  /\ Going /\ pc = "copy" /\ copy.left > 0 /\ wire = <<>> /\ conn = "cut"
  /\ Done /\ Drop
  /\ failed' = failed \cup {copy.s}
  /\ UNCHANGED <<mode, server, local, main, node, bounds, mixed, cut>>

\* musicDownload: Wait returns, and the process ends.
Return ==
  /\ mode = "download" /\ Going /\ wg = 0
  /\ main' = "done"
  /\ UNCHANGED <<mode, server, flow, reader, local, wg, node, bounds, hist>>

---------------------------------------------------------------------------
(* The node's player: HandleMusicStateMessage.                             *)

\* The player is paused, and Handler does not remember it.
FetchForgetting(m) ==
  /\ playing' = FALSE
  /\ Ask(m.s)
  /\ UNCHANGED <<paused, current, last>>

\* The song is not there: pause and ask for it, on every message again.
Fetch(m) ==
  /\ playing' = FALSE /\ paused' = TRUE
  /\ Ask(m.s)
  /\ UNCHANGED <<current, last>>

\* The song is there. One that was not the queue's current is a new object
\* for s == h.lastS, and so is forced to play.
Play(m) ==
  /\ asked' = asked
  /\ \/ m.p /\ paused /\ UNCHANGED <<paused, playing, current, last>>
     \/ /\ m.p /\ ~paused
        /\ current' = m.s /\ playing' = FALSE /\ paused' = TRUE /\ last' = last
     \/ /\ ~m.p
        /\ current' = m.s /\ last' = m.s /\ paused' = FALSE
        /\ playing' = IF paused \/ current # m.s \/ last # m.s THEN TRUE ELSE playing

Follow(m) ==
  /\ ms' = m
  /\ IF m.s = NoSong THEN UNCHANGED <<asked, paused, playing, current, last>>
     ELSE IF Local(m.s) THEN Play(m) ELSE Fetch(m)

TakeState ==
  /\ \/ Next1("now") /\ Follow([ms EXCEPT !.s = Head(wire).s])
     \/ Next1("state") /\ Follow([ms EXCEPT !.p = Head(wire).p])
  /\ Taken
  /\ UNCHANGED <<mode, server, reader, local, wg, main, bounds, hist>>

---------------------------------------------------------------------------
Read == \/ Lost \/ TakeList \/ EndList \/ TakeNone \/ TakeSong \/ Copy \/ EndCopy
        \/ CopyFails \/ TakeState \/ \E s \in Songs : Request(s)

Next == Read \/ RequestFails \/ Serve \/ SendState \/ Write \/ Cut \/ Swap \/ Change \/ Return

\* Every goroutine goes on, and the server's ticker ticks.
Fairness == WF_vars(Read) /\ WF_vars(Serve) /\ WF_vars(Write) /\ WF_vars(SendState) /\ WF_vars(Return)

Spec == Init /\ [][Next]_vars /\ Fairness

---------------------------------------------------------------------------
(* Properties.                                                             *)

\* The WaitGroup never panics, and when it lets musicDownload go nothing is
\* under way: no song is still being fetched or was forgotten, and one that
\* is missing was not available or its copy failed (download.go:41-76).
WaitMeansAll ==
  /\ wg >= 0
  /\ main = "done" => /\ pc = "read" /\ asked = <<>> /\ jobs = <<>>
                      /\ \A s \in Songs : Local(s) \/ lib[s] = 0 \/ swaps > 0 \/ s \in failed

\* A file under a song's name holds one whole version of that song, unless
\* the server sent another size than it had announced or the connection
\* ended between two frames of it (download.go:104, data/node.go:98,147).
LocalIsWhole ==
  \A s \in Songs : \/ s \in mixed \cup cut \/ ~Local(s)
                   \/ \E v \in 1..MaxSize : local[s] = [i \in 1..v |-> [k |-> "byte", s |-> s, v |-> v]]

\* Without a lost connection and without such a file a download ends.
DownloadEnds == <>(mode # "download" \/ main = "done" \/ conn = "cut" \/ faults > 0 \/ mixed # {})

\* In the end a node plays the server's current song, and pauses with it or
\* where neither of them has the file, through connections cut, bodies that
\* never came, files replaced and songs asked for twice (node.go:187). Two
\* cases are not covered. Without a current song the handler returns before it
\* pauses (node.go:194), and the node goes on as it was. And on a connection
\* that carried a file shorter than announced, for as long as it lasts: the
\* copy may have taken the news for the file's rest, and they are not resent.
Together ==
  IF now.p \/ (lib[now.s] = 0 /\ ~Local(now.s)) THEN ~playing ELSE playing /\ current = now.s
Follows == <>[](mode # "node" \/ now.s = NoSong \/ astray \/ Together)
=============================================================================
