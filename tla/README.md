# homechat: specifications, model checking and proofs

This directory holds TLA+ models of homechat (a chat and music server in Go, its
clients and bots), the TLC configurations that check them on small instances, and
theorems about them checked by TLAPS. Paths below are relative to `src/`.

## 1. The system

One server process, many client processes. Clients connect over TCP or a
websocket, agree on keys, identify themselves with a name and a list of channels,
and then exchange messages tagged with a channel. The server has one handler
object per channel; a handler answers by broadcasting messages with a filter.

| Component | State it keeps | Operations | Module |
| --- | --- | --- | --- |
| Client registry, broadcast, dispatch (`server/server.go`, `server/client/client.go`) | `s.clients` behind a RWMutex, `s.outgoing`, per client `jobs`, `stopped`, `last`, WaitGroups | setClient, unsetClient, BroadcastBatch, Queue, Stop, Run, send | Delivery, BatchLifetime |
| Chat history on disk (`server/channel/saver.go`) | messages, `haveNew`, store file, append-only log and its channel | Load, Save, Add, StartAppend, StopAppend | Records |
| Life cycle (`cmd/server/server.go`, RunTCP, RunHTTP, RunChannels, Close) | lock file, listeners and their retries, three errors, signal handler | start, serve, retry, report, signal, exit, die | Lifecycle; Records (what is saved) |
| Server configuration and key file (`cmd/server/flags.go`, `cmd/server/conf.go`, `crypto/keys.go`) | the file, its `.tmp`, the key | Decode, Merge, Encode, EnsureKey, hue | Lifecycle |
| Chat (`server/channel/chat`) | bots | Handle, batch, FromHistory, botMessage | ChatRouting, Catchup |
| History requests (`server/channel/history`) | none of its own | handle: read the log, reset, replay | Catchup |
| Presence (`server/channel/users`) | `change` flag, ticker | UserUpdate, SendInterval, do, GetUsers | Presence |
| Handshake and read loop (`newClient`, `handleConn`, `client/client.go`) | stage of each connection, keys, names | key exchange, test, identify, verdict, read | Session (in time), Handshake (every outcome) |
| Policy file (`cmd/server/flags.go`) | cached list, time of the load, lock | load, look up | Session |
| Music state and song transfer (`server/channel/music`, `client/handler/music`) | last state sent, WaitGroup, files, what the node plays; player and collection are libym's (external) | send state, answer, write a file, request, copy, follow | Transfer |
| Typing, ping, status, update, upload | none | answer with one broadcast | not modelled: Delivery is what happens next |
| Encryption and framing (`crypto/rw.go`, `server/channel/crypto.go`, `server/channel/msg.go`) | HMAC buffers, the JSON decoder's rest | Write, Flush, Read, JSON | Framing, Handshake |
| Client connection (`client/client.go`) | `conn`, `fatal`, `sem`, users | connect, Send, Close, Run, disconnect | Session; Presence and Catchup have what it keeps |
| Terminal handler (`client/handler/terminal`) | channels of messages, batch, song list | HandleChatMessage, HandleHistory, HandleMusicMessage, Run | Terminal |
| Terminal user interface (`ui/term.go`) | log, line cache, scroll, search, input line and cursor | Broadcast, Clear, Scroll, Search, Flush, Input, BackspaceInput | TermView, Wrap, Console |
| Command line client (`cmd/client`) | escape automaton, vi mode, input history | keys, Submit, completion, download | Console, Completion, Transfer |
| Bots (`bot`) | trivia questions and scores | Message | Trivia; Catchup has when their answers appear |
| Flags, wasm, bandwidth, static data | parsed values, counters | parse, count | not modelled |

How they interact: a connection's goroutine runs `handleConn`, which calls the
channel's handler, which calls `Broadcast` on the server (a call, under the
registry's read lock); jobs travel over `s.outgoing` to one dispatcher and from it
to one writer goroutine per client. The save ticker, the signal handler, the
tickers of presence and music, bots and the player are further goroutines. The
history is shared by chat (adds), history requests (reads), the ticker and the
signal handler (saves), and the writer of the append-only log (a channel). On the
client one goroutine reads the connection and calls the handler, whose channels
lead to the terminal; the keyboard and the player are goroutines of their own.

What is hard here: goroutines that block on each other while they hold a lock;
channels that are closed while others send; WaitGroups counted down in several
places; flags that are read or written without a lock; two steps that a reader
takes for one (log and broadcast, read and send, save and close, announce a size
and send a file); files rewritten by processes that may die or run twice; and
small automata (escape sequences, frames, line breaking) whose inputs combine.
`PROJECT.json` lists each with its line.

What makes each component correct:

* Delivery: a message's file is closed only after its last reader; no counter
  leaks; a caller's messages keep their order; every recipient is served once; a
  leaving client is removed and nobody waits for ever.
* Records: what was saved survives restarts; a message added during a save is
  saved by a later one; the log has no gap and is drained at a stop.
* Lifecycle: the operator's settings outlive starts, tools and deaths; the key
  that clients have seen stays the server's; a listener's end is reported and a
  signal ends the process.
* Chat and history: the same people see a message live and replayed; a replay
  loses and repeats only what falls in its window.
* Presence: no change is lost between the flag and the lists.
* Session and Handshake: whichever of the client's goroutines dials, fails or is
  refused, the current connection is introduced and registered once; both sides
  agree on the name; a client gives up for good only when it is told to.
* Transfer: when a download returns nothing is under way; a file under a song's
  name is that song; a node ends up playing what the server plays.
* Framing: the reader gets what was written, however the connection cuts it.
* Terminal and Console: no message is lost or exchanged on its way to the view;
  the window is onto the log; every key does to the line what it stands for.

## 2. The plan

Done: 1 Delivery with its abstract specification and proofs, 2 Records,
3 ChatRouting and Catchup, 4 Presence, 5 Session, 6 Handshake, 7 Framing,
8 TermView and Terminal, 9 Transfer, 10 Lifecycle with the configuration,
11 Wrap, Console, Completion (the terminal's input), 12 Trivia.

Compositions: Catchup EXTENDS ChatRouting, Terminal EXTENDS TermView; Delivery
refines BatchLifetime; Algorithms brings the pure modules (ChatRouting, Wrap,
Framing, Handshake, Completion, Trivia) together, one input per state.

Theorems done: the safety properties of Delivery with its refinement, Records,
Lifecycle, Catchup, Presence, Session, Transfer, Terminal, Console and Algorithms,
that is every invariant that a run checks.

Left for further models: a composition of Session with Delivery (what a connection
loses when the client replaces it), the reconnection of music nodes in time.

## 3. The modules

**Delivery.** One state machine for registry, broadcast, dispatcher, queues and
writers. `conn[c]` is where a connection's goroutine is; the write lock is
`writer` (announced or held; Go's RWMutex lets no new reader in once a writer has
announced itself) and readers are the calls in `at`. `BroadcastBatch` is split
where other goroutines can observe it: selection and merge (`BroadcastBatch`), one
`Push` per job (blocking on a full `s.outgoing`), `Return`, and the goroutine that
waits for the WaitGroup and closes the messages (`CloseMsgs`). `Queue` is split
into its unlocked test of `stopped`, its `wg.Add`, its send and its `wg.Done`.
Jobs carry sets of <<entry, registration>> pairs; their order is that of the
entries. The order of a Go map iteration is any order. A send on a closed
channel sets `panic`.

**BatchLifetime.** What a caller of BroadcastBatch may rely on: the uses of a
batch are fixed when the call starts, only end, and the batch is closed once and
after the last of them. `Delivery!LifetimeSpec` is this under the mapping "uses =
what waits in a queue or is being written".

**Records.** The store file is a record of version, announced length and messages
written so far; it is rewritten message by message, so that a crash shows the
prefix. `sem` and the server's save mutex are variables; reads that the code does
without them (haveNew, appending) are steps of their own. A process that panics,
crashes, fails to start or exits keeps only its files (`Gone`).

**ChatRouting.** `batch`, `FromHistory`, `CheckName` as operators. A text is
reduced to its lead (`//`, `/`, `!`), the name after a leading `@`, and per
mention the names it counts for (the word, and the word cut at punctuation). What
a client called n gets (`EntriesFor`), live (`Live`) or replayed (`FromHistory`), is
the batch's entries that its name passes; the properties are operators of one
message, so that the run enumerates messages and the proof takes any. `Notifies` is
what the command line client makes of an entry. It compares the author with the
name in its own configuration, `mine`; the server knows the client as n, which is
another name if the policy fixes one or the server has filtered it. `News` is what
a user hears of, so `NotifiedOfNews` says both that news is notified and that
nothing else is, for every pair of names.

**Catchup.** Handlers of connections and goroutines of bots that log a message
and broadcast its entries one after the other, and replays that read the log, push
the reset and then the replayed messages. All messages ever logged are in `log`;
what the history keeps is its end, so `First` stands for both trims. A replay's
entries are `Replay`, a function that recurs over the numbers of messages. Queues are left
out: every goroutine pushes to one FIFO, and Delivery shows what follows.

**Presence.** Registry counts, the change flag (set by one goroutine per change,
tested and cleared in two steps by the ticker) and `do`, which reads and sends each
list in separate steps. Each connection subscribes to a channel once; Delivery has
the case of a double subscription.

**Session.** One client process and the connections ("links") it makes, from both
ends. `pc[p]` is where each of the client's three goroutines is (main, Run and the
goroutine of Run that pings); `using[p]` is the reader or writer it holds, which may
belong to a link that is no longer `conn`. `sem` is c.sem where it is held over
several steps, that is by who dials. `disconnect` closes whatever is current, as
the code does. The server's side of link k is `handler[k]`, one value per stage of
`handleConn`; a key exchange is one message each way. `file`, `list`, `fresh`,
`loader` are the policy file, the cached list, "lastLoad is less than five seconds
ago" and the lock of `PolicyLoader`; `OtherLock` and `OtherLoad` are the same steps
for another connecting client. An unsynchronised read of `lastLoad` or `fatal` sees
the value before or after a concurrent write; a torn read of the interface `fatal`
is not modelled.

**Handshake.** What Session takes for one verdict, worked out: `newClient` on the
server, `tryConnect` and `negotiateUser` on the client, and the key messages of
`crypto.go`, as functions of the server's configuration, the client's, and the
number `n` of messages that arrive before the connection drops. Keys are an
identity and a size, a signature is its signer and the data, a secret is the tuple
that it is derived from: what a wrong label, key or order breaks is then unequal.

**Framing.** `HMACWriter` and `HMACReader` as functions on sequences: a byte is
named by its place, a code by how many bytes it covers. `Read` takes at most what
its caller asks for and what the connection hands out, so `ReadAll` goes through
every split of header, data and code. `JSON` is the hand-over from the key message
to the cipher, with what the decoder has read ahead.

**Lifecycle.** The processes of `cmd/server` that run on one directory. `pc[p]`
walks through Parse (`decode`, `merge`, `create`, `write`, `rename`, `key`,
`newkey`) and main; `then[p]` is where the code goes after an `Encode`, `at[p]` is
where the file it has open is by now (`tmp`, renamed to `conf`, or replaced);
another process's rename moves it (`Moved`). The
configuration has one field for each way `Merge` treats a field. The server is the
holder of the lock: `link` says where the goroutines of RunTCP, RunHTTP and
RunChannels are, `err` which of serve's three error variables are set, `sig` and
`exit` the signal handler. `Die` is a kill or a panic anywhere.

**Transfer.** A connection is a queue of cells. The server announces the size that
`os.Stat` gave (`Serve`) and sends the file that it finds later (`Write`); the
client copies as many bytes as were announced (`TakeSong`, `Copy`, `EndCopy`) and
renames. `mode` chooses between a download of a playlist with its WaitGroup and a
node that follows the server's player: `ms`, `paused`, `playing`, `current` and
`last` are what `HandleMusicStateMessage` reads and sets. The server's queue may have
no current song (`now.s = NoSong`): it then sends an empty one, on which the node
returns before it pauses. `told` is what the server has sent last on this
connection, if anything. A cut connection loses what is behind some point; the
client reads what is before it and connects again. Songs are YouTube's, the only
kind of libym's that `node.go` and `client.go` know; `Request` thus has no case for
an unknown namespace (`client/handler/music/download.go:65-66`).

**TermView and Terminal.** TermView is the log of `ui/term.go`: messages, the line
cache with the size it is said to be for, scroll position, search and jump;
`Flush` computes the window. Terminal adds the channel, the goroutine, the second
channel and the batch between handler and view, the history reset, and a song list
that clears, jumps and broadcasts in three steps.

**Wrap, Completion, Console.** Wrap has the loop that breaks a message into lines
and the cut of the input line, on characters with a number of bytes and a width.
Completion is `completion.go`. Console reads the bytes of pressed keys through the
escape automaton and the key map into the input line, a sequence of bytes with a
cursor that counts characters, and the history of lines; beside it `line` says in
characters what the keys should have come to.

**Trivia.** `Message` as a function of the bot's state, the command, and what the
service answers when it is asked.

**Algorithms.** The pure modules side by side. Its one variable is `case`, an
input that nothing changes; the inputs are constants with assumptions that say
what they are (characters, writes, commands, ...), and the properties of the pure
modules are about `case`. So TLC takes every small input and the proofs any.

The `MC*` modules give constants their values.

## 4. The runs

| Run | Shows | Bounds |
| --- | --- | --- |
| delivery | CloseAfterUse, CounterExact, PushToLive, ServedInOrder | two clients, one batch over two channels sent twice, all buffers of capacity 1 |
| delivery_live | refinement of BatchLifetime, CallerOrder, NothingHangs | two clients, one of them registered twice for a channel, and a goroutine of the server; merged, equal and rejected messages; one call |
| delivery_panic | violation: `Queue` meets a closed channel (StoppedIsReported) | one client, one call |
| records | StartsAgain, NothingForgotten, LogComplete, AddsAndSaves | both file formats, two starts, four messages, capacity 2, one failing write |
| catchup | SeesItsShare, OnlyNewestTwice, AuthorOrder | two clients and a bot that answers publicly, three messages (a mention, a private one, a silent command), two replays, a history of two |
| presence | ListsAccurate, SeesItself, Settles | three connections of two users, two channels, one request |
| session | CurrentInUse, RightlyRegistered, RunGoesOn, GivesUp | two connections, one failure anywhere, a policy file that lacks the client or cannot be parsed, and is edited |
| algorithms | RightCopies, RightNotifications, LinesKeepText, CursorInView, StreamInStep, HandshakeAgrees, CompletesWhatWasTyped, FairGame | all chat messages over three names, each read by clients whose configured name is their own or another; texts of up to four words of one-, two- and three-byte characters; three writes, frames of three bytes, codes of two, streams cut up to five bytes short, which is more than a frame; every handshake over two keys, three sizes, three policies, two names, channels and versions; lists of two words, one with a space in it; four commands of two players |
| console | LineAsTyped, HistoryKeeps | eleven keys, among them a two-byte character; seven key presses, a history of two lines; as a remote, where one key acts on an empty line only |
| terminal | NothingLost, ShowsWhatIsAsked | channels of capacity 1, three messages or lists of four, a view that keeps two, two sizes, one reset, two keys |
| lifecycle | SettingsKept, ServedKeyLasts, ServeHears | two processes, two starts, one death or failure, two tries instead of three; no file, or one with a value of the operator's, an empty one, a negative one and a missing one |
| transfer | WaitMeansAll, LocalIsWhole, DownloadEnds, Follows | two songs of up to two bytes, two troubles of any kind, two requests under way |

A property that joins two facts about one thing is the conjunction of two named
definitions, stated above it in its module (StartsAgain = FileWhole and
StartFailsOnlySpoilt, and so on).

Why these bounds: capacity 1 is the tightest for every blocking send, and two
clients suffice for one to block another. Races in this code are between two
goroutines (or processes) and one shared flag, lock or file; each run has both,
and one bystander where it matters. Two connections are one reconnect, so that a
goroutine can fail on the old one while another uses the new; with three
connections the properties of `session` hold as well (half a million states, too
long for a routine run). Two bytes are the smallest file with an inside; two tries
have a first and a last. A history of two lines has an oldest and a newest. A
text of four words has room for a cut at a space, a hyphen and a last line. Seven
keys are two arrows' worth of history after a line, or a wide character, a move and
an edit. The counters of the models (`MaxCalls`, `MaxAdds`, `MaxBoots`, `MaxLog`,
`MaxReplays`, `MaxAsks`, `MaxDials`, `MaxStarts`, `MaxKeys`, `MaxPressed`,
`MaxReceived`, `MaxResets`, `MaxSizes`) bound what users do, `MaxFails`, `MaxFaults` and
`MaxTrouble` what breaks or changes, never what the program does in answer;
`RunGoesOn` and `GivesUp` exempt a behaviour that wants a connection beyond
`MaxDials`. `MaxAhead` and `MaxWire` of Transfer bound the buffers between two
processes. Only `delivery`'s message sets are smaller than what clients may send: a
history answer is the batch that uses two channels at once.

Deadlock is checked in the runs of Delivery, Records, Catchup, Presence and
Session, where the `Terminating` steps are the states in which everybody has gone
or a bound is used up (and, in Delivery, the process is dead), and in
`algorithms`. It is not in `console` and `terminal`, which stop when no more keys
are pressed and nothing arrives, in `lifecycle`, which stops when the last process
has ended, and in `transfer`, which stops when the download returns.

### Fairness

Weak fairness of each goroutine: Go schedules every runnable goroutine. In
Delivery a write ends because every connection has a deadline of 120 seconds
(`server/server.go:813`), so a writer with a job always goes on, and the reader of
`clientErrs` (`Init`) never stops, so reporting an error does not block. Lock
acquisition needs no strong fairness: an announced writer keeps later readers out.
In Records the ticker saves every five seconds, so its steps are fair; signals,
crashes, failing writes and new messages are not. In Presence the ticker wakes
every 500 ms; nobody has to connect, leave or ask. In Session every goroutine of
the client and the server goes on; the mutexes of package sync do not starve a
waiter and select does not pass over a case that stays ready, hence strong fairness
of the server's handlers (which compete for the policy file's lock) and of
`PingEnds`. Nothing forces an expiry, an edit, a failure or `Close`. In Lifecycle
only what the server's properties need is fair: its load, the signal handler's two
steps and the loop of serve; no start, signal, failure or death is. In Transfer the
client's read loop, the server's handler and writer and its ticker are; a cut, a
replaced file, a disk error and what the player does are not.

### Results to know of

* `delivery_panic`: `Queue` tests `stopped` before `wg.Add(1)`; `Stop` between the
  two closes the channel and the send panics, where the code means to report an
  error. All other properties of Delivery hold up to that point.
* A crash or a signal during a load, or a crash during a save, leaves a store file
  that the next start refuses: `StartsAgain` and `NothingForgotten` say exactly that
  this is the only way (`spoilt`).
* A replay can lose a message (logged after the read, pushed before the reset),
  show one twice, or show a newer one above: three windows, and no others.
* In Session a goroutine that failed on an old connection may close the new one, and
  one that waited for the lock while another was refused dials all the same. Both
  heal: Run's read fails and it connects again, or the next ping ends it.
* A list of users can stay old until the next change if a client asked for it at
  the wrong moment: `raced` in `SeenAccurate`.
* `lifecycle`: settings are lost, or the file torn, only when one process starts
  between another's reading and last writing of the configuration (`shared`); two
  first starts that make a key at once can show clients a key that no later start
  has (`raced`). Otherwise all starts agree, whoever dies where.
* `transfer`: a file under a song's name can be something else in two cases: the
  server's file changed between its `os.Stat` and its writing (`mixed`), or the
  connection ended between two frames of the body, which `io.Copy` takes for the
  end (`cut`). A node comes to play and pause with the server after cut connections,
  replaced files, missing bodies and disk errors. It does not while the server has
  no current song, nor on a connection that has carried a file shorter than
  announced, for as long as that lasts: the copy may have swallowed what followed,
  and the server does not repeat what it has sent (`astray`).
* `console`: the only keys that go wrong are the two listed below.

### Disagreements

Met while modelling. The first is the run above; the models have the others as the
code does them, and the properties are stated with them in mind.

* `server/channel/saver.go` trims in `Add` only, so a start with a larger file, and
  the save after it, keep more than MaxChatMessages; the help says "the logfile
  will be truncated to this size" (`cmd/server/conf.go:78`).
* A message with mentions marks its copy for all others NotifyNever
  (`server/channel/chat/chat.go:236-240`), and what a bot says is NotifyNever for
  all (lines 174-176): that silences shouts and the mode `always`, which the help
  calls "well... always" (`cmd/client/conf.go:40-42`).
* The client tells its own messages by the name in its configuration
  (`cmd/client/client.go:949`), while the server may have given it another
  (`server/server.go:614-622` and the policy's fixed names). Such a client is
  notified of its own messages, and not of those of a user who has its configured
  name. Of the messages of five seconds only the last is shown
  (`cmd/client/client.go:957-965`), which the models leave out.
* Without a current song the server sends an empty one (`server/channel/music/song.go:38`)
  and the node returns before it pauses (`client/handler/music/node/node.go:194`): it
  plays on while the server does not.
* `load` sets `lastLoad` before it reads the policy file and others return early on
  it (`cmd/server/flags.go:46-54`): a listed client that identifies itself meanwhile,
  or within five seconds of a failed read, is told that it is not allowed, and its
  client gives up for good.
* "Empty to not store any logs (!)" (`cmd/server/conf.go:47-48`): the empty
  directory survives in the file, but serve joins a name to it
  (`cmd/server/server.go:295-296`) and the logs go to the working directory.
* `simpleAPI` returns no value when the network fails, and `bot/trivia.go:106`
  asserts its type before it looks at the error: the process panics where it means
  to answer with the error. An empty list of questions panics at line 152.
* After an arrow key the escape automaton stays where it was on a `[`, which is lost
  (`cmd/client/keys.go`); a multi-byte character typed inside the line leaves the
  cursor too far right, since every byte moves it (`ui/term.go`, Input).
* The last line of a message is left out when a position in bytes exceeds a width in
  columns (`ui/term.go`, logs): part of a text with multi-byte characters is not shown.
* A search lays the lines out for the current size without telling the cache: after
  two resizes that undo each other the view has lines for the other size.
* When a JSON value and its newline end in different reads the newline is left in
  front of the encrypted stream (`server/channel/msg.go`, JSON).
* A completion that is cut by bytes may end inside a character (`completion.go`).
  A name with a space in it can be completed up to that space, as if it were whole.
* `latencies.Add` and `Median` have value receivers
  (`client/handler/music/node/node.go:50-61`): what they compute is dropped.
* An update answer that nobody asked for blocks the client's read loop
  (`client/handler/update.go:50`); a download that has lost its connection waits for
  ever (`DownloadEnds` exempts it).
* RunChannels closes the server and returns what Close returns; when that is nil
  serve keeps running without its channels (`server/server.go:936`).
* hue writes back the configuration it read at its start, over what was edited
  meanwhile (`shared` in SettingsKept).

## 5. The proofs

Each `*Proofs` module extends the module it is about (TerminalProofs two, Terminal
and Console, and RecordsProofs two, Records and Presence, whose variables are
disjoint). It states the inductive
invariant, shows it kept action by action (one lemma per conjunct or per action),
and draws the properties of the runs from it, for every value of the constants.
Every invariant of the passing runs is thus a theorem.
TLC has checked the inductive invariants on the runs as well, but for those that
say that there is a text or a layout such as no finite set holds (`ViewInv`,
`TextsInv`, `LineInv`). In Algorithms nothing changes; there the induction is over
the loops of the code, and the invariant is of a loop.

| Module | Theorems | Inductive invariant |
| --- | --- | --- |
| DeliveryProofs | ClosedAfterUse, WaitGroupExact, PushedToLive, OrderKept, AllServedInOrder, Implements | `IInv`, `OrderedInv` |
| RecordsProofs | AlwaysStartsAgain, NothingIsForgotten, LogIsComplete; of Presence: ListsStayAccurate | `IInv`; `ListsInv` |
| LifecycleProofs | KeyLasts, SettingsAreKept | `KeyInv`, `ConfInv` |
| CatchupProofs | AlwaysSeesItsShare, OnlyTheNewestTwice, AlwaysInAuthorOrder | `IInv` |
| SessionProofs | AlwaysInUse, AlwaysRightlyRegistered | `IInv` |
| TransferProofs | FilesAreWhole, WaitIsForAll | `IInv` |
| TerminalProofs | NothingIsLost, AlwaysShowsWhatIsAsked; of Console: HistoryIsKept, LineIsAsTyped | `ChatInv`, `ViewInv`; `KeyInv`, `TextsInv` with `LineInv` |
| AlgorithmsProofs | CopiesAreAlwaysRight, AlwaysRightNotifications, HandshakesAlwaysAgree, TheCursorIsInView, CompletionGoesOn (no loop invariant); LinesAlwaysKeepText; StreamsStayInStep; GamesStayFair | `Broken`; `Flushes`, `Reads`; `Settled`, `Fresh` with `Once` |

**Delivery.** `IInv` is the conjunction of types, of the lock's discipline
(`LockInv`), of the calls (`CallInv`), of what waits (`WaitInv`, `HandInv`,
`QueueInv`), of the writers (`WriterInv`), of the places of jobs (`PlaceInv`) and
of the counters (`CountInv`). That the counter equals what is owed is not inductive
by itself. A counter goes down by the size of a job when a stopped client refuses
it, so no message may be in two jobs or in a job and a writer at once (`PlaceInv`);
jobs move between four places, so these must be disjoint; and a `Close` needs that
whatever waits belongs to a call that is not closed (`WaitInv`, `WriterInv`).
`PushToLive` rests on `LockInv`: a client is stopped only while no reader is in.
`Implements` is `Spec => LifetimeSpec`, step by step.

`OrderedInv` adds `LineInv` and `ServeInv`. A job goes through one line: from its
caller over `s.outgoing`, the dispatcher's hand and the client's queue to the
writer, and at each place of the line nothing stands before what the same caller
pushed earlier; `CallerOrder` is what this says of the sent log, and it needs the
whole line, with the jobs of one call to one client being stretches of the batch
that do not overlap (`TodoInv`). `ServeInv` counts: what a client has been sent of
an entry and what is still owed make what the call selected for it, and no more
than that once it is stopped.

**Records.** `IInv` is the store file (`StoreInv`: who holds the two mutexes,
`LockInv`; that a save has written a beginning of the history and a load has read
one, `SaveInv`, `LoadInv`, `GoodInv`), the history (`HistInv`: numbers grow along
it, `OrderInv`, and what was saved or logged is in it or has made place for newer
messages, `KeepInv`), and the log (`AppInv`: `LogInv`, `StopInv`). "Nothing
forgotten" compares the file with the history, which a load replaces and `Add`
trims while a save writes: hence `KeepInv` speaks of every place a message is in.
That the log has no gap is the count that goes on from the log over the channel to
the blocked `Add`.

**Lifecycle.** ServedKeyLasts alone is not inductive: that a server shows the first
one's key needs that whoever is past EnsureKey holds the stored key (`HolderInv`),
and that stays so only because at most one process is between generating a key and
storing it, while none is stored (`MakerInv`), and because what it stores is a key
(`MadeInv`). All three hold until two processes make a key at once (`raced`), which
is where the code has no guard. SettingsKept needs, while no two processes are in
the configuration at once (`OneInv`, until `shared`), that what a process has in
memory has the operator's values (`MemInv`), that the file it has open is still the
`.tmp` one and holds that when it is renamed (`TmpInv`), and that the configuration
has them or there is none and nothing was wanted (`FileInv`), whoever dies where.

**Catchup.** `IInv`: where a caller is and what it holds (`PlaceInv`); a handler is
at the newest message of its author (`AuthorInv`: the read loop takes one message
at a time); what the replay has read, shown and been overtaken by (`ShowInv`); what
is lost is in the window (`LossInv`); what is shown twice was still to be sent when
the log was read (`TwiceInv`). `AuthorOrder` is part of it: a message pushed is
above all that its author logged before only since the author's handler does not
start the next one. The recursive function `Replay` is unfolded by induction over
the numbers, from the well-foundedness of `<` on them.

**Presence.** `ListsInv` follows a list that is not the registry's any more through
the ticker's hands (`HeldInv`), the last one sent (`TickInv`) and the client's
(`SeenInv`): at each place either it is right, or the flag is set or about to be,
or the ticker comes by that channel again (`Coming`), or a request overtook it.

**Session.** `IInv`: the links and who holds `sem` (`LinkInv`), what the client's
goroutines read and have asked for (`UseInv`), that every link on which the client
has said who it is is still known to the client, or closed by it, or left by the
server (`GhostInv`), and that the cached list names the client only if the file
does (`PolicyInv`). `GhostInv` is what `NoGhost` lacks: it covers the time between
the identification and the registration.

**Transfer.** `IInv`: a header on the wire is followed by as many bytes of its song
(`WireInv`), what the copy has and what it is going to take are that song's
(`CopyInv`), and the WaitGroup equals what is under way, wherever it is: in the
requests, at the server, on the wire or at the client (`CountInv`).

**Terminal.** `ChatInv`: the messages in the view, the batch, the two channels and
the goroutine's hands are one run of numbers (`Runs`) that ends at the newest and,
since the last reset, begins early enough (`Enough`). `ViewInv` is what a flush
needs of the cache: one that is not marked invalid holds the log's layout for some
size (`LaidOut`), since only what appends or clears marks it, and both do. A layout
is a flattened sequence; `FlattenSeq` is unfolded by induction over the numbers
(`FlattenIsChain`), which gives where the lines of each message stand in it, and so
that the line which a flush scrolls to is the first of the message looked for.

**Console.** `KeyInv` says which bytes can be on their way in which state of the
escape automaton (`TtyInv`), when the vi mode and `normal` differ (`ModeInv`), that
the history is never longer than its maximum (`LinesInv`), and that the unsent line
is not written over while an entry of the history stands in the input (`DraftInv`);
`HistoryIsKept` follows. That the line is as typed is about bytes and characters:
`Places` says where in a sequence of bytes each character of a text begins, and the
lemmas after it what an insertion, a deletion or the second byte of a wide
character does to both. `TextsInv` has every line of the history be some text's
bytes, and `LineInv` the input line, with its cursor, in such a way that what is
still on its way makes of it the line that is expected (`Ahead`). With nothing on
its way that is `LineAsTyped`. The text may hold half of a wide character while the
other half is on its way, which is why a lone byte counts as a character.

**Algorithms.** What a loop of the code comes to is a fold or a recursive function
in the models. `Recursion` and `FoldIsThere` show that there is a chain of its
states, one per turn, each the step of the one before; what is said of the last
follows by induction along the chain, which is over a set of numbers and so within
reach. The loop invariants are what the proofs had to find.

* Chat and handshakes have no loop: `CopiesAreRight` and `NotifiesOfNews` go through
  the cases of `batch`, of which a client of a name gets a part, `HandshakesAgree`
  through those of `newClient`, for every message, set of names, key, list and
  configuration.
* The input line: the two cuts that Flush makes, in front of the cursor and behind
  it, are each a position with a smallest or greatest width that fits. A character
  of two columns must fit at all, hence room for two.
* Lines (`Broken`): the lines made so far fit and have the text up to the last cut,
  once the hyphens that the code put in are taken out again; and the columns that
  the loop counts since that cut are right but for one: a cut counts its space or
  hyphen in place of the character that led to it, which may have two columns. With
  single bytes the rest is the last line; otherwise it may be dropped, and only it.
* Completion: what all the names meant begin with grows letter by letter, for as
  long as they agree; it is a prefix of each when they stop.
* The stream: a writer's output is a sequence of frames, each with its data and the
  code of all data so far, and its buffer the data after them (`Flushes`); a reader
  of any part of it is between two frames, or inside one with as many bytes of data
  and code taken as its state says (`Between`, `Within`), and has handed out the
  data up to there. A read keeps this whatever size is asked for and whatever the
  connection hands out, and it takes a byte or ends, so reads enough come to the
  end. JSON is the same with one long read in front.
* The game: each command asks, answers, resets or changes nothing (`Steps`); the
  questions kept are sent and not yet given out (`Fresh`), so none is given out
  twice (`Once`); and what a player has answered and has open is what was given to
  him since the last reset, with a score of at most its worth (`Settled`).

Assumptions. They are named in the modules and TLC evaluates them in the runs.
Capacities, bounds and sizes are naturals, and positive where the code makes them so
(`MaxMessages`, the capacities, the number of presence's channels). Placeholders
(`None`, `NoSong`, `Free`, `Nobody`) name nothing real. Beyond that:
`DeliveryAssumption` has a finite set of registrations of known connections, and
entries of one channel that stand together in a batch: a history answer is one
reset and one chat channel's messages, and all other batches have one channel
(`server/channel/history/history.go:146-168`, `server/server.go:310`).
`RecordsAssumption` numbers the messages of a store file found at the start.
`TransferAssumption` has room for one message on the wire, which is what a flush
hands to the system. `ViewAssumption` has no negative height of a log.
`ConsoleAssumption` names the kinds of keys that the model knows and a history of
two lines at least (the code's has 100). `PresenceAssumption` lists users of at least one channel, as
`cmd/server/server.go:316` does. The inputs of Algorithms are those that the
program can have: a character has one to four bytes and one or two columns, no more
than bytes (`InputsAssumption`, `WrapsAssumption`), a message that is broken into
lines has no hyphen, so that the ones put in can be told (a message with hyphens is
broken in the same way, but its text cannot be read back), the terminal has room
for two columns of input, frames and codes have a byte at least, no name or
fingerprint is the placeholder `Nobody` (`ShakesAssumption`), each question that the
trivia service sends is another one, whatever it asks, as each is another value in
the program's memory (`GamesAssumption`). The bot fetches when it has fewer than
`Few` questions, which is one at least.

Only model-checked:

* liveness (`AddsAndSaves`, `Settles`, `SeesItself`, `RunGoesOn`, `GivesUp`,
  `ServeHears`, `DownloadEnds`, `Follows`, `NothingHangs`): fairness and ENABLED are
  out of the prover's reach.

## 6. Not modelled

* Typing, ping, status, update and upload channels: they keep no state and answer
  with one broadcast.
* The music client, the remote player and the views of the music channel: glue
  around libym, whose player, queue and collection are external.
* Ciphers (symbols in Handshake, left out of Framing), the encoders of messages
  field by field, read limits and the HTTP upgrade.
* Drawing: colours, images, status lines; the parsing of the command line and of
  the policy file's lines; the web page and the browser client; bandwidth counters;
  generated data.
* The other bots: one call of a web service each.
* Time: tickers and timeouts are steps that may happen when the code lets them;
  the correction of a music node's position by its latency only seeks in the player.

`PROJECT.json` gives the reason per component.
