------------------------------ MODULE Terminal ------------------------------
(***************************************************************************)
(* The terminal handler (client/handler/terminal/terminal.go) feeding the  *)
(* view: chat messages go through a channel, a goroutine that dresses them *)
(* up, a second channel and a batch to the view, while a history reset     *)
(* clears the view at once; a song list replaces the view in three steps.  *)
(* Messages are numbered as they are received, 1 up; of song list k, the   *)
(* messages are 10 k + 1 up.                                               *)
(***************************************************************************)
EXTENDS TermView

CONSTANTS
  Cap,         \* what a channel holds, 8 in the code
  ListLen,     \* messages of a song list
  MaxReceived, MaxResets, MaxKeys, MaxSizes  \* bounds

ASSUME ListAssumption == ListLen \in Nat

VARIABLES
  received,   \* how many messages, or lists, the client has received
  msgs,       \* channel to the goroutine
  dressed,    \* the message it has, as a sequence
  msgsBatch,  \* channel to the batch
  batch,      \* messages to be appended to the view
  songs,      \* what the songs goroutine still has to do: <<step, list>>
  kept,       \* history variable: received when the view was last cleared
  done        \* how many resets, keys and sizes, for the bounds

feedvars == <<received, msgs, dressed, msgsBatch, batch, songs, kept, done>>
vars == <<remote, size, log, cache, scroll, turned, jump, query, window,
          received, msgs, dressed, msgsBatch, batch, songs, kept, done>>

Init ==
  /\ ViewInit
  /\ received = 0 /\ msgs = <<>> /\ dressed = <<>> /\ msgsBatch = <<>> /\ batch = <<>>
  /\ songs = <<>> /\ kept = 0
  /\ done = [resets |-> 0, keys |-> 0, sizes |-> 0]

-----------------------------------------------------------------------------
(* Chat *)

HandleChatMessage ==
  /\ ~remote /\ received < MaxReceived /\ Len(msgs) < Cap
  /\ received' = received + 1
  /\ msgs' = Append(msgs, received + 1)
  /\ UNCHANGED <<dressed, msgsBatch, batch, songs, kept, done>> /\ UNCHANGED viewvars

HandleHistory ==
  /\ ~remote /\ done.resets < MaxResets
  /\ Clear
  /\ done' = [done EXCEPT !.resets = @ + 1]
  /\ kept' = received
  /\ UNCHANGED <<received, msgs, dressed, msgsBatch, batch, songs>>

Dress ==
  /\ dressed = <<>> /\ msgs # <<>>
  /\ dressed' = <<Head(msgs)>>
  /\ msgs' = Tail(msgs)
  /\ UNCHANGED <<received, msgsBatch, batch, songs, kept, done>> /\ UNCHANGED viewvars

PassOn ==
  /\ dressed # <<>> /\ Len(msgsBatch) < Cap
  /\ msgsBatch' = msgsBatch \o dressed
  /\ dressed' = <<>>
  /\ UNCHANGED <<received, msgs, batch, songs, kept, done>> /\ UNCHANGED viewvars

Collect ==
  /\ msgsBatch # <<>>
  /\ batch' = Append(batch, Head(msgsBatch))
  /\ msgsBatch' = Tail(msgsBatch)
  /\ UNCHANGED <<received, msgs, dressed, songs, kept, done>> /\ UNCHANGED viewvars

\* 25 ms without a message, or 200 ms after the last time.
DoBatch ==
  /\ batch # <<>>
  /\ Broadcast(batch, TRUE)
  /\ batch' = <<>>
  /\ UNCHANGED <<received, msgs, dressed, msgsBatch, songs, kept, done>>

-----------------------------------------------------------------------------
(* Song lists *)

SongList(k) == [i \in 1..ListLen |-> 10 * k + i]

HandleMusicMessage ==
  /\ remote /\ received < MaxReceived /\ songs = <<>>
  /\ received' = received + 1
  /\ songs' = <<"clear", received + 1>>
  /\ UNCHANGED <<msgs, dressed, msgsBatch, batch, kept, done>> /\ UNCHANGED viewvars

SongsStep ==
  /\ songs # <<>>
  /\ \/ songs[1] = "clear" /\ Clear /\ songs' = <<"jump", songs[2]>>
     \/ songs[1] = "jump" /\ JumpToActive /\ songs' = <<"broadcast", songs[2]>>
     \/ songs[1] = "broadcast" /\ songs' = <<>>
        /\ \E change \in BOOLEAN : Broadcast(SongList(songs[2]), change)
  /\ UNCHANGED <<received, msgs, dressed, msgsBatch, batch, kept, done>>

-----------------------------------------------------------------------------
(* The user *)

Key ==
  /\ done.keys < MaxKeys
  /\ \/ \E q \in Queries : Search(q)
     \/ \E n \in {-1, 1} : Scroll(n, 0) \/ Scroll(0, n) \/ Scroll(0, n * TheTop)
     \/ remote /\ JumpToActive
  /\ done' = [done EXCEPT !.keys = @ + 1]
  /\ UNCHANGED <<received, msgs, dressed, msgsBatch, batch, songs, kept>>

ChangeSize ==
  /\ done.sizes < MaxSizes
  /\ \E s \in Sizes \ {size} : Resize(s)
  /\ done' = [done EXCEPT !.sizes = @ + 1]
  /\ UNCHANGED <<received, msgs, dressed, msgsBatch, batch, songs, kept>>

FlushView == Flush /\ UNCHANGED feedvars

Next ==
  \/ HandleChatMessage \/ HandleHistory \/ Dress \/ PassOn \/ Collect \/ DoBatch
  \/ HandleMusicMessage \/ SongsStep
  \/ Key \/ ChangeSize \/ FlushView

Spec == Init /\ [][Next]_vars

-----------------------------------------------------------------------------
Numbers(from, to) == [i \in 1..(to - from + 1) |-> from + i - 1]

\* What is in the view and on its way to it, in this order, are the latest
\* messages without a gap, repetition or exchange: all that came since the
\* history was reset, or as many as are kept; old ones come before them, if
\* they were on their way at the reset (terminal.go, Run).
NothingLost ==
  ~remote =>
    LET all == log \o batch \o msgsBatch \o dressed \o msgs
    IN  /\ all = Numbers(received - Len(all) + 1, received)
        /\ Len(all) >= Min({received - kept, maxMessages})
=============================================================================
