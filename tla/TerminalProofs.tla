--------------------------- MODULE TerminalProofs ---------------------------
(***************************************************************************)
(* NothingLost of module Terminal, for any number of messages, channels of *)
(* any capacity and a view that keeps any number of messages;              *)
(* ShowsWhatIsAsked of module TermView, for any sizes, queries and texts,  *)
(* as the terminal handler feeds the view; and HistoryKeeps and            *)
(* LineAsTyped of module Console, for any keys, in both modes and for a    *)
(* history of any length.                                                  *)
(***************************************************************************)
EXTENDS Terminal, Console, SequenceTheorems, FiniteSetTheorems, FunctionTheorems, WellFoundedInduction, TLAPS

\* What carries messages towards the view, and where a chat has them.
ChatTypes ==
  /\ remote \in BOOLEAN
  /\ received \in Nat /\ kept \in 0..received
  /\ ~remote => /\ log \in Seq(Nat) /\ batch \in Seq(Nat) /\ msgsBatch \in Seq(Nat)
                /\ dressed \in Seq(Nat) /\ msgs \in Seq(Nat)
                /\ songs = <<>>

\* q is a run of numbers and its last one is e.
EndsAt(q, e) == \A i \in 1..Len(q) : q[i] = e - Len(q) + i

\* Each place ends right before the first message of the next.
Runs ==
  LET d == received - Len(msgs)
      q == d - Len(dressed)
      b == q - Len(msgsBatch)
  IN  /\ EndsAt(msgs, received) /\ EndsAt(dressed, d) /\ EndsAt(msgsBatch, q)
      /\ EndsAt(batch, b) /\ EndsAt(log, b - Len(batch))

Held == Len(log) + Len(batch) + Len(msgsBatch) + Len(dressed) + Len(msgs)

\* Enough of the latest: all since the last reset, or as many as are kept.
Enough == Held >= received - kept \/ Held >= maxMessages

ChatInv == ChatTypes /\ (~remote => Runs /\ Enough)

-----------------------------------------------------------------------------
(* Sequences that are runs of numbers.                                     *)

LEMMA MaxOfTwo ==
  ASSUME NEW a \in Int, NEW b \in Int
  PROVE  Max({a, b}) = IF a >= b THEN a ELSE b
<1>1. \E m \in {a, b} : \A y \in {a, b} : m >= y
  OBVIOUS
<1> QED BY <1>1 DEF Max

LEMMA MinOfTwo ==
  ASSUME NEW a \in Int, NEW b \in Int
  PROVE  Min({a, b}) = IF a <= b THEN a ELSE b
<1>1. \E m \in {a, b} : \A y \in {a, b} : m <= y
  OBVIOUS
<1> QED BY <1>1 DEF Min

\* Two runs, one after the other, are a run.
LEMMA JoinRuns ==
  ASSUME NEW p \in Seq(Nat), NEW q \in Seq(Nat), NEW e \in Int,
         EndsAt(p, e - Len(q)), EndsAt(q, e)
  PROVE  p \o q \in Seq(Nat) /\ Len(p \o q) = Len(p) + Len(q) /\ EndsAt(p \o q, e)
<1>1. /\ Len(p) \in Nat /\ Len(q) \in Nat /\ p \o q \in Seq(Nat) /\ Len(p \o q) = Len(p) + Len(q)
      /\ \A i \in 1..(Len(p) + Len(q)) : (p \o q)[i] = IF i <= Len(p) THEN p[i] ELSE q[i - Len(p)]
  BY ConcatProperties, LenProperties
<1>2. ASSUME NEW i \in 1..Len(p)  PROVE (p \o q)[i] = e - Len(p \o q) + i
  BY <1>1 DEF EndsAt
<1>3. ASSUME NEW i \in (Len(p) + 1)..Len(p \o q)  PROVE (p \o q)[i] = e - Len(p \o q) + i
  <2>1. i - Len(p) \in 1..Len(q) /\ (p \o q)[i] = q[i - Len(p)]
    BY <1>1
  <2> QED BY <1>1, <2>1 DEF EndsAt
<1> QED BY <1>1, <1>2, <1>3 DEF EndsAt

\* The next number makes a run longer.
LEMMA LongerRun ==
  ASSUME NEW q \in Seq(Nat), NEW e \in Int, e + 1 \in Nat, EndsAt(q, e)
  PROVE  Append(q, e + 1) \in Seq(Nat) /\ Len(Append(q, e + 1)) = Len(q) + 1 /\ EndsAt(Append(q, e + 1), e + 1)
<1>1. /\ Append(q, e + 1) \in Seq(Nat) /\ Len(Append(q, e + 1)) = Len(q) + 1 /\ Len(q) \in Nat
      /\ \A i \in 1..Len(q) : Append(q, e + 1)[i] = q[i]
      /\ Append(q, e + 1)[Len(q) + 1] = e + 1
  BY AppendProperties, LenProperties
<1> QED BY <1>1 DEF EndsAt

\* The first number of a run, and the run without it.
LEMMA ShorterRun ==
  ASSUME NEW q \in Seq(Nat), q # <<>>, NEW e \in Int, EndsAt(q, e)
  PROVE  /\ Tail(q) \in Seq(Nat) /\ Len(Tail(q)) = Len(q) - 1 /\ Len(q) \in Nat /\ EndsAt(Tail(q), e)
         /\ Head(q) \in Nat /\ Head(q) = e - Len(q) + 1
<1>1. /\ Tail(q) \in Seq(Nat) /\ Len(Tail(q)) = Len(q) - 1 /\ Len(q) \in Nat /\ Len(q) >= 1
      /\ Head(q) \in Nat /\ Head(q) = q[1]
      /\ \A i \in 1..Len(Tail(q)) : Tail(q)[i] = q[i + 1]
  BY HeadTailProperties, LenProperties, EmptySeq
<1>2. \A i \in 1..Len(Tail(q)) : i + 1 \in 1..Len(q)
  BY <1>1
<1> QED BY <1>1, <1>2 DEF EndsAt

\* The newest messages of a run are a run: all of it, or as many as are kept.
LEMMA TrimmedRun ==
  ASSUME NEW l \in Seq(Nat), NEW e \in Int, EndsAt(l, e), ~remote
  PROVE  /\ Trimmed(l) \in Seq(Nat) /\ EndsAt(Trimmed(l), e)
         /\ Len(Trimmed(l)) = IF Len(l) <= maxMessages THEN Len(l) ELSE maxMessages
<1> DEFINE m == Max({1, Len(l) - maxMessages + 1})
<1>1. Len(l) \in Nat /\ maxMessages \in Nat \ {0}
  BY LenProperties, ViewAssumption
<1>2. m = IF Len(l) <= maxMessages THEN 1 ELSE Len(l) - maxMessages + 1
  BY <1>1, MaxOfTwo
<1>3. Trimmed(l) = SubSeq(l, m, Len(l))
  BY DEF Trimmed
<1> HIDE DEF m
<1>4. m \in 1..(Len(l) + 1) /\ m \in Nat
  BY <1>1, <1>2
<1>5. /\ Trimmed(l) \in Seq(Nat) /\ Len(Trimmed(l)) = Len(l) - m + 1
      /\ \A i \in 1..(Len(l) - m + 1) : Trimmed(l)[i] = l[m + i - 1]
  <2>1. /\ SubSeq(l, m, Len(l)) \in Seq(Nat) /\ Len(SubSeq(l, m, Len(l))) = Len(l) - m + 1
        /\ \A i \in 1..(Len(l) - m + 1) : SubSeq(l, m, Len(l))[i] = l[m + i - 1]
    BY <1>1, <1>4, SubSeqProperties
  <2> QED BY <1>3, <2>1
<1>6. \A i \in 1..(Len(l) - m + 1) : m + i - 1 \in 1..Len(l)
  BY <1>1, <1>4
<1>7. EndsAt(Trimmed(l), e)
  BY <1>1, <1>4, <1>5, <1>6 DEF EndsAt
<1> QED BY <1>1, <1>2, <1>5, <1>7

-----------------------------------------------------------------------------
(* The steps.                                                              *)

\* What no step of the view, of the user or of a remote touches in a chat.
Stages == <<received, kept, log, batch, msgsBatch, dressed, msgs, songs>>

LEMMA OtherSteps ==
  ASSUME UNCHANGED vars \/ Key \/ ChangeSize \/ FlushView
  PROVE  UNCHANGED <<remote, Stages>>
<1>1. CASE UNCHANGED vars
  BY <1>1 DEF vars, Stages
<1>2. CASE Key
  BY <1>2 DEF Key, Search, Scroll, JumpToActive, Stages
<1>3. CASE ChangeSize \/ FlushView
  BY <1>3 DEF ChangeSize, Resize, FlushView, Flush, feedvars, Stages
<1> QED BY <1>1, <1>2, <1>3

\* A remote receives lists, and has no messages on their way.
LEMMA RemoteSteps ==
  ASSUME ChatInv, remote, [Next]_vars  PROVE ChatInv'
<1>1. received \in Nat /\ kept \in 0..received
  BY DEF ChatInv, ChatTypes
<1>2. remote' = remote /\ received' \in {received, received + 1} /\ kept' = kept
  <2>1. CASE UNCHANGED vars \/ Key \/ ChangeSize \/ FlushView
    BY <2>1, OtherSteps DEF Stages
  <2>2. CASE HandleChatMessage \/ HandleHistory
    BY <2>2 DEF HandleChatMessage, HandleHistory
  <2>3. CASE Dress \/ PassOn \/ Collect \/ DoBatch \/ HandleMusicMessage
    BY <2>3 DEF Dress, PassOn, Collect, DoBatch, Broadcast, HandleMusicMessage, viewvars
  <2>4. CASE SongsStep
    BY <2>4 DEF SongsStep, Clear, JumpToActive, Broadcast
  <2> QED BY <2>1, <2>2, <2>3, <2>4 DEF Next
<1> QED BY <1>1, <1>2 DEF ChatInv, ChatTypes

LEMMA ChatSteps ==
  ASSUME ChatInv, ~remote, [Next]_vars  PROVE ChatInv'
<1>1. /\ remote \in BOOLEAN /\ received \in Nat /\ kept \in 0..received
      /\ log \in Seq(Nat) /\ batch \in Seq(Nat) /\ msgsBatch \in Seq(Nat)
      /\ dressed \in Seq(Nat) /\ msgs \in Seq(Nat) /\ songs = <<>>
  BY DEF ChatInv, ChatTypes
<1>2. /\ Len(log) \in Nat /\ Len(batch) \in Nat /\ Len(msgsBatch) \in Nat /\ Len(dressed) \in Nat /\ Len(msgs) \in Nat
      /\ maxMessages \in Nat
  BY <1>1, LenProperties, ViewAssumption
<1>3. Runs /\ Enough
  BY DEF ChatInv
<1>4. CASE UNCHANGED vars \/ Key \/ ChangeSize \/ FlushView
  <2>1. UNCHANGED <<remote, Stages>>
    BY <1>4, OtherSteps
  <2> QED BY <2>1, <1>1, <1>3 DEF Stages, ChatInv, ChatTypes, Runs, Enough, Held
<1>5. CASE HandleChatMessage
  <2>1. UNCHANGED <<remote, kept, log, batch, msgsBatch, dressed, songs>>
    BY <1>5 DEF HandleChatMessage, viewvars
  <2>2. received' = received + 1 /\ msgs' \in Seq(Nat) /\ Len(msgs') = Len(msgs) + 1 /\ EndsAt(msgs', received')
    BY <1>1, <1>3, <1>5, LongerRun DEF HandleChatMessage, Runs
  <2>3. ChatTypes'
    BY <1>1, <2>1, <2>2 DEF ChatTypes
  <2>4. received' - Len(msgs') = received - Len(msgs)
    BY <1>1, <1>2, <2>2
  <2>5. Runs'
    BY <1>3, <2>1, <2>2, <2>4 DEF Runs, EndsAt
  <2>6. Enough'
    BY <1>1, <1>2, <1>3, <2>1, <2>2 DEF Enough, Held
  <2> QED BY <2>3, <2>5, <2>6 DEF ChatInv
<1>6. CASE HandleHistory
  <2>1. /\ UNCHANGED <<remote, received, batch, msgsBatch, dressed, msgs, songs>>
        /\ log' = <<>> /\ kept' = received
    BY <1>6 DEF HandleHistory, Clear
  <2>2. Len(log') = 0 /\ log' \in Seq(Nat)
    BY <2>1
  <2>3. ChatTypes'
    BY <1>1, <2>1, <2>2 DEF ChatTypes
  <2>4. Runs'
    BY <1>3, <2>1, <2>2 DEF Runs, EndsAt
  <2>5. Enough'
    BY <1>1, <1>2, <2>1, <2>2 DEF Enough, Held
  <2> QED BY <2>3, <2>4, <2>5 DEF ChatInv
<1>7. CASE Dress
  <2>1. UNCHANGED <<remote, received, kept, log, batch, msgsBatch, songs>>
    BY <1>7 DEF Dress, viewvars
  <2>2. dressed = <<>> /\ Len(dressed) = 0 /\ msgs # <<>> /\ msgs' = Tail(msgs) /\ dressed' = <<Head(msgs)>>
    BY <1>7 DEF Dress
  <2>3. /\ msgs' \in Seq(Nat) /\ Len(msgs') = Len(msgs) - 1 /\ EndsAt(msgs', received)
        /\ Head(msgs) \in Nat /\ Head(msgs) = received - Len(msgs) + 1
    BY <1>1, <1>3, <2>2, ShorterRun DEF Runs
  <2>4. /\ dressed' \in Seq(Nat) /\ Len(dressed') = 1 /\ dressed'[1] = Head(msgs)
    BY <2>2, <2>3
  <2>5. EndsAt(dressed', received - Len(msgs'))
    BY <1>1, <1>2, <2>3, <2>4 DEF EndsAt
  <2>6. received - Len(msgs') - Len(dressed') = received - Len(msgs) - Len(dressed)
    BY <1>1, <1>2, <2>2, <2>3, <2>4
  <2>7. ChatTypes'
    BY <1>1, <2>1, <2>3, <2>4 DEF ChatTypes
  <2>8. Runs'
    BY <1>3, <2>1, <2>3, <2>5, <2>6 DEF Runs
  <2>9. Enough'
    BY <1>1, <1>2, <1>3, <2>1, <2>2, <2>3, <2>4 DEF Enough, Held
  <2> QED BY <2>7, <2>8, <2>9 DEF ChatInv
<1>8. CASE PassOn
  <2>1. UNCHANGED <<remote, received, kept, log, batch, msgs, songs>>
    BY <1>8 DEF PassOn, viewvars
  <2>2. msgsBatch' = msgsBatch \o dressed /\ dressed' = <<>> /\ Len(dressed') = 0 /\ dressed' \in Seq(Nat)
    BY <1>8 DEF PassOn
  <2>3. /\ msgsBatch' \in Seq(Nat) /\ Len(msgsBatch') = Len(msgsBatch) + Len(dressed)
        /\ EndsAt(msgsBatch', received - Len(msgs))
    BY <1>1, <1>2, <1>3, <2>2, JoinRuns DEF Runs
  <2>4. /\ received - Len(msgs') - Len(dressed') = received - Len(msgs)
        /\ received - Len(msgs') - Len(dressed') - Len(msgsBatch') = received - Len(msgs) - Len(dressed) - Len(msgsBatch)
    BY <1>1, <1>2, <2>1, <2>2, <2>3
  <2>5. ChatTypes'
    BY <1>1, <2>1, <2>2, <2>3 DEF ChatTypes
  <2>6. EndsAt(dressed', received' - Len(msgs'))
    BY <2>2 DEF EndsAt
  <2>7. Runs'
    BY <1>3, <2>1, <2>3, <2>4, <2>6 DEF Runs
  <2>8. Enough'
    BY <1>1, <1>2, <1>3, <2>1, <2>2, <2>3 DEF Enough, Held
  <2> QED BY <2>5, <2>7, <2>8 DEF ChatInv
<1>9. CASE Collect
  <2> DEFINE top == received - Len(msgs) - Len(dressed)
  <2>1. UNCHANGED <<remote, received, kept, log, dressed, msgs, songs>>
    BY <1>9 DEF Collect, viewvars
  <2>2. msgsBatch # <<>> /\ msgsBatch' = Tail(msgsBatch) /\ batch' = Append(batch, Head(msgsBatch))
    BY <1>9 DEF Collect
  <2>3. /\ msgsBatch' \in Seq(Nat) /\ Len(msgsBatch') = Len(msgsBatch) - 1 /\ EndsAt(msgsBatch', top)
        /\ Head(msgsBatch) \in Nat /\ Head(msgsBatch) = top - Len(msgsBatch) + 1
    BY <1>1, <1>2, <1>3, <2>2, ShorterRun DEF Runs
  <2>4. top - Len(msgsBatch') = top - Len(msgsBatch) + 1 /\ top - Len(msgsBatch) \in Int
    BY <1>1, <1>2, <2>3
  <2>5. batch' \in Seq(Nat) /\ Len(batch') = Len(batch) + 1 /\ EndsAt(batch', top - Len(msgsBatch'))
    <3> DEFINE x == top - Len(msgsBatch)
    <3>1. Head(msgsBatch) = x + 1 /\ x \in Int /\ x + 1 \in Nat /\ top - Len(msgsBatch') = x + 1 /\ EndsAt(batch, x)
      BY <1>3, <2>3, <2>4 DEF Runs
    <3>2. batch' = Append(batch, x + 1)
      BY <2>2, <3>1
    <3> HIDE DEF x
    <3>3. Append(batch, x + 1) \in Seq(Nat) /\ Len(Append(batch, x + 1)) = Len(batch) + 1 /\ EndsAt(Append(batch, x + 1), x + 1)
      BY <1>1, <3>1, LongerRun
    <3> QED BY <3>1, <3>2, <3>3
  <2>6. top - Len(msgsBatch') - Len(batch') = top - Len(msgsBatch) - Len(batch)
    BY <1>1, <1>2, <2>3, <2>5
  <2>7. ChatTypes'
    BY <1>1, <2>1, <2>3, <2>5 DEF ChatTypes
  <2>8. Runs'
    BY <1>3, <2>1, <2>3, <2>5, <2>6 DEF Runs
  <2>9. Enough'
    <3>1. Len(batch') + Len(msgsBatch') = Len(batch) + Len(msgsBatch)
      BY <1>2, <2>3, <2>5
    <3>2. Held' = Held
      BY <1>2, <2>1, <2>3, <2>5, <3>1 DEF Held
    <3> QED BY <1>3, <2>1, <3>2 DEF Enough
  <2> QED BY <2>7, <2>8, <2>9 DEF ChatInv
<1>10. CASE DoBatch
  <2> DEFINE top == received - Len(msgs) - Len(dressed) - Len(msgsBatch)
  <2>1. UNCHANGED <<remote, received, kept, msgsBatch, dressed, msgs, songs>>
    BY <1>10 DEF DoBatch, Broadcast
  <2>2. log' = Trimmed(log \o batch) /\ batch' = <<>> /\ Len(batch') = 0 /\ batch' \in Seq(Nat)
    BY <1>10 DEF DoBatch, Broadcast
  <2>3. log \o batch \in Seq(Nat) /\ Len(log \o batch) = Len(log) + Len(batch) /\ EndsAt(log \o batch, top) /\ top \in Int
    BY <1>1, <1>2, <1>3, JoinRuns DEF Runs
  <2> DEFINE l == log \o batch
  <2> HIDE DEF top, l
  <2>4. /\ log' \in Seq(Nat) /\ EndsAt(log', top)
        /\ Len(log') = IF Len(l) <= maxMessages THEN Len(l) ELSE maxMessages
    BY <2>2, <2>3, TrimmedRun DEF l
  <2>5. Len(l) = Len(log) + Len(batch)
    BY <2>3 DEF l
  <2>6. top = received - Len(msgs) - Len(dressed) - Len(msgsBatch) /\ top - Len(batch') = top
    BY <2>2, <2>3 DEF top
  <2>7. ChatTypes'
    BY <1>1, <2>1, <2>2, <2>4 DEF ChatTypes
  <2>8. EndsAt(batch', top)
    BY <2>2 DEF EndsAt
  <2>9. Runs'
    BY <1>3, <2>1, <2>4, <2>6, <2>8 DEF Runs
  <2>10. Enough'
    BY <1>1, <1>2, <1>3, <2>1, <2>2, <2>4, <2>5 DEF Enough, Held
  <2> QED BY <2>7, <2>9, <2>10 DEF ChatInv
<1>11. ~HandleMusicMessage /\ ~SongsStep
  BY <1>1 DEF HandleMusicMessage, SongsStep
<1> QED BY <1>4, <1>5, <1>6, <1>7, <1>8, <1>9, <1>10, <1>11 DEF Next

LEMMA ChatInvHolds == Spec => []ChatInv
<1>1. Init => ChatInv
  <2> SUFFICES ASSUME Init  PROVE ChatInv
    OBVIOUS
  <2>1. ChatTypes
    BY DEF Init, ViewInit, ChatTypes
  <2>2. Runs
    BY DEF Init, ViewInit, Runs, EndsAt
  <2>3. Enough
    BY DEF Init, ViewInit, Enough, Held
  <2> QED BY <2>1, <2>2, <2>3 DEF ChatInv
<1>2. ChatInv /\ [Next]_vars => ChatInv'
  BY RemoteSteps, ChatSteps DEF ChatInv, ChatTypes
<1> QED BY <1>1, <1>2, PTL DEF Spec

\* A chat's messages are in the view and on their way to it as they came:
\* the latest of them without a gap, a repetition or an exchange, all since
\* the last reset of the history or as many as the view keeps, whenever the
\* goroutines of terminal.go run and whatever the user does meanwhile
\* (HandleChatMessage, HandleHistory and Run of terminal.go, broadcast and
\* Clear of ui/term.go).
THEOREM NothingIsLost == Spec => []NothingLost
<1>1. ChatInv => NothingLost
  <2> SUFFICES ASSUME ChatInv, ~remote  PROVE NothingLost
    BY DEF NothingLost
  <2>1. /\ received \in Nat /\ kept \in 0..received
        /\ log \in Seq(Nat) /\ batch \in Seq(Nat) /\ msgsBatch \in Seq(Nat)
        /\ dressed \in Seq(Nat) /\ msgs \in Seq(Nat)
        /\ maxMessages \in Nat
    BY ViewAssumption DEF ChatInv, ChatTypes
  <2>2. /\ Len(log) \in Nat /\ Len(batch) \in Nat /\ Len(msgsBatch) \in Nat
        /\ Len(dressed) \in Nat /\ Len(msgs) \in Nat
    BY <2>1, LenProperties
  <2> DEFINE d == received - Len(msgs)
             q == d - Len(dressed)
             b == q - Len(msgsBatch)
             a1 == log \o batch
             a2 == a1 \o msgsBatch
             a3 == a2 \o dressed
             all == a3 \o msgs
  <2>3. /\ EndsAt(msgs, received) /\ EndsAt(dressed, d) /\ EndsAt(msgsBatch, q)
        /\ EndsAt(batch, b) /\ EndsAt(log, b - Len(batch))
        /\ {d, q, b} \subseteq Int
    BY <2>1, <2>2 DEF ChatInv, Runs
  <2>4. a1 \in Seq(Nat) /\ Len(a1) = Len(log) + Len(batch) /\ EndsAt(a1, b)
    BY <2>1, <2>3, JoinRuns
  <2> HIDE DEF a1
  <2>5. a2 \in Seq(Nat) /\ Len(a2) = Len(a1) + Len(msgsBatch) /\ EndsAt(a2, q)
    BY <2>1, <2>3, <2>4, JoinRuns
  <2> HIDE DEF a2
  <2>6. a3 \in Seq(Nat) /\ Len(a3) = Len(a2) + Len(dressed) /\ EndsAt(a3, d)
    BY <2>1, <2>3, <2>5, JoinRuns
  <2> HIDE DEF a3
  <2>7. all \in Seq(Nat) /\ Len(all) = Len(a3) + Len(msgs) /\ EndsAt(all, received)
    <3>1. EndsAt(a3, received - Len(msgs)) /\ received \in Int
      BY <2>1, <2>6
    <3> QED BY <2>1, <2>3, <2>6, <3>1, JoinRuns
  <2> HIDE DEF all
  <2>8. Len(all) = Held
    BY <2>2, <2>4, <2>5, <2>6, <2>7 DEF Held
  <2>9. all = Numbers(received - Len(all) + 1, received)
    <3> DEFINE n == Len(all)
               s == Numbers(received - n + 1, received)
    <3>1. n \in Nat /\ received - (received - n + 1) + 1 = n
      BY <2>1, <2>7, LenProperties
    <3>2. s = [i \in 1..n |-> received - n + 1 + i - 1]
      BY <3>1 DEF Numbers
    <3>3. \A i \in 1..n : all[i] = received - n + 1 + i - 1
      BY <2>1, <2>7, <3>1 DEF EndsAt
    <3>4. all = [i \in 1..n |-> all[i]]
      BY <2>7, LenProperties
    <3> QED BY <3>2, <3>3, <3>4
  <2>10. Len(all) >= Min({received - kept, maxMessages})
    <3>1. Held \in Nat /\ received - kept \in Int /\ Enough
      BY <2>1, <2>2 DEF Held, ChatInv
    <3>2. Min({received - kept, maxMessages}) = IF received - kept <= maxMessages THEN received - kept ELSE maxMessages
      <4>1. maxMessages \in Int
        BY <2>1
      <4> QED BY <3>1, <4>1, MinOfTwo
    <3> QED BY <2>1, <2>8, <3>1, <3>2 DEF Enough
  <2>11. all = log \o batch \o msgsBatch \o dressed \o msgs
    BY DEF all, a3, a2, a1
  <2> QED BY <2>9, <2>10, <2>11 DEF NothingLost
<1> QED BY <1>1, ChatInvHolds, PTL

-----------------------------------------------------------------------------
(* What the lines are: FlattenSeq by induction over the numbers.           *)

LEMMA LeastOf ==
  ASSUME NEW S \in SUBSET Nat, S # {}
  PROVE  \E n \in S : \A m \in S : n <= m
<1> DEFINE R == {x \in Nat \X Nat : x[1] < x[2]}
<1>1. IsWellFoundedOn(R, Nat)
  BY NatLessThanWellFounded DEF OpToRel
<1>2. PICK n \in S : \A m \in S : ~ (<<m, n>> \in R)
  <2> HIDE DEF R
  <2> QED BY <1>1, WFMin
<1>3. ASSUME NEW m \in S, ~(n <= m)  PROVE FALSE
  <2>1. <<m, n>> \in Nat \X Nat /\ m < n
    BY <1>3
  <2> QED BY <1>2, <2>1
<1> QED BY <1>3

LEMMA Induction ==
  ASSUME NEW S, 0 \in S, \A n \in Nat : n \in S => n + 1 \in S
  PROVE  \A n \in Nat : n \in S
<1> SUFFICES ASSUME Nat \ S # {} PROVE FALSE
  OBVIOUS
<1>1. PICK n \in Nat \ S : \A m \in Nat \ S : n <= m
  BY LeastOf
<1>2. n # 0 /\ n - 1 \in Nat
  BY <1>1
<1> QED BY <1>1, <1>2

\* FlattenSeq(q) is the last of a chain that puts one piece after the other.
Chain(f, q) == f[0] = <<>> /\ \A k \in 1..Len(q) : f[k] = f[k - 1] \o q[k]

LEMMA FlattenIsChain ==
  ASSUME NEW S, NEW q \in Seq(Seq(S))
  PROVE  \E f : /\ Chain(f, q) /\ FlattenSeq(q) = f[Len(q)]
                /\ \A k \in 0..Len(q) : f[k] \in Seq(S)
<1>1. Len(q) \in Nat /\ \A k \in 1..Len(q) : q[k] \in Seq(S)
  BY LenProperties
<1> DEFINE n == Len(q)
           step(g, i) == IF i = 1 THEN q[i] ELSE g[i - 1] \o q[i]
           IsPart(g, k) == g = [i \in 1..k |-> step(g, i)]
           Parts == {k \in Nat : \E g : IsPart(g, k)}
<1>2. \A k \in Nat : k \in Parts
  <2>1. 0 \in Parts
    <3> DEFINE g == [i \in 1..0 |-> <<>>]
    <3>1. IsPart(g, 0)
      OBVIOUS
    <3> HIDE DEF g
    <3> QED BY <3>1
  <2>2. ASSUME NEW k \in Nat, k \in Parts  PROVE k + 1 \in Parts
    <3>1. PICK g : IsPart(g, k)
      BY <2>2
    <3> DEFINE h == [i \in 1..(k + 1) |-> IF i = k + 1 THEN step(g, i) ELSE g[i]]
    <3>2. \A i \in 1..(k + 1) : h[i] = step(h, i)
      <4>1. \A i \in 1..k : h[i] = g[i]
        OBVIOUS
      <4>2. \A i \in 1..(k + 1) : i = 1 \/ i - 1 \in 1..k
        OBVIOUS
      <4>3. \A i \in 1..(k + 1) : step(h, i) = step(g, i)
        BY <4>1, <4>2
      <4>4. \A i \in 1..k : g[i] = step(g, i)
        BY <3>1
      <4> QED BY <4>3, <4>4
    <3>3. IsPart(h, k + 1)
      BY <3>2
    <3> HIDE DEF h, IsPart
    <3> QED BY <3>3
  <2> HIDE DEF Parts
  <2> QED BY <2>1, <2>2, Induction
<1> DEFINE g == CHOOSE g : g = [i \in 1..n |-> IF i = 1 THEN q[i] ELSE g[i - 1] \o q[i]]
           f == [k \in 0..n |-> IF k = 0 THEN <<>> ELSE g[k]]
<1>3. IsPart(g, n)
  <2>1. \E x : IsPart(x, n)
    <3> HIDE DEF IsPart
    <3> QED BY <1>1, <1>2
  <2> QED BY <2>1
<1>4. FlattenSeq(q) = IF n = 0 THEN q ELSE g[n]
  BY DEF FlattenSeq
<1>5. \A i \in 1..n : g[i] = step(g, i)
  <2> HIDE DEF g
  <2> QED BY <1>3
<1> HIDE DEF g
<1>6. FlattenSeq(q) = f[n]
  <2>1. n = 0 => q = <<>>
    BY EmptySeq
  <2> QED BY <1>1, <1>4, <2>1
<1>7. ASSUME NEW k \in 1..n  PROVE f[k] = f[k - 1] \o q[k]
  <2>1. CASE k = 1
    <3>1. f[k] = q[k] /\ f[k - 1] = <<>>
      BY <1>1, <1>5, <2>1
    <3>2. q[k] \in Seq(S)
      BY <1>1
    <3> HIDE DEF f
    <3> QED BY <3>1, <3>2, ConcatEmptySeq
  <2>2. CASE k # 1
    <3>1. k - 1 \in 1..n /\ k \in 0..n /\ k - 1 \in 0..n /\ k # 0 /\ k - 1 # 0
      BY <1>1, <2>2
    <3>2. f[k] = g[k] /\ f[k - 1] = g[k - 1]
      BY <3>1
    <3>3. g[k] = g[k - 1] \o q[k]
      BY <1>5, <2>2
    <3> QED BY <3>2, <3>3
  <2> QED BY <2>1, <2>2
<1>8. f[0] = <<>>
  BY <1>1
<1> HIDE DEF f
<1>9. \A k \in 0..n : f[k] \in Seq(S)
  <2> DEFINE Good == {k \in Nat : k <= n => f[k] \in Seq(S)}
  <2>1. 0 \in Good
    BY <1>8, EmptySeq
  <2>2. ASSUME NEW k \in Nat, k \in Good  PROVE k + 1 \in Good
    <3> SUFFICES ASSUME k + 1 <= n  PROVE f[k + 1] \in Seq(S)
      OBVIOUS
    <3>1. k + 1 \in 1..n /\ (k + 1) - 1 = k /\ k <= n
      BY <1>1
    <3>2. f[k] \in Seq(S) /\ q[k + 1] \in Seq(S) /\ f[k + 1] = f[k] \o q[k + 1]
      BY <1>1, <1>7, <2>2, <3>1
    <3> QED BY <3>2, ConcatProperties
  <2>3. \A k \in Nat : k \in Good
    <3> HIDE DEF Good
    <3> QED BY <2>1, <2>2, Induction
  <2> QED BY <1>1, <2>3
<1> QED BY <1>6, <1>7, <1>8, <1>9 DEF Chain

\* The r-th of the k-th piece stands behind the pieces before it.
LEMMA FlattenPlace ==
  ASSUME NEW S, NEW q \in Seq(Seq(S)), NEW k \in 1..Len(q), NEW r \in 1..Len(q[k])
  PROVE  LET a == Len(FlattenSeq([j \in 1..(k - 1) |-> q[j]]))
         IN  /\ a \in Nat /\ a + r <= Len(FlattenSeq(q))
             /\ FlattenSeq(q)[a + r] = q[k][r]
<1> DEFINE p == [j \in 1..(k - 1) |-> q[j]]
<1>1. Len(q) \in Nat /\ (\A j \in 1..Len(q) : q[j] \in Seq(S)) /\ k \in Nat /\ k - 1 \in Nat
  BY LenProperties
<1>2. p \in Seq(Seq(S)) /\ Len(p) = k - 1
  <2>1. \A j \in 1..(k - 1) : q[j] \in Seq(S)
    BY <1>1
  <2> QED BY <1>1, <2>1
<1>3. \A j \in 1..(k - 1) : p[j] = q[j]
  OBVIOUS
<1> HIDE DEF p
<1>4. PICK f : /\ Chain(f, q) /\ FlattenSeq(q) = f[Len(q)]
               /\ \A i \in 0..Len(q) : f[i] \in Seq(S)
  BY FlattenIsChain
<1>5. PICK g : /\ Chain(g, p) /\ FlattenSeq(p) = g[k - 1]
  BY <1>2, FlattenIsChain
<1>6. FlattenSeq(p) = f[k - 1]
  <2> DEFINE Same == {i \in Nat : i <= k - 1 => g[i] = f[i]}
  <2>1. 0 \in Same
    BY <1>4, <1>5 DEF Chain
  <2>2. ASSUME NEW i \in Nat, i \in Same  PROVE i + 1 \in Same
    <3> SUFFICES ASSUME i + 1 <= k - 1  PROVE g[i + 1] = f[i + 1]
      OBVIOUS
    <3>1. i + 1 \in 1..(k - 1) /\ i + 1 \in 1..Len(q) /\ (i + 1) - 1 = i /\ i <= k - 1
      BY <1>1
    <3>2. g[i + 1] = g[i] \o p[i + 1] /\ f[i + 1] = f[i] \o q[i + 1]
      BY <1>2, <1>4, <1>5, <3>1 DEF Chain
    <3> QED BY <1>3, <2>2, <3>1, <3>2
  <2>3. \A i \in Nat : i \in Same
    <3> HIDE DEF Same
    <3> QED BY <2>1, <2>2, Induction
  <2> QED BY <1>1, <1>5, <2>3
<1> DEFINE a == Len(f[k - 1])
<1>7. /\ f[k - 1] \in Seq(S) /\ q[k] \in Seq(S) /\ f[k] = f[k - 1] \o q[k]
      /\ a \in Nat /\ Len(q[k]) \in Nat
  <2>1. k - 1 \in 0..Len(q)
    BY <1>1
  <2> QED BY <1>1, <1>4, <2>1, LenProperties DEF Chain
<1>8. Len(f[k]) = a + Len(q[k]) /\ f[k][a + r] = q[k][r]
  <2>1. a \in Nat /\ Len(q[k]) \in Nat /\ r \in 1..Len(q[k])
    BY <1>7
  <2> HIDE DEF a
  <2>3. a + r \in 1..(a + Len(q[k])) /\ ~(a + r <= a) /\ a + r - a = r
    BY <2>1
  <2>2. /\ Len(f[k - 1] \o q[k]) = Len(f[k - 1]) + Len(q[k])
        /\ \A i \in 1..(Len(f[k - 1]) + Len(q[k])) :
             (f[k - 1] \o q[k])[i] = IF i <= Len(f[k - 1]) THEN f[k - 1][i] ELSE q[k][i - Len(f[k - 1])]
    BY <1>7, ConcatProperties
  <2> QED BY <1>7, <2>3, <2>2 DEF a
<1> HIDE DEF a
<1>9. a + r \in 1..Len(f[k]) /\ Len(f[k]) \in Nat
  BY <1>7, <1>8
<1> DEFINE Further == {i \in Nat : k <= i /\ i <= Len(q) => a + r <= Len(f[i]) /\ f[i][a + r] = q[k][r]}
<1>10. \A i \in Nat : i \in Further
  <2>1. 0 \in Further
    BY <1>1
  <2>2. ASSUME NEW i \in Nat, i \in Further  PROVE i + 1 \in Further
    <3> SUFFICES ASSUME k <= i + 1, i + 1 <= Len(q)
                 PROVE  a + r <= Len(f[i + 1]) /\ f[i + 1][a + r] = q[k][r]
      OBVIOUS
    <3>1. CASE k = i + 1
      BY <1>8, <1>9, <3>1
    <3>2. CASE k <= i
      <4>1. i \in 0..Len(q) /\ i + 1 \in 1..Len(q) /\ (i + 1) - 1 = i /\ i <= Len(q)
        BY <1>1
      <4>2. /\ f[i] \in Seq(S) /\ q[i + 1] \in Seq(S) /\ f[i + 1] = f[i] \o q[i + 1]
            /\ a + r <= Len(f[i]) /\ f[i][a + r] = q[k][r]
        BY <1>1, <1>4, <2>2, <3>2, <4>1 DEF Chain
      <4> DEFINE u == f[i]
                 v == q[i + 1]
      <4>3. u \in Seq(S) /\ v \in Seq(S) /\ f[i + 1] = u \o v /\ a + r <= Len(u) /\ u[a + r] = q[k][r]
        BY <4>2
      <4> HIDE DEF u, v
      <4>4. /\ Len(u \o v) = Len(u) + Len(v)
            /\ \A x \in 1..(Len(u) + Len(v)) : x <= Len(u) => (u \o v)[x] = u[x]
        BY <4>3, ConcatProperties
      <4>5. Len(u) \in Nat /\ Len(v) \in Nat
        BY <4>3, LenProperties
      <4>6. a \in Nat /\ r \in Nat /\ a + r >= 1
        BY <1>7, <1>9
      <4>7. a + r \in 1..(Len(u) + Len(v)) /\ a + r <= Len(u) + Len(v)
        BY <4>3, <4>5, <4>6
      <4> QED BY <4>3, <4>4, <4>7
    <3> QED BY <1>1, <3>1, <3>2
  <2> HIDE DEF Further
  <2> QED BY <2>1, <2>2, Induction
<1>11. a + r <= Len(f[Len(q)]) /\ f[Len(q)][a + r] = q[k][r]
  BY <1>1, <1>10
<1> QED BY <1>4, <1>6, <1>7, <1>11 DEF p, a

-----------------------------------------------------------------------------
(* The window: layouts, and where a message's first line is in one.        *)

AllLines == {Line(m, i, w) : m \in Nat, i \in {1, 2}, w \in {s.w : s \in Sizes}}

LEMMA MessageLines ==
  ASSUME NEW m \in Nat, NEW s \in Sizes
  PROVE  /\ LinesOf(m, s.w) \in Seq(AllLines) /\ Len(LinesOf(m, s.w)) \in {1, 2}
         /\ LinesOf(m, s.w)[1] = Line(m, 1, s.w)
<1> DEFINE n == Rows(m, s.w)
           q == [i \in 1..n |-> Line(m, i, s.w)]
<1>1. n \in {1, 2}
  BY DEF Rows
<1>2. LinesOf(m, s.w) = q
  BY DEF LinesOf
<1>3. \A i \in {1, 2} : Line(m, i, s.w) \in AllLines
  BY DEF AllLines
<1> HIDE DEF n
<1>4. \A i \in 1..n : i \in {1, 2}
  BY <1>1
<1>5. 1 \in 1..n /\ n \in Nat
  BY <1>1
<1>6. q \in [1..n -> AllLines]
  BY <1>3, <1>4, Zenon
<1>7. q \in Seq(AllLines) /\ Len(q) = n
  <2>1. q[1] = Line(m, 1, s.w)
    BY <1>5
  <2> HIDE DEF q
  <2> QED BY <1>5, <1>6
<1>8. q[1] = Line(m, 1, s.w)
  BY <1>5
<1> QED BY <1>1, <1>2, <1>7, <1>8

\* The first line of the i-th message is where FirstLine says.
LEMMA LayoutIs ==
  ASSUME NEW l \in Seq(Nat), NEW s \in Sizes
  PROVE  /\ Layout(l, s) \in Seq(AllLines)
         /\ \A i \in 1..Len(l) :
              /\ FirstLine(l, s, i) \in 1..Len(Layout(l, s))
              /\ Layout(l, s)[FirstLine(l, s, i)] = Line(l[i], 1, s.w)
<1> DEFINE q == [i \in DOMAIN l |-> LinesOf(l[i], s.w)]
           n == Max({0, s.h - Len(l)})
           blank == [i \in 1..n |-> Blank(s.w)]
           all == FlattenSeq(q)
<1>1. Len(l) \in Nat /\ DOMAIN l = 1..Len(l) /\ \A i \in 1..Len(l) : l[i] \in Nat
  BY LenProperties
<1>2. \A i \in 1..Len(l) : /\ LinesOf(l[i], s.w) \in Seq(AllLines) /\ Len(LinesOf(l[i], s.w)) \in {1, 2}
                           /\ LinesOf(l[i], s.w)[1] = Line(l[i], 1, s.w)
  BY <1>1, MessageLines
<1>3. q \in Seq(Seq(AllLines)) /\ Len(q) = Len(l) /\ \A i \in 1..Len(l) : q[i] = LinesOf(l[i], s.w)
  BY <1>1, <1>2
<1>4. n \in Nat
  <2>1. s.h \in Nat /\ s.h - Len(l) \in Int
    BY <1>1, ViewAssumption
  <2> QED BY <2>1, MaxOfTwo
<1>5. blank \in Seq(AllLines)
  <2>1. Blank(s.w) \in AllLines
    BY DEF Blank, AllLines
  <2> HIDE DEF n
  <2> QED BY <1>4, <2>1
<1>6. all \in Seq(AllLines)
  <2> HIDE DEF q
  <2>1. PICK f : FlattenSeq(q) = f[Len(q)] /\ \A k \in 0..Len(q) : f[k] \in Seq(AllLines)
    BY <1>3, FlattenIsChain
  <2>2. Len(q) \in 0..Len(q)
    BY <1>1, <1>3
  <2> QED BY <2>1, <2>2
<1>7. Layout(l, s) = all \o blank
  BY DEF Layout
<1>8. ASSUME NEW i \in 1..Len(l)
      PROVE  FirstLine(l, s, i) \in 1..Len(all) /\ all[FirstLine(l, s, i)] = Line(l[i], 1, s.w)
  <2> DEFINE p == [j \in 1..(i - 1) |-> q[j]]
             a == Len(FlattenSeq(p))
  <2>1. p = [j \in 1..(i - 1) |-> LinesOf(l[j], s.w)]
    <3>1. \A j \in 1..(i - 1) : j \in 1..Len(l)
      BY <1>1
    <3> HIDE DEF q
    <3> QED BY <1>3, <3>1
  <2>2. FirstLine(l, s, i) = a + 1
    BY <2>1, Zenon DEF FirstLine
  <2>3. i \in 1..Len(q) /\ 1 \in 1..Len(q[i]) /\ q[i][1] = Line(l[i], 1, s.w)
    <3> HIDE DEF q
    <3>1. q[i] = LinesOf(l[i], s.w) /\ i \in 1..Len(q)
      BY <1>3
    <3>2. Len(LinesOf(l[i], s.w)) \in {1, 2} /\ LinesOf(l[i], s.w)[1] = Line(l[i], 1, s.w)
      BY <1>2
    <3>3. Len(q[i]) \in {1, 2} /\ q[i][1] = Line(l[i], 1, s.w)
      BY <3>1, <3>2
    <3> QED BY <3>1, <3>3
  <2>4. a \in Nat /\ a + 1 <= Len(all) /\ all[a + 1] = q[i][1]
    <3> HIDE DEF q
    <3> QED BY <1>3, <2>3, FlattenPlace
  <2>5. Len(all) \in Nat
    BY <1>6, LenProperties
  <2> HIDE DEF q, p, a, all
  <2> QED BY <2>2, <2>3, <2>4, <2>5
<1> HIDE DEF all, blank
<1>9. /\ all \o blank \in Seq(AllLines) /\ Len(all \o blank) = Len(all) + Len(blank)
      /\ Len(all) \in Nat /\ Len(blank) \in Nat
      /\ \A i \in 1..(Len(all) + Len(blank)) : i <= Len(all) => (all \o blank)[i] = all[i]
  BY <1>5, <1>6, ConcatProperties, LenProperties
<1>10. ASSUME NEW i \in 1..Len(l)
       PROVE  /\ FirstLine(l, s, i) \in 1..Len(all \o blank)
              /\ (all \o blank)[FirstLine(l, s, i)] = Line(l[i], 1, s.w)
  <2> DEFINE k == FirstLine(l, s, i)
  <2>1. k \in 1..Len(all) /\ all[k] = Line(l[i], 1, s.w)
    BY <1>8
  <2> HIDE DEF k
  <2>2. k \in 1..(Len(all) + Len(blank)) /\ k <= Len(all)
    BY <1>9, <2>1
  <2> QED BY <1>9, <2>1, <2>2 DEF k
<1> QED BY <1>7, <1>9, <1>10

\* The message that is looked for is one of the log's.
LEMMA TargetIs ==
  ASSUME log \in Seq(Nat)
  PROVE  /\ Target \in {0} \cup 1..Len(log)
         /\ Target # 0 => Looking
<1>1. Len(log) \in Nat /\ DOMAIN log = 1..Len(log)
  BY LenProperties
<1>2. ActiveAt \in {0} \cup 1..Len(log) /\ (ActiveAt # 0 => jump)
  <2> DEFINE A == {i \in DOMAIN log : Active(log[i])}
  <2>1. A # {} => Min(A) \in A
    <3> SUFFICES ASSUME A # {}  PROVE Min(A) \in A
      OBVIOUS
    <3>1. A \in SUBSET Nat
      BY <1>1
    <3> HIDE DEF A
    <3>2. \E m \in A : \A y \in A : m <= y
      BY <3>1, LeastOf
    <3> QED BY <3>2 DEF Min
  <2>2. ActiveAt = IF jump /\ A # {} THEN Min(A) ELSE 0
    BY DEF ActiveAt
  <2>3. A \subseteq 1..Len(log)
    BY <1>1
  <2> HIDE DEF A
  <2> QED BY <2>1, <2>2, <2>3
<1>3. MatchAt \in {0} \cup 1..Len(log) /\ (MatchAt # 0 => query.update)
  <2>1. Matches \subseteq 1..Len(log) /\ (Matches # {} => query.update)
    BY <1>1 DEF Matches
  <2>2. MatchAt \in {0} \cup Matches
    <3> DEFINE P(i) == Cardinality({j \in Matches : j <= i}) = query.count
    <3>1. MatchAt = IF \E i \in Matches : P(i) THEN CHOOSE i \in Matches : P(i) ELSE 0
      BY Zenon DEF MatchAt
    <3> HIDE DEF P
    <3> QED BY <3>1
  <2> QED BY <2>1, <2>2
<1>4. Target \in {ActiveAt, MatchAt}
  BY <1>2, <1>3, MaxOfTwo DEF Target
<1> QED BY <1>2, <1>3, <1>4 DEF Looking

-----------------------------------------------------------------------------
(* The view is of the log as it is, or its cache is out of date.           *)

FeedTypes ==
  /\ received \in Nat
  /\ batch \in Seq(Nat) /\ msgsBatch \in Seq(Nat) /\ dressed \in Seq(Nat) /\ msgs \in Seq(Nat)
  /\ songs # <<>> => songs[2] \in Nat

ViewTypes ==
  /\ log \in Seq(Nat)
  /\ size \in Sizes /\ scroll \in Int
  /\ turned \in [pages : Int, lines : Int]
  /\ cache \in [lines : Seq(AllLines), size : Sizes, invalid : BOOLEAN]

\* Only what is appended or cleared makes the lines those of another log.
LaidOut == ~cache.invalid => \E s \in Sizes : cache.lines = Layout(log, s)

ViewInv == FeedTypes /\ ViewTypes /\ LaidOut

LEMMA FlushIs ==
  ASSUME ViewInv, Flush
  PROVE  LET lines == IF Looking \/ OutDated THEN Layout(log, size) ELSE cache.lines
             up    == IF Target = 0 THEN Max({0, scroll + Half(turned.pages * size.h) + turned.lines})
                      ELSE UpTo(Len(lines), FirstLine(log, size, Target))
             off   == Max({0, Len(lines) - size.h - up})
         IN  /\ lines \in Seq(AllLines) /\ Len(lines) \in Nat /\ up \in Nat /\ off \in 0..Len(lines)
             /\ window' = SubSeq(lines, off + 1, Min({off + size.h, Len(lines)}))
             /\ cache'.lines = lines /\ scroll' \in Int
             /\ cache' \in [lines : Seq(AllLines), size : Sizes, invalid : BOOLEAN]
             /\ ~cache'.invalid => lines = Layout(log, size) \/ ~cache.invalid
             /\ turned' \in [pages : Int, lines : Int]
             /\ UNCHANGED <<size, log>>
<1> DEFINE lines == IF Looking \/ OutDated THEN Layout(log, size) ELSE cache.lines
           moved == Max({0, scroll + Half(turned.pages * size.h) + turned.lines})
           up    == IF Target = 0 THEN moved ELSE UpTo(Len(lines), FirstLine(log, size, Target))
           off   == Max({0, Len(lines) - size.h - up})
<1>1. /\ log \in Seq(Nat) /\ size \in Sizes /\ size.h \in Nat /\ scroll \in Int
      /\ turned.pages \in Int /\ turned.lines \in Int
      /\ cache.lines \in Seq(AllLines) /\ cache.size \in Sizes /\ cache.invalid \in BOOLEAN
  BY ViewAssumption DEF ViewInv, ViewTypes
<1>2. Layout(log, size) \in Seq(AllLines) /\ \A i \in 1..Len(log) : FirstLine(log, size, i) \in 1..Len(Layout(log, size))
  BY <1>1, LayoutIs
<1>3. Target \in {0} \cup 1..Len(log) /\ (Target # 0 => Looking)
  BY <1>1, TargetIs
<1>4. lines \in Seq(AllLines)
  BY <1>1, <1>2
<1>5. Len(lines) \in Nat
  BY <1>4, LenProperties
<1>6. Target # 0 => FirstLine(log, size, Target) \in 1..Len(lines)
  BY <1>2, <1>3
<1>7. /\ cache' = [lines   |-> lines,
                   size    |-> IF Looking THEN cache.size ELSE size,
                   invalid |-> Looking /\ cache.invalid]
      /\ scroll' = IF Len(lines) - size.h - up < 0 THEN Len(lines) - size.h ELSE up
      /\ turned' = [pages |-> 0, lines |-> 0]
      /\ window' = SubSeq(lines, off + 1, Min({off + size.h, Len(lines)}))
      /\ UNCHANGED <<size, log>>
  BY DEF Flush
<1>8. Looking \/ OutDated => lines = Layout(log, size)
  OBVIOUS
<1> HIDE DEF lines
<1>9. moved \in Nat
  <2>1. Half(turned.pages * size.h) \in Int
    <3>1. turned.pages * size.h \in Int
      BY <1>1
    <3> QED BY <3>1 DEF Half
  <2> DEFINE x == scroll + Half(turned.pages * size.h) + turned.lines
  <2>2. x \in Int
    BY <1>1, <2>1
  <2> HIDE DEF x
  <2>3. Max({0, x}) \in Nat
    BY <2>2, MaxOfTwo
  <2> QED BY <2>3 DEF x
<1> HIDE DEF moved
<1>10. up \in Nat
  <2>1. CASE Target = 0
    BY <1>9, <2>1
  <2>2. CASE Target # 0
    <3> DEFINE x == Len(lines) - FirstLine(log, size, Target) - size.h \div 2 + 1
    <3>1. x \in Int
      BY <1>1, <1>5, <1>6, <2>2
    <3>2. up = Max({0, x})
      BY <2>2 DEF UpTo
    <3> HIDE DEF x, up
    <3> QED BY <3>1, <3>2, MaxOfTwo
  <2> QED BY <2>1, <2>2
<1> HIDE DEF up
<1>11. off \in 0..Len(lines)
  <2>1. Len(lines) - size.h - up \in Int
    BY <1>1, <1>5, <1>10
  <2> QED BY <1>1, <1>5, <1>10, <2>1, MaxOfTwo
<1>12. cache'.lines = lines /\ cache' \in [lines : Seq(AllLines), size : Sizes, invalid : BOOLEAN]
  BY <1>1, <1>4, <1>7
<1>13. ~cache'.invalid => lines = Layout(log, size) \/ ~cache.invalid
  <2>1. cache'.invalid = (Looking /\ cache.invalid)
    BY <1>7
  <2>2. cache.invalid => OutDated
    BY DEF OutDated
  <2> QED BY <1>8, <2>1, <2>2, Zenon
<1>14. scroll' \in Int /\ turned' \in [pages : Int, lines : Int]
  BY <1>1, <1>5, <1>7, <1>10
<1> QED BY <1>4, <1>5, <1>7, <1>10, <1>11, <1>12, <1>13, <1>14 DEF lines, up, off, moved

LEMMA FeedKept ==
  ASSUME FeedTypes, [Next]_vars  PROVE FeedTypes'
<1>1. /\ received \in Nat
      /\ batch \in Seq(Nat) /\ msgsBatch \in Seq(Nat) /\ dressed \in Seq(Nat) /\ msgs \in Seq(Nat)
      /\ songs # <<>> => songs[2] \in Nat
  BY DEF FeedTypes
<1>2. CASE UNCHANGED feedvars \/ Key \/ ChangeSize \/ FlushView \/ HandleHistory
  <2>1. UNCHANGED <<received, msgs, dressed, msgsBatch, batch, songs>>
    BY <1>2 DEF feedvars, Key, ChangeSize, FlushView, HandleHistory
  <2> QED BY <1>1, <2>1 DEF FeedTypes
<1>3. CASE HandleChatMessage
  <2>1. /\ received' = received + 1 /\ msgs' = Append(msgs, received + 1)
        /\ UNCHANGED <<dressed, msgsBatch, batch, songs>>
    BY <1>3 DEF HandleChatMessage
  <2>2. received + 1 \in Nat /\ msgs' \in Seq(Nat)
    BY <1>1, <2>1, AppendProperties
  <2> QED BY <1>1, <2>1, <2>2 DEF FeedTypes
<1>4. CASE Dress
  <2>1. /\ msgs # <<>> /\ msgs' = Tail(msgs) /\ dressed' = <<Head(msgs)>>
        /\ UNCHANGED <<received, batch, msgsBatch, songs>>
    BY <1>4 DEF Dress
  <2>2. Tail(msgs) \in Seq(Nat) /\ Head(msgs) \in Nat
    BY <1>1, <2>1, HeadTailProperties
  <2>3. dressed' \in Seq(Nat)
    BY <2>1, <2>2
  <2> QED BY <1>1, <2>1, <2>2, <2>3 DEF FeedTypes
<1>5. CASE PassOn
  <2>1. msgsBatch' = msgsBatch \o dressed /\ dressed' = <<>> /\ UNCHANGED <<received, msgs, batch, songs>>
    BY <1>5 DEF PassOn
  <2>2. msgsBatch' \in Seq(Nat) /\ dressed' \in Seq(Nat)
    BY <1>1, <2>1, ConcatProperties, EmptySeq
  <2> QED BY <1>1, <2>1, <2>2 DEF FeedTypes
<1>6. CASE Collect
  <2>1. /\ msgsBatch # <<>> /\ msgsBatch' = Tail(msgsBatch) /\ batch' = Append(batch, Head(msgsBatch))
        /\ UNCHANGED <<received, msgs, dressed, songs>>
    BY <1>6 DEF Collect
  <2>2. Tail(msgsBatch) \in Seq(Nat) /\ Head(msgsBatch) \in Nat
    BY <1>1, <2>1, HeadTailProperties
  <2>3. batch' \in Seq(Nat)
    BY <1>1, <2>1, <2>2, AppendProperties
  <2> QED BY <1>1, <2>1, <2>2, <2>3 DEF FeedTypes
<1>7. CASE DoBatch
  <2>1. batch' = <<>> /\ UNCHANGED <<received, msgs, dressed, msgsBatch, songs>>
    BY <1>7 DEF DoBatch
  <2>2. batch' \in Seq(Nat)
    BY <2>1
  <2> QED BY <1>1, <2>1, <2>2 DEF FeedTypes
<1>8. CASE HandleMusicMessage
  <2>1. /\ songs' = <<"clear", received + 1>> /\ received' = received + 1
        /\ UNCHANGED <<msgs, dressed, msgsBatch, batch>>
    BY <1>8 DEF HandleMusicMessage
  <2>2. received' \in Nat /\ songs'[2] \in Nat
    BY <1>1, <2>1
  <2> QED BY <1>1, <2>1, <2>2 DEF FeedTypes
<1>9. CASE SongsStep
  <2>1. /\ songs # <<>> /\ songs' \in {<<"jump", songs[2]>>, <<"broadcast", songs[2]>>, <<>>}
        /\ UNCHANGED <<received, msgs, dressed, msgsBatch, batch>>
    BY <1>9 DEF SongsStep
  <2>2. songs' # <<>> => songs'[2] \in Nat
    BY <1>1, <2>1
  <2> QED BY <1>1, <2>1, <2>2 DEF FeedTypes
<1>10. UNCHANGED vars => UNCHANGED feedvars
  BY DEF vars, feedvars
<1> QED BY <1>2, <1>3, <1>4, <1>5, <1>6, <1>7, <1>8, <1>9, <1>10 DEF Next

\* A song list, a batch and what is kept of a log are sequences of messages.
LEMMA Appended ==
  ASSUME NEW l \in Seq(Nat), NEW ms \in Seq(Nat)
  PROVE  Trimmed(l \o ms) \in Seq(Nat)
<1> DEFINE s == l \o ms
           m == Max({1, Len(s) - maxMessages + 1})
<1>1. s \in Seq(Nat)
  BY ConcatProperties
<1>2. Len(s) \in Nat /\ DOMAIN s = 1..Len(s) /\ \A i \in 1..Len(s) : s[i] \in Nat
  <2> HIDE DEF s
  <2> QED BY <1>1, LenProperties
<1> HIDE DEF s
<1>3. m \in Nat /\ m >= 1
  <2> DEFINE x == Len(s) - maxMessages + 1
  <2>1. x \in Int
    BY <1>2, ViewAssumption
  <2> HIDE DEF x
  <2>2. Max({1, x}) = IF 1 >= x THEN 1 ELSE x
    BY <2>1, MaxOfTwo
  <2>3. Max({1, x}) \in Nat /\ Max({1, x}) >= 1
    BY <2>1, <2>2
  <2> QED BY <2>3 DEF x
<1>4. Trimmed(s) \in {s, SubSeq(s, m, Len(s))}
  BY DEF Trimmed
<1> HIDE DEF m
<1>5. \A i \in m..Len(s) : s[i] \in Nat
  BY <1>2, <1>3
<1>6. SubSeq(s, m, Len(s)) \in Seq(Nat)
  BY <1>2, <1>3, <1>5, SubSeqProperties
<1> QED BY <1>1, <1>4, <1>6 DEF s

LEMMA ViewKept ==
  ASSUME ViewInv, [Next]_vars  PROVE ViewTypes' /\ LaidOut'
<1>1. /\ log \in Seq(Nat) /\ size \in Sizes /\ scroll \in Int
      /\ turned \in [pages : Int, lines : Int]
      /\ cache \in [lines : Seq(AllLines), size : Sizes, invalid : BOOLEAN]
      /\ LaidOut
  BY DEF ViewInv, ViewTypes
<1>2. CASE UNCHANGED viewvars \/ JumpToActive \/ \E q \in Queries : Search(q)
  <2>1. UNCHANGED <<log, size, scroll, turned, cache>>
    BY <1>2 DEF viewvars, JumpToActive, Search
  <2> QED BY <1>1, <2>1 DEF ViewTypes, LaidOut
<1>3. CASE Clear
  <2>1. /\ log' = <<>> /\ cache' = [cache EXCEPT !.invalid = TRUE]
        /\ UNCHANGED <<size, scroll, turned>>
    BY <1>3 DEF Clear
  <2>2. cache'.invalid /\ cache' \in [lines : Seq(AllLines), size : Sizes, invalid : BOOLEAN]
    BY <1>1, <2>1
  <2>3. log' \in Seq(Nat)
    BY <2>1, EmptySeq
  <2> QED BY <1>1, <2>1, <2>2, <2>3 DEF ViewTypes, LaidOut
<1>4. ASSUME NEW ms \in Seq(Nat), NEW top, Broadcast(ms, top)  PROVE ViewTypes' /\ LaidOut'
  <2>1. /\ log' = Trimmed(log \o ms) /\ scroll' \in {TheTop, scroll}
        /\ cache' = [cache EXCEPT !.invalid = TRUE]
        /\ UNCHANGED <<size, turned>>
    BY <1>4 DEF Broadcast
  <2>2. log' \in Seq(Nat) /\ scroll' \in Int
    BY <1>1, <2>1, Appended DEF TheTop
  <2>3. cache'.invalid /\ cache' \in [lines : Seq(AllLines), size : Sizes, invalid : BOOLEAN]
    BY <1>1, <2>1
  <2> QED BY <1>1, <2>1, <2>2, <2>3 DEF ViewTypes, LaidOut
<1>5. ASSUME NEW pages \in Int, NEW lines \in Int, Scroll(pages, lines)  PROVE ViewTypes' /\ LaidOut'
  <2>1. /\ turned' = [pages |-> turned.pages + pages, lines |-> turned.lines + lines]
        /\ UNCHANGED <<log, size, scroll, cache>>
    BY <1>5 DEF Scroll
  <2>2. turned' \in [pages : Int, lines : Int]
    BY <1>1, <2>1
  <2> QED BY <1>1, <2>1, <2>2 DEF ViewTypes, LaidOut
<1>6. ASSUME NEW s \in Sizes, Resize(s)  PROVE ViewTypes' /\ LaidOut'
  <2>1. size' = s /\ UNCHANGED <<log, scroll, turned, cache>>
    BY <1>6 DEF Resize
  <2> QED BY <1>1, <2>1 DEF ViewTypes, LaidOut
<1>7. CASE Flush
  <2> DEFINE lines == IF Looking \/ OutDated THEN Layout(log, size) ELSE cache.lines
  <2>1. /\ cache'.lines = lines /\ scroll' \in Int
        /\ cache' \in [lines : Seq(AllLines), size : Sizes, invalid : BOOLEAN]
        /\ ~cache'.invalid => lines = Layout(log, size) \/ ~cache.invalid
        /\ turned' \in [pages : Int, lines : Int]
        /\ UNCHANGED <<size, log>>
    BY <1>7, FlushIs
  <2>2. lines \in {Layout(log, size), cache.lines}
    OBVIOUS
  <2> HIDE DEF lines
  <2>3. ViewTypes'
    BY <1>1, <2>1 DEF ViewTypes
  <2>4. ~cache'.invalid => \E s \in Sizes : lines = Layout(log, s)
    BY <1>1, <2>1, <2>2 DEF LaidOut
  <2>5. LaidOut'
    BY <2>1, <2>4 DEF LaidOut
  <2> QED BY <2>3, <2>5
<1>8. CASE HandleChatMessage \/ Dress \/ PassOn \/ Collect \/ HandleMusicMessage \/ UNCHANGED vars
  <2>1. UNCHANGED viewvars
    BY <1>8 DEF HandleChatMessage, Dress, PassOn, Collect, HandleMusicMessage, vars, viewvars
  <2> QED BY <1>2, <2>1
<1>9. CASE HandleHistory
  BY <1>3, <1>9 DEF HandleHistory
<1>10. CASE DoBatch
  <2>1. batch \in Seq(Nat)
    BY DEF ViewInv, FeedTypes
  <2> QED BY <1>4, <1>10, <2>1 DEF DoBatch
<1>11. CASE SongsStep
  <2>1. songs # <<>> /\ songs[2] \in Nat
    BY <1>11 DEF SongsStep, ViewInv, FeedTypes
  <2>2. SongList(songs[2]) \in Seq(Nat)
    <3> DEFINE k == songs[2]
    <3>1. k \in Nat /\ ListLen \in Nat
      BY <2>1, ListAssumption
    <3> HIDE DEF k
    <3>2. SongList(k) \in Seq(Nat)
      BY <3>1 DEF SongList
    <3> QED BY <3>2 DEF k
  <2> QED BY <1>2, <1>3, <1>4, <1>11, <2>2 DEF SongsStep
<1>12. CASE Key
  <2>1. TheTop \in Int /\ \A n \in {-1, 1} : n \in Int /\ n * TheTop \in Int
    BY DEF TheTop
  <2>2. CASE \E n \in {-1, 1} : Scroll(n, 0) \/ Scroll(0, n) \/ Scroll(0, n * TheTop)
    <3>1. PICK n \in {-1, 1} : Scroll(n, 0) \/ Scroll(0, n) \/ Scroll(0, n * TheTop)
      BY <2>2
    <3>2. n \in Int /\ n * TheTop \in Int /\ 0 \in Int
      BY <2>1
    <3> QED BY <1>5, <3>1, <3>2, Zenon
  <2> QED BY <1>2, <1>12, <2>2 DEF Key
<1>13. CASE ChangeSize
  BY <1>6, <1>13 DEF ChangeSize
<1>14. CASE FlushView
  BY <1>7, <1>14 DEF FlushView
<1> QED BY <1>8, <1>9, <1>10, <1>11, <1>12, <1>13, <1>14 DEF Next

LEMMA ViewInvHolds == Spec => []ViewInv
<1>1. Init => ViewInv
  <2> SUFFICES ASSUME Init  PROVE ViewInv
    OBVIOUS
  <2>1. FeedTypes
    BY DEF Init, FeedTypes
  <2>2. /\ log = <<>> /\ size \in Sizes /\ scroll = 0 /\ turned = [pages |-> 0, lines |-> 0]
        /\ cache = [lines |-> <<>>, size |-> size, invalid |-> TRUE]
    BY DEF Init, ViewInit, NoLines
  <2>3. <<>> \in Seq(AllLines) /\ log \in Seq(Nat)
    BY <2>2, EmptySeq
  <2> HIDE DEF AllLines
  <2>4. ViewTypes /\ LaidOut
    BY <2>2, <2>3 DEF ViewTypes, LaidOut
  <2> QED BY <2>1, <2>4 DEF ViewInv
<1>2. ViewInv /\ [Next]_vars => ViewInv'
  BY FeedKept, ViewKept DEF ViewInv
<1> QED BY <1>1, <1>2, PTL DEF Spec

\* A flush shows what is looked for, an active or a found message, in the
\* window; and the window is onto the log as it is, in the layout for the
\* terminal as it is, or for the size before two that undid each other (Flush,
\* logs and the cache of ui/term.go).
THEOREM AlwaysShowsWhatIsAsked == Spec => ShowsWhatIsAsked
<1>1. ASSUME ViewInv, Flush  PROVE ShowsTarget /\ (OntoLog \/ OtherLines)
  <2> DEFINE lines == IF Looking \/ OutDated THEN Layout(log, size) ELSE cache.lines
             first == FirstLine(log, size, Target)
             up    == IF Target = 0 THEN Max({0, scroll + Half(turned.pages * size.h) + turned.lines})
                      ELSE UpTo(Len(lines), first)
             off   == Max({0, Len(lines) - size.h - up})
  <2>1. /\ lines \in Seq(AllLines) /\ Len(lines) \in Nat /\ up \in Nat /\ off \in 0..Len(lines)
        /\ window' = SubSeq(lines, off + 1, Min({off + size.h, Len(lines)}))
    BY <1>1, FlushIs
  <2>2. log \in Seq(Nat) /\ size \in Sizes /\ size.h \in Nat /\ LaidOut
    BY <1>1, ViewAssumption DEF ViewInv, ViewTypes
  <2>3. Target \in {0} \cup 1..Len(log) /\ (Target # 0 => Looking)
    BY <2>2, TargetIs
  <2>4. Looking \/ OutDated => lines = Layout(log, size)
    OBVIOUS
  <2>5. ~(Looking \/ OutDated) => lines = cache.lines
    OBVIOUS
  <2>6. Target # 0 => up = UpTo(Len(lines), first)
    OBVIOUS
  <2>7. off = Max({0, Len(lines) - size.h - up})
    OBVIOUS
  <2>8. Target # 0 => /\ first \in 1..Len(lines)
                      /\ lines[first] = Line(log[Target], 1, size.w)
    <3> HIDE DEF lines
    <3> QED BY <2>2, <2>3, <2>4, LayoutIs
  <2> HIDE DEF lines, first, up, off
  <2>9. ShowsTarget
    <3> SUFFICES ASSUME Target # 0, size.h >= 2
                 PROVE  \E i \in DOMAIN window' : window'[i].msg = log[Target] /\ window'[i].row = 1
      BY DEF ShowsTarget
    <3> DEFINE n == Len(lines)
               h == size.h
               half == size.h \div 2
               x == n - first - half + 1
               y == n - h - up
               till == Min({off + h, n})
    <3>1. n \in Nat /\ h \in Nat /\ h >= 2 /\ first \in 1..n /\ half \in Nat /\ half >= 1 /\ half <= h
      BY <2>1, <2>2, <2>8
    <3>2. up = Max({0, x})
      BY <2>6 DEF UpTo
    <3> HIDE DEF half
    <3>3. x \in Int /\ up \in Int /\ y \in Int
      BY <2>1, <3>1
    <3>4. up = IF 0 >= x THEN 0 ELSE x
      <4> HIDE DEF x
      <4> QED BY <3>2, <3>3, MaxOfTwo
    <3>5. off = IF 0 >= y THEN 0 ELSE y
      <4>1. off = Max({0, y})
        BY <2>7
      <4> HIDE DEF y
      <4> QED BY <3>3, <4>1, MaxOfTwo
    <3>6. till = IF off + h <= n THEN off + h ELSE n
      <4>1. off + h \in Int /\ n \in Int
        BY <2>1, <3>1
      <4> HIDE DEF n, h
      <4> QED BY <4>1, MinOfTwo
    <3> HIDE DEF n, h, till
    <3>7. off \in Nat /\ off + 1 <= first /\ first <= till /\ till \in Nat /\ till <= n
      BY <3>1, <3>4, <3>5, <3>6
    <3> DEFINE i == first - off
    <3>8. /\ window' \in Seq(AllLines) /\ Len(window') = till - off
          /\ window'[i] = lines[first] /\ i \in 1..(till - off)
      <4>1. window' = SubSeq(lines, off + 1, till)
        BY <2>1 DEF till, h, n
      <4>2. \A j \in (off + 1)..till : lines[j] \in AllLines
        <5>1. \A j \in (off + 1)..till : j \in 1..Len(lines)
          BY <3>7 DEF n
        <5>2. \A j \in 1..Len(lines) : lines[j] \in AllLines
          BY <2>1, LenProperties
        <5> QED BY <5>1, <5>2
      <4>3. /\ SubSeq(lines, off + 1, till) \in Seq(AllLines)
            /\ Len(SubSeq(lines, off + 1, till)) = IF off + 1 <= till THEN till - (off + 1) + 1 ELSE 0
            /\ \A j \in 1..(till - (off + 1) + 1) : SubSeq(lines, off + 1, till)[j] = lines[(off + 1) + j - 1]
        <5>1. off + 1 \in Int /\ till \in Int
          BY <3>7
        <5> QED BY <4>2, <5>1, SubSeqProperties
      <4>4. first \in Int /\ off + 1 <= till /\ till - (off + 1) + 1 = till - off
            /\ i \in 1..(till - (off + 1) + 1) /\ (off + 1) + i - 1 = first
        BY <3>1, <3>7
      <4> HIDE DEF i
      <4> QED BY <4>1, <4>3, <4>4
    <3>9. i \in DOMAIN window'
      BY <3>8, LenProperties
    <3>10. window'[i].msg = log[Target] /\ window'[i].row = 1
      BY <2>8, <3>8 DEF Line
    <3> HIDE DEF i
    <3> QED BY <3>9, <3>10
  <2>10. OntoLog \/ OtherLines
    <3>1. CASE lines = Layout(log, size)
      BY <2>1, <3>1 DEF OntoLog
    <3>2. CASE lines # Layout(log, size)
      <4>1. ~OutDated /\ lines = cache.lines
        BY <2>4, <2>5, <3>2
      <4>2. PICK s \in Sizes : cache.lines = Layout(log, s)
        BY <2>2, <4>1 DEF OutDated, LaidOut
      <4>3. s # size
        BY <3>2, <4>1, <4>2
      <4> QED BY <4>1, <4>2, <4>3 DEF OtherLines
    <3> QED BY <3>1, <3>2
  <2> QED BY <2>9, <2>10
<1>2. ViewInv => FlushShows
  BY <1>1 DEF FlushShows
<1> QED BY <1>2, ViewInvHolds, PTL DEF ShowsWhatIsAsked

-----------------------------------------------------------------------------
(* The keyboard (module Console), which shares nothing with the above.     *)

\* Bytes of an arrow that are still to be read, the last of them, and those of
\* every other key.
Tails   == {"A", "B", "C", "D"}
Singles == {"x", "i", "[", "backspace", "enter", "clear", "esc"}

\* What is on its way from the keyboard, and how far the automaton is: it
\* remembers an arrow until a key comes that is not a bracket.
TtyInv ==
  \/ tty = <<>> /\ escape = 0 /\ last \notin Arrows
  \/ tty = <<>> /\ escape = 1 /\ last = "esc"
  \/ tty = <<>> /\ escape = 3 /\ last \in Arrows
  \/ \E k \in Arrows : tty = Bytes(k) /\ escape \in {0, 1, 3} /\ last \in Arrows
  \/ tty = Bytes("wide") /\ escape \in {0, 1, 3} /\ last \notin Arrows
  \/ tty = <<"[">> /\ escape = 3 /\ last \in Arrows
  \/ tty = <<"[">> /\ escape = 0 /\ last \notin Arrows
  \/ tty = <<"esc">> /\ escape \in {0, 1, 3} /\ last = "esc"
  \/ \E k \in Singles \ {"[", "esc"} : tty = <<k>> /\ escape \in {0, 1, 3} /\ last \notin Arrows
  \/ tty = <<"w2">> /\ escape = 0 /\ last \notin Arrows
  \/ \E a \in Tails : tty = <<"[", a>> /\ escape = 1 /\ last \in Arrows
  \/ \E a \in Tails : tty = <<a>> /\ escape = 2 /\ last \in Arrows

\* The mode is what the keys say once they are read.
ModeInv ==
  /\ insert \in BOOLEAN /\ normal \in BOOLEAN
  /\ tty # <<"i">> => insert = ~normal
  /\ tty = <<"i">> => ~normal

\* inputs is a sequence, of at most MaxInputs lines.
LinesInv ==
  /\ Len(inputs) \in 1..MaxInputs /\ inputs = [i \in 1..Len(inputs) |-> inputs[i]]
  /\ current \in 1..Len(inputs)

\* Nothing that is on its way changes the input line by itself.
Quiet ==
  \/ ~insert \/ tty = <<>> \/ tty = <<"esc">> \/ (tty = <<"[">> /\ escape = 3)
  \/ \E k \in Arrows : tty = Bytes(k)
  \/ \E a \in Tails : tty = <<"[", a>> \/ (tty = <<a>> /\ escape = 2)

\* The unsent line is the last of the history, and is not written over while
\* an entry of the history stands in the input line.
DraftInv ==
  draft # <<>> =>
    /\ Quiet
    /\ current = Len(inputs) => input = draft[1]
    /\ current < Len(inputs) => inputs[Len(inputs)] = draft[1] /\ inputs[current] = input
-----------------------------------------------------------------------------
(* What a byte comes to, before the state of the line matters.             *)

USE DEF Arrows, Wide, Tails, Singles

LEMMA BytesAre ==
  /\ Bytes("wide") = <<"w1", "w2">>
  /\ Bytes("up") = <<"esc", "[", "A">> /\ Bytes("down") = <<"esc", "[", "B">>
  /\ Bytes("right") = <<"esc", "[", "C">> /\ Bytes("left") = <<"esc", "[", "D">>
  /\ \A k \in Singles : Bytes(k) = <<k>>
BY DEF Bytes

LEMMA KeysAre ==
  ASSUME NEW k \in Keys
  PROVE  k \in Arrows \cup {"wide"} \cup Singles
BY ConsoleAssumption DEF Printing

\* Where the automaton goes with each byte, and what becomes of the byte.
LEMMA ByteIs ==
  ASSUME TtyInv, ModeInv, tty # <<>>
  PROVE  LET n == Head(tty) IN
    /\ Outcome(n) \in {"nothing", "print", n}
    /\ Outcome(n) # n => Outcome(n) \in {"nothing", "print"}
    /\ ~insert => Outcome(n) = IF n = "i" THEN "i" ELSE "nothing"
    /\ Quiet => Outcome(n) \in Tails \cup {"nothing", "i"}
    /\ n = "i" /\ insert => Outcome(n) = "print"
    /\ Outcome(n) = "i" <=> n = "i" /\ ~insert
<1> DEFINE n == Head(tty)
<1>1. CASE \E k \in Arrows : tty = Bytes(k) /\ escape \in {0, 1, 3}
  <2>1. n = "esc"
    BY <1>1, BytesAre
  <2> QED BY <2>1 DEF Outcome, Escape, ModeInv
<1>2. CASE tty = Bytes("wide") /\ escape \in {0, 1, 3}
  <2>1. n = "w1" /\ tty # <<>> /\ tty # <<"esc">> /\ tty # <<"[">>
    BY <1>2, BytesAre
  <2>2. ~(\E k \in Arrows : tty = Bytes(k)) /\ ~(\E a \in Tails : tty = <<"[", a>> \/ tty = <<a>>)
    BY <1>2, BytesAre
  <2> QED BY <2>1, <2>2, <1>2 DEF Outcome, Escape, ModeInv, OnlyWhenEmpty, Mapped, Quiet
<1>3. CASE \E k \in Singles : tty = <<k>> /\ escape \in {0, 1, 3} /\ (k = "[" => escape # 1)
  <2> PICK k \in Singles : tty = <<k>> /\ escape \in {0, 1, 3} /\ (k = "[" => escape # 1)
    BY <1>3
  <2>1. n = k
    OBVIOUS
  <2>2. Quiet => ~insert \/ k = "esc" \/ (k = "[" /\ escape = 3)
    BY BytesAre DEF Quiet
  <2> QED BY <2>1, <2>2 DEF Outcome, Escape, ModeInv, OnlyWhenEmpty, Mapped
<1>4. CASE tty = <<"w2">> /\ escape = 0
  <2>1. n = "w2"
    BY <1>4
  <2>2. Quiet => ~insert
    BY <1>4, BytesAre DEF Quiet
  <2> QED BY <2>1, <2>2, <1>4 DEF Outcome, Escape, ModeInv, OnlyWhenEmpty, Mapped
<1>5. CASE \E a \in Tails : tty = <<"[", a>> /\ escape = 1
  <2>1. n = "["
    BY <1>5
  <2> QED BY <2>1, <1>5 DEF Outcome, Escape, ModeInv
<1>6. CASE \E a \in Tails : tty = <<a>> /\ escape = 2
  <2>1. n \in Tails
    BY <1>6
  <2> QED BY <2>1, <1>6 DEF Outcome, Escape, ModeInv, Mapped
<1> QED BY <1>1, <1>2, <1>3, <1>4, <1>5, <1>6 DEF TtyInv

LEMMA TtyKept ==
  ASSUME TtyInv, ModeInv, [ConsoleNext]_consolevars
  PROVE  TtyInv' /\ ModeInv'
<1>1. ASSUME NEW k \in Keys, Press(k)  PROVE TtyInv' /\ ModeInv'
  <2>1. /\ tty = <<>> /\ tty' = Bytes(k) /\ escape' = escape /\ insert' = insert
        /\ normal' = (normal /\ k # "i") /\ (k = "[" => last # "esc")
        /\ last' = IF k \in Arrows \cup {"esc"} THEN k ELSE IF k = "[" /\ last \in Arrows THEN last ELSE "none"
    BY <1>1 DEF Press, LostKey
  <2>2. k \in Arrows \cup {"wide"} \cup Singles
    BY KeysAre
  <2>3. escape \in {0, 1, 3} /\ (k = "[" => escape # 1)
    BY <2>1, BytesAre DEF TtyInv
  <2>4. Bytes(k) # <<>> /\ (Bytes(k) = <<"i">> <=> k = "i")
    BY <2>2, BytesAre
  <2>5. TtyInv'
    <3>1. k = "[" => escape = IF last \in Arrows THEN 3 ELSE 0
      BY <2>1, BytesAre DEF TtyInv
    <3>2. CASE k \in Arrows
      BY <2>1, <2>3, <3>2 DEF TtyInv
    <3>3. CASE k = "wide"
      BY <2>1, <2>3, <3>3 DEF TtyInv
    <3>4. CASE k \in {"[", "esc"}
      BY <2>1, <2>3, <3>1, <3>4, BytesAre DEF TtyInv
    <3>5. CASE k \in Singles \ {"[", "esc"}
      <4>1. tty' = <<k>> /\ last' = "none"
        BY <2>1, <3>5, BytesAre
      <4> QED BY <2>1, <2>3, <3>5, <4>1 DEF TtyInv
    <3> QED BY <2>2, <3>2, <3>3, <3>4, <3>5
  <2>6. ModeInv'
    BY <2>1, <2>4 DEF ModeInv
  <2> QED BY <2>5, <2>6
<1>2. CASE ReadByte
  <2>1. /\ tty # <<>> /\ tty' = Tail(tty) /\ escape' = Escape(Head(tty))
        /\ insert' = (insert \/ Outcome(Head(tty)) = "i")
        /\ normal' = normal /\ last' = last
    BY <1>2 DEF ReadByte, ideal
  <2>2. Outcome(Head(tty)) = "i" <=> Head(tty) = "i" /\ ~insert
    BY ByteIs, <2>1
  <2>3. TtyInv' /\ tty' # <<"i">> /\ (Head(tty) = "i" => tty = <<"i">>)
    <3>1. CASE \E k \in Arrows : tty = Bytes(k) /\ escape \in {0, 1, 3} /\ last \in Arrows
      <4>1. PICK a \in Tails : tty = <<"esc", "[", a>>
        BY <3>1, BytesAre
      <4>2. tty' = <<"[", a>> /\ escape' = 1 /\ Head(tty) = "esc"
        BY <2>1, <4>1 DEF Escape
      <4>3. \E c \in Tails : tty' = <<"[", c>> /\ escape' = 1 /\ last' \in Arrows
        BY <2>1, <3>1, <4>2
      <4> QED BY <4>2, <4>3 DEF TtyInv
    <3>2. CASE tty = Bytes("wide") /\ escape \in {0, 1, 3} /\ last \notin Arrows
      <4>1. tty = <<"w1", "w2">>
        BY <3>2, BytesAre
      <4>2. Head(tty) = "w1" /\ Tail(tty) = <<"w2">>
        BY <4>1
      <4>3. tty' = <<"w2">> /\ escape' = 0
        BY <2>1, <3>2, <4>2 DEF Escape
      <4> QED BY <2>1, <3>2, <4>2, <4>3 DEF TtyInv
    <3>3. CASE tty = <<"[">> /\ escape = 3 /\ last \in Arrows
      <4>1. tty' = <<>> /\ escape' = 3 /\ Head(tty) = "["
        BY <2>1, <3>3 DEF Escape
      <4> QED BY <2>1, <3>3, <4>1 DEF TtyInv
    <3>4. CASE tty = <<"[">> /\ escape = 0 /\ last \notin Arrows
      <4>1. tty' = <<>> /\ escape' = 0 /\ Head(tty) = "["
        BY <2>1, <3>4 DEF Escape
      <4> QED BY <2>1, <3>4, <4>1 DEF TtyInv
    <3>5. CASE tty = <<"esc">> /\ escape \in {0, 1, 3} /\ last = "esc"
      <4>1. tty' = <<>> /\ escape' = 1 /\ Head(tty) = "esc"
        BY <2>1, <3>5 DEF Escape
      <4> QED BY <2>1, <3>5, <4>1 DEF TtyInv
    <3>6. CASE \E k \in Singles \ {"[", "esc"} : tty = <<k>> /\ escape \in {0, 1, 3} /\ last \notin Arrows
      <4>1. tty' = <<>> /\ escape' = 0 /\ (Head(tty) = "i" => tty = <<"i">>)
        BY <2>1, <3>6 DEF Escape
      <4> QED BY <2>1, <3>6, <4>1 DEF TtyInv
    <3>7. CASE tty = <<"w2">> /\ escape = 0 /\ last \notin Arrows
      <4>1. tty' = <<>> /\ escape' = 0 /\ Head(tty) = "w2"
        BY <2>1, <3>7 DEF Escape
      <4> QED BY <2>1, <3>7, <4>1 DEF TtyInv
    <3>8. CASE \E a \in Tails : tty = <<"[", a>> /\ escape = 1 /\ last \in Arrows
      <4> PICK a \in Tails : tty = <<"[", a>> /\ escape = 1 /\ last \in Arrows
        BY <3>8
      <4>1. tty' = <<a>> /\ escape' = 2 /\ Head(tty) = "["
        BY <2>1 DEF Escape
      <4> QED BY <2>1, <4>1 DEF TtyInv
    <3>9. CASE \E a \in Tails : tty = <<a>> /\ escape = 2 /\ last \in Arrows
      <4>1. tty' = <<>> /\ escape' = 3 /\ Head(tty) \in Tails
        BY <2>1, <3>9 DEF Escape
      <4> QED BY <2>1, <3>9, <4>1 DEF TtyInv
    <3> QED BY <2>1, <3>1, <3>2, <3>3, <3>4, <3>5, <3>6, <3>7, <3>8, <3>9 DEF TtyInv
  <2>5. ModeInv'
    BY <2>1, <2>2, <2>3 DEF ModeInv
  <2> QED BY <2>3, <2>5
<1>3. CASE Timeout
  <2>1. /\ tty = <<>> /\ tty' = <<>> /\ escape' = 0 /\ insert' = FALSE /\ normal' = TRUE /\ last' = "none"
    BY <1>3 DEF Timeout, Mapped, ModeInv
  <2> QED BY <2>1 DEF TtyInv, ModeInv
<1>4. CASE UNCHANGED consolevars
  BY <1>4 DEF consolevars, TtyInv, ModeInv
<1> QED BY <1>1, <1>2, <1>3, <1>4 DEF ConsoleNext

-----------------------------------------------------------------------------
(* The lines that are kept.                                                *)

LEMMA LinesAreSeq ==
  ASSUME NEW h, Len(h) \in Nat, h = [i \in 1..Len(h) |-> h[i]]
  PROVE  \E S : <<>> \in S /\ h \in Seq(S)
<1> DEFINE S == {h[i] : i \in 1..Len(h)} \cup {<<>>}
<1>1. [i \in 1..Len(h) |-> h[i]] \in Seq(S)
  OBVIOUS
<1> QED BY <1>1

LEMMA KeptIs ==
  ASSUME LinesInv
  PROVE  /\ Len(Kept) = Len(inputs)
         /\ \A i \in 1..Len(inputs) :
              Kept[i] = IF i = Len(inputs) /\ (current = i \/ inputs[current] # input) THEN input ELSE inputs[i]
         /\ Kept = [i \in 1..Len(inputs) |-> Kept[i]]
<1>1. PICK S : inputs \in Seq(S)
  BY LinesAreSeq DEF LinesInv
<1>2. [inputs EXCEPT ![Len(inputs)] = input] \in Seq(S \cup {input}) /\ DOMAIN inputs = 1..Len(inputs)
  BY <1>1 DEF LinesInv
<1>3. Len([inputs EXCEPT ![Len(inputs)] = input]) = Len(inputs)
  BY <1>1, <1>2 DEF LinesInv
<1> QED BY <1>1, <1>2, <1>3 DEF Kept, LinesInv

\* What a submit leaves of the lines: it drops none but the oldest.
LEMMA SubmitIs ==
  ASSUME LinesInv, Submit
  PROVE  LET full == Kept[Len(inputs)] # <<>> /\ Len(inputs) = MaxInputs
             n    == Len(inputs) + (IF Kept[Len(inputs)] # <<>> THEN 1 ELSE 0) - (IF full THEN 1 ELSE 0)
         IN  /\ LinesInv' /\ Len(inputs') = n /\ current' = n /\ input' = <<>>
             /\ \A i \in 1..n : i + (IF full THEN 1 ELSE 0) <= Len(inputs) =>
                  inputs'[i] = Kept[i + (IF full THEN 1 ELSE 0)]
<1> DEFINE k == Kept
           h == IF k[Len(inputs)] = <<>> THEN k ELSE Append(k, <<>>)
           full == k[Len(inputs)] # <<>> /\ Len(inputs) = MaxInputs
           d == IF full THEN 1 ELSE 0
<1>1. Len(k) = Len(inputs) /\ k = [i \in 1..Len(inputs) |-> k[i]] /\ Len(inputs) \in 1..MaxInputs
  BY KeptIs DEF LinesInv
<1>2. MaxInputs \in Nat \ {0, 1}
  BY ConsoleAssumption
<1> HIDE DEF k
<1>3. PICK S : <<>> \in S /\ k \in Seq(S)
  BY <1>1, LinesAreSeq
<1>4. /\ h \in Seq(S) /\ Len(h) = Len(inputs) + (IF k[Len(inputs)] # <<>> THEN 1 ELSE 0)
      /\ \A i \in 1..Len(inputs) : h[i] = k[i]
  BY <1>1, <1>3
<1>5. Max({1, Len(h) - MaxInputs + 1}) = 1 + d
  <2>1. Len(h) - MaxInputs + 1 \in Int /\ 1 \in Int /\ Len(h) <= MaxInputs + 1 /\ (full <=> Len(h) = MaxInputs + 1)
    BY <1>1, <1>2, <1>4
  <2> HIDE DEF h, full
  <2>2. Max({1, Len(h) - MaxInputs + 1}) = IF 1 >= Len(h) - MaxInputs + 1 THEN 1 ELSE Len(h) - MaxInputs + 1
    BY <2>1, MaxOfTwo
  <2> QED BY <1>1, <1>2, <2>1, <2>2
<1>6. Trim(h) = SubSeq(h, 1 + d, Len(h))
  BY <1>5 DEF Trim
<1>7. /\ Trim(h) \in Seq(S) /\ Len(Trim(h)) = Len(h) - d
      /\ \A i \in 1..(Len(h) - d) : Trim(h)[i] = h[i + d]
  <2>1. d \in {0, 1} /\ Len(h) \in Nat /\ h \in Seq(S) /\ (d = 1 => Len(h) >= 2)
    BY <1>1, <1>2, <1>4
  <2> HIDE DEF h, d
  <2> QED BY <1>6, <2>1
<1>8. inputs' = Trim(h) /\ current' = Len(Trim(h)) /\ input' = <<>>
  BY <1>1 DEF Submit, k, Last, Edit, ResetInput
<1>9. LinesInv'
  <2>1. Len(h) - d \in 1..MaxInputs
    BY <1>1, <1>2, <1>4
  <2>2. inputs' \in Seq(S) /\ Len(inputs') = Len(h) - d /\ current' = Len(inputs')
    BY <1>7, <1>8
  <2> HIDE DEF h, d
  <2> QED BY <2>1, <2>2 DEF LinesInv
<1>10. Len(inputs') = Len(h) - d /\ current' = Len(h) - d /\ input' = <<>>
  BY <1>7, <1>8
<1>11. \A i \in 1..(Len(h) - d) : i + d <= Len(inputs) => inputs'[i] = k[i + d]
  <2>1. d \in {0, 1} /\ Len(h) \in Nat /\ Len(inputs) \in Nat
    BY <1>1, <1>4
  <2> HIDE DEF h, d
  <2> TAKE i \in 1..(Len(h) - d)
  <2>2. i + d <= Len(inputs) => i + d \in 1..Len(inputs)
    BY <2>1
  <2>3. inputs'[i] = h[i + d]
    BY <1>7, <1>8
  <2> QED BY <1>4, <2>2, <2>3
<1> DEFINE m == Len(inputs) + (IF k[Len(inputs)] # <<>> THEN 1 ELSE 0) - d
<1>12. Len(h) - d = m
  BY <1>4
<1> HIDE DEF h
<1>13. /\ LinesInv' /\ Len(inputs') = m /\ current' = m /\ input' = <<>>
       /\ \A i \in 1..m : i + d <= Len(inputs) => inputs'[i] = k[i + d]
  <2> HIDE DEF d, m
  <2> QED BY <1>9, <1>10, <1>11, <1>12
<1> QED BY <1>13 DEF k

\* What a byte does to the lines.
LEMMA ReadIs ==
  ASSUME LinesInv, ReadByte
  PROVE  LET do == Outcome(Head(tty)) IN
    /\ do = "enter" => Submit
    /\ do # "enter" => inputs' = Kept /\ LinesInv'
    /\ do \in {"nothing", "i", "C", "D"} => input' = input /\ current' = current
    /\ do = "A" => current' = (IF current = 1 THEN 1 ELSE current - 1) /\ input' = Kept[current']
    /\ do = "B" /\ current < Len(inputs) => current' = current + 1 /\ input' = Kept[current']
    /\ do = "B" /\ current = Len(inputs) => UNCHANGED <<current, input>>
<1> DEFINE do == Outcome(Head(tty))
<1>1. /\ Len(Kept) = Len(inputs) /\ Kept = [i \in 1..Len(inputs) |-> Kept[i]]
      /\ Len(inputs) \in 1..MaxInputs /\ current \in 1..Len(inputs)
  BY KeptIs DEF LinesInv
<1>2. CASE do = "enter"
  BY <1>2 DEF ReadByte
<1>3. CASE do = "A"
  <2>1. InputUp
    BY <1>3 DEF ReadByte
  <2>2. Max({1, current - 1}) = IF current = 1 THEN 1 ELSE current - 1
    <3>1. current - 1 \in Int /\ 1 \in Int
      BY <1>1
    <3>2. Max({1, current - 1}) = IF 1 >= current - 1 THEN 1 ELSE current - 1
      BY <3>1, MaxOfTwo
    <3> QED BY <1>1, <3>2
  <2>3. inputs' = Kept /\ current' = (IF current = 1 THEN 1 ELSE current - 1) /\ input' = Kept[current']
    BY <2>1, <2>2 DEF InputUp, Edit, SetInput
  <2>4. LinesInv'
    BY <1>1, <2>3 DEF LinesInv
  <2> QED BY <1>3, <2>3, <2>4
<1>4. CASE do = "B"
  <2>1. InputDown
    BY <1>4 DEF ReadByte
  <2>2. /\ inputs' = Kept
        /\ current < Len(inputs) => current' = current + 1 /\ input' = Kept[current']
        /\ current = Len(inputs) => UNCHANGED <<current, input>>
    BY <1>1, <2>1 DEF InputDown, Edit, SetInput
  <2>3. LinesInv'
    BY <1>1, <2>2 DEF LinesInv
  <2> QED BY <1>4, <2>2, <2>3
<1>5. CASE do \notin {"enter", "A", "B"}
  <2>1. \E to : EditOnly(to) /\ (do \in {"nothing", "i", "C", "D"} => to[1] = input)
    BY <1>5 DEF ReadByte, Left, Right
  <2>2. inputs' = Kept /\ current' = current /\ (do \in {"nothing", "i", "C", "D"} => input' = input)
    BY <2>1 DEF EditOnly, Edit
  <2>3. LinesInv'
    BY <1>1, <2>2 DEF LinesInv
  <2> QED BY <1>5, <2>2, <2>3
<1> QED BY <1>2, <1>3, <1>4, <1>5

LEMMA LinesKept ==
  ASSUME LinesInv, [ConsoleNext]_consolevars
  PROVE  LinesInv'
<1>1. ASSUME NEW k \in Keys, Press(k)  PROVE LinesInv'
  BY <1>1 DEF Press, LinesInv
<1>2. CASE ReadByte
  BY <1>2, ReadIs, SubmitIs
<1>3. CASE Timeout
  BY <1>3 DEF Timeout, LinesInv
<1>4. CASE UNCHANGED consolevars
  BY <1>4 DEF consolevars, LinesInv
<1> QED BY <1>1, <1>2, <1>3, <1>4 DEF ConsoleNext

\* A byte that changes nothing of the line leaves the draft where it is, and
\* such bytes follow each other.
LEMMA QuietGoesOn ==
  ASSUME TtyInv, ModeInv, Quiet, ReadByte
  PROVE  Quiet'
<1>1. /\ tty # <<>> /\ tty' = Tail(tty) /\ escape' = Escape(Head(tty))
      /\ insert' = (insert \/ Outcome(Head(tty)) = "i") /\ insert \in BOOLEAN
  BY DEF ReadByte, ModeInv
<1>2. Outcome(Head(tty)) = "i" <=> Head(tty) = "i" /\ ~insert
  BY ByteIs, <1>1
<1>3. CASE insert
  <2>1. CASE tty = <<"esc">> \/ (tty = <<"[">> /\ escape = 3) \/ \E a \in Tails : tty = <<a>> /\ escape = 2
    <3>1. tty' = <<>>
      BY <1>1, <2>1
    <3> QED BY <3>1 DEF Quiet
  <2>2. CASE \E k \in Arrows : tty = Bytes(k)
    <3>1. \E a \in Tails : tty = <<"esc", "[", a>>
      BY <2>2, BytesAre
    <3>2. \E a \in Tails : tty' = <<"[", a>>
      BY <1>1, <3>1
    <3> QED BY <3>2 DEF Quiet
  <2>3. CASE \E a \in Tails : tty = <<"[", a>>
    <3> PICK a \in Tails : tty = <<"[", a>>
      BY <2>3
    <3>1. escape = 1
      BY BytesAre DEF TtyInv
    <3>2. tty' = <<a>> /\ escape' = 2
      BY <1>1, <3>1 DEF Escape
    <3> QED BY <3>2 DEF Quiet
  <2> QED BY <1>1, <1>3, <2>1, <2>2, <2>3 DEF Quiet
<1>4. CASE ~insert /\ Head(tty) = "i"
  <2>1. tty = <<"i">>
    BY <1>1, <1>4, BytesAre DEF TtyInv
  <2>2. tty' = <<>>
    BY <1>1, <2>1
  <2> QED BY <2>2 DEF Quiet
<1>5. CASE ~insert /\ Head(tty) # "i"
  BY <1>1, <1>2, <1>5 DEF Quiet
<1> QED BY <1>3, <1>4, <1>5

LEMMA DraftKept ==
  ASSUME TtyInv, ModeInv, LinesInv, DraftInv, [ConsoleNext]_consolevars
  PROVE  DraftInv'
<1>1. Len(inputs) \in Nat \ {0} /\ current \in 1..Len(inputs)
  BY ConsoleAssumption DEF LinesInv
<1>2. ASSUME NEW k \in Keys, Press(k)  PROVE DraftInv'
  <2>1. /\ tty = <<>> /\ tty' = Bytes(k) /\ UNCHANGED <<escape, insert, input, inputs, current>>
        /\ draft' = IF normal \/ (k = "[" /\ last \in Arrows) \/ k \in {"esc", "down", "left", "right"} THEN draft
                    ELSE IF k # "up" THEN <<>>
                    ELSE IF current = Len(inputs) THEN <<input>> ELSE draft
    BY <1>2 DEF Press, LostKey
  <2>2. insert = ~normal
    BY <2>1 DEF ModeInv
  <2>3. CASE normal
    <3>1. ~insert' /\ draft' = draft
      <4>1. draft' = draft
        BY <2>1, <2>3
      <4>2. ~insert /\ insert' = insert
        BY <2>1, <2>2, <2>3, Zenon
      <4> QED BY <4>1, <4>2
    <3>2. Quiet'
      BY <3>1 DEF Quiet
    <3> QED BY <2>1, <3>1, <3>2 DEF DraftInv
  <2>4. CASE ~normal /\ k = "[" /\ last \in Arrows
    <3>1. tty' = <<"[">> /\ escape' = 3 /\ draft' = draft
      BY <2>1, <2>4, BytesAre DEF TtyInv
    <3> QED BY <2>1, <3>1 DEF DraftInv, Quiet
  <2>5. CASE ~normal /\ k \in {"esc", "down", "left", "right"}
    BY <2>1, <2>5, BytesAre DEF DraftInv, Quiet
  <2>6. CASE ~normal /\ k = "up"
    <3>1. draft' = IF current = Len(inputs) THEN <<input>> ELSE draft
      BY <2>1, <2>6
    <3> QED BY <1>1, <2>1, <2>6, <3>1 DEF DraftInv, Quiet
  <2>7. CASE ~normal /\ ~(k = "[" /\ last \in Arrows) /\ k \notin {"esc", "up", "down", "left", "right"}
    BY <2>1, <2>7 DEF DraftInv
  <2> QED BY <2>3, <2>4, <2>5, <2>6, <2>7
<1>3. CASE ReadByte
  <2> SUFFICES ASSUME draft # <<>>  PROVE DraftInv'
    BY <1>3 DEF ReadByte, ideal, DraftInv
  <2> DEFINE do == Outcome(Head(tty))
  <2>1. /\ Quiet /\ Quiet' /\ draft' = draft /\ tty # <<>>
        /\ current = Len(inputs) => input = draft[1]
        /\ current < Len(inputs) => inputs[Len(inputs)] = draft[1] /\ inputs[current] = input
    BY <1>3, QuietGoesOn DEF DraftInv, ReadByte, ideal
  <2>2. do \in Tails \cup {"nothing", "i"}
    BY <2>1, ByteIs
  <2>3. /\ Len(Kept) = Len(inputs) /\ Kept[Len(inputs)] = draft[1]
        /\ \A i \in 1..Len(inputs) : i < Len(inputs) => Kept[i] = inputs[i]
    BY <1>1, <2>1, KeptIs
  <2>4. inputs' = Kept
    BY <1>3, <2>2, ReadIs
  <2>5. CASE do \in {"nothing", "i", "C", "D"}
    <3>1. input' = input /\ current' = current
      BY <1>3, <2>5, ReadIs
    <3> QED BY <1>1, <2>1, <2>3, <2>4, <3>1 DEF DraftInv
  <2>6. CASE do = "A"
    <3>1. current' = (IF current = 1 THEN 1 ELSE current - 1) /\ input' = Kept[current']
      BY <1>3, <2>6, ReadIs
    <3> QED BY <1>1, <2>1, <2>3, <2>4, <3>1 DEF DraftInv
  <2>7. CASE do = "B"
    <3>1. /\ current < Len(inputs) => current' = current + 1 /\ input' = Kept[current']
          /\ current = Len(inputs) => UNCHANGED <<current, input>>
      BY <1>3, <2>7, ReadIs
    <3> QED BY <1>1, <2>1, <2>3, <2>4, <3>1 DEF DraftInv
  <2> QED BY <2>2, <2>5, <2>6, <2>7
<1>4. CASE Timeout
  <2>1. UNCHANGED <<tty, input, inputs, current, draft>> /\ tty = <<>>
    BY <1>4 DEF Timeout
  <2> QED BY <2>1 DEF DraftInv, Quiet
<1>5. CASE UNCHANGED consolevars
  BY <1>5 DEF consolevars, DraftInv, Quiet
<1> QED BY <1>2, <1>3, <1>4, <1>5 DEF ConsoleNext

KeyInv == TtyInv /\ ModeInv /\ LinesInv /\ DraftInv

LEMMA KeyInvHolds ==
  ConsoleSpec => []KeyInv
<1>1. ConsoleInit => KeyInv
  <2> SUFFICES ASSUME ConsoleInit  PROVE KeyInv
    OBVIOUS
  <2>1. TtyInv /\ ModeInv /\ DraftInv
    BY DEF ConsoleInit, TtyInv, ModeInv, DraftInv
  <2>2. Len(inputs) = 1 /\ inputs = [i \in 1..1 |-> inputs[i]] /\ current = 1 /\ 1 \in 1..MaxInputs
    BY ConsoleAssumption DEF ConsoleInit
  <2> QED BY <2>1, <2>2 DEF KeyInv, LinesInv
<1>2. KeyInv /\ [ConsoleNext]_consolevars => KeyInv'
  BY TtyKept, LinesKept, DraftKept DEF KeyInv
<1> QED BY <1>1, <1>2, PTL DEF ConsoleSpec

\* A submitted line stays in the history, the newest or where it was, unless
\* that was the oldest place of a full one; and the unsent line is back when
\* who walked up the history comes down again having changed nothing. For any
\* set of the keys that are modelled and a history of at least two lines.
THEOREM HistoryIsKept ==
  ConsoleSpec => HistoryKeeps
<1>1. ASSUME KeyInv, ConsoleNext  PROVE SubmittedStays
  <2> SUFFICES ASSUME tty # <<>>, Outcome(Head(tty)) = "enter", input # <<>>
               PROVE  \/ input \in Range(inputs')
                      \/ current = 1 /\ Len(inputs) = MaxInputs /\ Last(inputs) # <<>>
    BY DEF SubmittedStays
  <2>1. CASE ReadByte
    <3> DEFINE full == Kept[Len(inputs)] # <<>> /\ Len(inputs) = MaxInputs
               d == IF full THEN 1 ELSE 0
               n == Len(inputs) + (IF Kept[Len(inputs)] # <<>> THEN 1 ELSE 0) - d
               at == IF current = Len(inputs) \/ inputs[current] # input THEN Len(inputs) ELSE current
    <3>1. LinesInv /\ Submit /\ MaxInputs \in Nat \ {0, 1}
      BY <1>1, <2>1, ReadIs, ConsoleAssumption DEF KeyInv
    <3>2. Len(inputs) \in 1..MaxInputs /\ current \in 1..Len(inputs)
      BY <3>1 DEF LinesInv
    <3>3. at \in 1..Len(inputs) /\ Kept[at] = input
      BY <3>1, <3>2, KeptIs
    <3>4. /\ LinesInv' /\ Len(inputs') = n
          /\ \A i \in 1..n : i + d <= Len(inputs) => inputs'[i] = Kept[i + d]
      BY <3>1, SubmitIs
    <3>5. DOMAIN inputs' = 1..n
      BY <3>4 DEF LinesInv
    <3>6. CASE at > d
      <4>1. at - d \in 1..n /\ (at - d) + d = at
        BY <3>2, <3>3, <3>6, <3>1
      <4>2. inputs'[at - d] = input
        <5> HIDE DEF d, n, at
        <5> QED BY <3>3, <3>4, <4>1
      <4> QED BY <3>5, <4>1, <4>2 DEF Range
    <3>7. CASE at <= d
      <4>1. full /\ at = 1
        <5>1. at \in Nat \ {0}
          BY <3>2, <3>3
        <5>2. d = IF full THEN 1 ELSE 0
          OBVIOUS
        <5> HIDE DEF full, d, at
        <5> QED BY <3>7, <5>1, <5>2
      <4>2. at = current /\ current # Len(inputs) /\ inputs[current] = input
        BY <3>1, <3>2, <4>1
      <4>3. Kept = inputs
        BY <4>2 DEF Kept
      <4> QED BY <4>1, <4>2, <4>3 DEF Last
    <3> QED BY <3>2, <3>3, <3>6, <3>7
  <2>2. ASSUME NEW k \in Keys, Press(k)  PROVE FALSE
    BY <2>2 DEF Press
  <2>3. CASE Timeout
    BY <2>3 DEF Timeout
  <2> QED BY <1>1, <2>1, <2>2, <2>3 DEF ConsoleNext
<1>2. ASSUME KeyInv, ConsoleNext  PROVE UnsentComesBack
  <2> SUFFICES ASSUME current < Len(inputs), current' = Len(inputs), draft # <<>>,
                      tty # <<>>, Outcome(Head(tty)) = "B"
               PROVE  input' = draft[1]
    BY DEF UnsentComesBack
  <2>1. Len(inputs) \in 1..MaxInputs /\ current \in 1..Len(inputs) /\ LinesInv
    BY <1>2 DEF KeyInv, LinesInv
  <2>2. ReadByte
    BY <1>2, <2>1 DEF ConsoleNext, Press, Timeout
  <2>3. current' = current + 1 /\ input' = Kept[current']
    BY <2>1, <2>2, ReadIs
  <2>4. inputs[Len(inputs)] = draft[1] /\ inputs[current] = input
    BY <1>2 DEF KeyInv, DraftInv
  <2> QED BY <2>1, <2>3, <2>4 DEF Kept
<1>3. KeyInv /\ [ConsoleNext]_consolevars => [SubmittedStays /\ UnsentComesBack]_consolevars
  BY <1>1, <1>2
<1> QED BY <1>3, KeyInvHolds, PTL DEF ConsoleSpec, HistoryKeeps

-----------------------------------------------------------------------------
(* A text and its bytes: where each character begins.                      *)

\* "w1" is half a wide character, kept while the other half was on its way.
Chars == {"x", "i", "[", "wide", "w1"}

Width(c) == IF c = "wide" THEN 2 ELSE 1

\* b is t byte by byte, and p says where its characters begin and t ends.
Places(b, t, p) ==
  /\ p \in [1..(Len(t) + 1) -> Nat] /\ p[1] = 1 /\ Len(b) = p[Len(t) + 1] - 1
  /\ \A j \in 1..Len(t) :
       /\ p[j + 1] = p[j] + Width(t[j])
       /\ b[p[j]] = IF t[j] = "wide" THEN "w1" ELSE t[j]
       /\ t[j] = "wide" => b[p[j] + 1] = "w2"

\* b is the bytes of t.
Coded(b, t) == \E S : b \in Seq(S) /\ \E p : Places(b, t, p)

LEMMA PlacesGrow ==
  ASSUME NEW t \in Seq(Chars), NEW b, NEW p, Places(b, t, p)
  PROVE  /\ \A j \in 1..(Len(t) + 1) : p[j] >= j /\ p[j] \in Nat
         /\ \A i, j \in 1..(Len(t) + 1) : i < j => p[i] < p[j]
<1>1. /\ Len(t) \in Nat
      /\ \A j \in 1..(Len(t) + 1) : p[j] \in Nat
      /\ p[1] = 1 /\ \A j \in 1..Len(t) : p[j + 1] >= p[j] + 1
  <2>1. /\ Len(t) \in Nat /\ p \in [1..(Len(t) + 1) -> Nat] /\ p[1] = 1
        /\ \A j \in 1..Len(t) : p[j + 1] = p[j] + Width(t[j])
    BY DEF Places
  <2>2. \A c : Width(c) \in {1, 2}
    BY DEF Width
  <2>3. ASSUME NEW j \in 1..Len(t)  PROVE p[j + 1] >= p[j] + 1
    <3>1. p[j] \in Nat /\ Width(t[j]) \in {1, 2} /\ p[j + 1] = p[j] + Width(t[j])
      BY <2>1, <2>2
    <3> QED BY <3>1
  <2> QED BY <2>1, <2>3
<1>2. \A j \in 1..(Len(t) + 1) : p[j] >= j
  <2> DEFINE Good == {n \in Nat : n + 1 \in 1..(Len(t) + 1) => p[n + 1] >= n + 1}
  <2>1. 0 \in Good
    BY <1>1
  <2>2. ASSUME NEW n \in Nat, n \in Good  PROVE n + 1 \in Good
    BY <1>1, <2>2
  <2>3. \A n \in Nat : n \in Good
    <3> HIDE DEF Good
    <3> QED BY <2>1, <2>2, Induction
  <2> TAKE j \in 1..(Len(t) + 1)
  <2>4. j - 1 \in Nat /\ (j - 1) + 1 = j
    BY <1>1
  <2> QED BY <2>3, <2>4
<1>3. ASSUME NEW i \in 1..(Len(t) + 1)  PROVE \A j \in 1..(Len(t) + 1) : i < j => p[i] < p[j]
  <2> DEFINE Good == {n \in Nat : i + n + 1 \in 1..(Len(t) + 1) => p[i] < p[i + n + 1]}
  <2>1. 0 \in Good
    BY <1>1
  <2>2. ASSUME NEW n \in Nat, n \in Good  PROVE n + 1 \in Good
    <3>1. i + (n + 1) + 1 = (i + n + 1) + 1 /\ i + n + 1 \in Nat \ {0}
      BY <1>1
    <3>2. CASE i + n + 1 \in 1..Len(t)
      BY <1>1, <2>2, <3>1, <3>2
    <3>3. CASE i + n + 1 \notin 1..Len(t)
      BY <1>1, <3>1, <3>3
    <3> QED BY <3>2, <3>3
  <2>3. \A n \in Nat : n \in Good
    <3> HIDE DEF Good
    <3> QED BY <2>1, <2>2, Induction
  <2> TAKE j \in 1..(Len(t) + 1)
  <2>4. i < j => j - i - 1 \in Nat /\ i + (j - i - 1) + 1 = j
    BY <1>1
  <2> QED BY <2>3, <2>4
<1> QED BY <1>1, <1>2, <1>3

\* Every byte is the first of a character, or the second of a wide one.
LEMMA PlacesCover ==
  ASSUME NEW t \in Seq(Chars), NEW b, NEW p, Places(b, t, p), NEW i \in 1..Len(b)
  PROVE  \E j \in 1..Len(t) : i = p[j] \/ (t[j] = "wide" /\ i = p[j] + 1)
<1>1. /\ Len(t) \in Nat /\ Len(b) = p[Len(t) + 1] - 1
      /\ \A j \in 1..(Len(t) + 1) : p[j] \in Nat
      /\ p[1] = 1 /\ \A j \in 1..Len(t) : p[j + 1] = p[j] + Width(t[j])
  BY DEF Places
<1> DEFINE Stand(j) == i = p[j] \/ (t[j] = "wide" /\ i = p[j] + 1)
           Good == {n \in Nat : n <= Len(t) /\ i < p[n + 1] => \E j \in 1..Len(t) : Stand(j)}
<1>2. 0 \in Good
  BY <1>1
<1>3. ASSUME NEW n \in Nat, n \in Good  PROVE n + 1 \in Good
  <2> SUFFICES ASSUME n + 1 <= Len(t), i < p[n + 2], i >= p[n + 1]
               PROVE  \E j \in 1..Len(t) : Stand(j)
    BY <1>1, <1>3
  <2>1. n + 1 \in 1..Len(t) /\ p[(n + 1) + 1] = p[n + 1] + Width(t[n + 1]) /\ p[n + 1] \in Nat
    BY <1>1
  <2>2. Stand(n + 1)
    BY <2>1 DEF Width
  <2> QED BY <2>1, <2>2
<1>4. \A n \in Nat : n \in Good
  <2> HIDE DEF Good
  <2> QED BY <1>2, <1>3, Induction
<1> QED BY <1>1, <1>4

\* Two sequences of bytes of the same text are the same.
LEMMA PlacesUnique ==
  ASSUME NEW t \in Seq(Chars), NEW S, NEW b \in Seq(S), NEW R, NEW c \in Seq(R),
         NEW p, Places(b, t, p), NEW q, Places(c, t, q)
  PROVE  p = q /\ b = c
<1>1. /\ Len(t) \in Nat /\ p[1] = 1 /\ q[1] = 1
      /\ p \in [1..(Len(t) + 1) -> Nat] /\ q \in [1..(Len(t) + 1) -> Nat]
      /\ \A j \in 1..Len(t) : p[j + 1] = p[j] + Width(t[j]) /\ q[j + 1] = q[j] + Width(t[j])
  BY DEF Places
<1>2. p = q
  <2> DEFINE Good == {n \in Nat : n + 1 \in 1..(Len(t) + 1) => p[n + 1] = q[n + 1]}
  <2>1. 0 \in Good
    BY <1>1
  <2>2. ASSUME NEW n \in Nat, n \in Good  PROVE n + 1 \in Good
    <3> SUFFICES ASSUME n + 2 \in 1..(Len(t) + 1)  PROVE p[n + 2] = q[n + 2]
      OBVIOUS
    <3>1. n + 1 \in 1..Len(t) /\ (n + 1) + 1 = n + 2
      BY <1>1
    <3>2. p[n + 1] = q[n + 1]
      BY <2>2, <3>1
    <3> QED BY <1>1, <3>1, <3>2
  <2>3. \A n \in Nat : n \in Good
    <3> HIDE DEF Good
    <3> QED BY <2>1, <2>2, Induction
  <2>4. ASSUME NEW j \in 1..(Len(t) + 1)  PROVE p[j] = q[j]
    <3>1. j - 1 \in Nat /\ (j - 1) + 1 = j
      BY <1>1
    <3> QED BY <2>3, <3>1
  <2> QED BY <1>1, <2>4
<1>3. Len(b) = Len(c) /\ Len(b) \in Nat
  BY <1>2 DEF Places
<1>4. ASSUME NEW i \in 1..Len(b)  PROVE b[i] = c[i]
  <2>1. PICK j \in 1..Len(t) : i = p[j] \/ (t[j] = "wide" /\ i = p[j] + 1)
    BY PlacesCover
  <2> QED BY <1>2, <2>1 DEF Places
<1> QED BY <1>2, <1>3, <1>4

\* z is x and then y.
Joined(x, y, z) ==
  /\ Len(x) \in Nat /\ Len(y) \in Nat /\ Len(z) \in Nat /\ Len(z) = Len(x) + Len(y)
  /\ \A i \in 1..Len(x) : z[i] = x[i]
  /\ \A r \in 1..Len(y) : z[Len(x) + r] = y[r]

LEMMA JoinIs ==
  ASSUME NEW S, NEW x \in Seq(S), NEW y \in Seq(S)
  PROVE  Joined(x, y, x \o y)
BY DEF Joined

\* The bytes that Encode makes of a text are its bytes.
LEMMA EncodeCodes ==
  ASSUME NEW t \in Seq(Chars)
  PROVE  Coded(Encode(t), t)
<1> DEFINE Bs == {"x", "i", "[", "w1", "w2"}
           q == [i \in 1..Len(t) |-> Bytes(t[i])]
<1>1. Len(t) \in Nat /\ DOMAIN t = 1..Len(t) /\ \A i \in 1..Len(t) : t[i] \in Chars
  BY LenProperties
<1>2. \A c \in Chars : Bytes(c) = IF c = "wide" THEN <<"w1", "w2">> ELSE <<c>>
  BY DEF Chars, Bytes
<1>3. \A i \in 1..Len(t) : q[i] \in Seq(Bs) /\ Len(q[i]) = Width(t[i])
  <2>1. ASSUME NEW c \in Chars  PROVE Bytes(c) \in Seq(Bs) /\ Len(Bytes(c)) = Width(c)
    <3>1. CASE c = "wide"
      <4>1. Bytes(c) = <<"w1", "w2">> /\ Width(c) = 2
        BY <1>2, <3>1 DEF Width
      <4>2. <<"w1", "w2">> \in Seq(Bs) /\ Len(<<"w1", "w2">>) = 2
        OBVIOUS
      <4> QED BY <4>1, <4>2
    <3>2. CASE c # "wide"
      <4>1. Bytes(c) = <<c>> /\ Width(c) = 1 /\ c \in Bs
        BY <1>2, <3>2 DEF Width, Chars
      <4>2. <<c>> \in Seq(Bs) /\ Len(<<c>>) = 1
        BY <4>1
      <4> QED BY <4>1, <4>2
    <3> QED BY <3>1, <3>2
  <2>2. \A i \in 1..Len(t) : q[i] = Bytes(t[i])
    BY <1>1
  <2> HIDE DEF q
  <2> QED BY <1>1, <2>1, <2>2
<1>4. q \in Seq(Seq(Bs)) /\ Len(q) = Len(t)
  BY <1>1, <1>3
<1>5. Encode(t) = FlattenSeq(q)
  <2>1. Encode(t) = FlattenSeq(q)
    BY <1>1 DEF Encode
  <2> QED BY <2>1 DEF FlattenSeq
<1>6. \A i \in 1..Len(t) : q[i] = IF t[i] = "wide" THEN <<"w1", "w2">> ELSE <<t[i]>>
  BY <1>1, <1>2
<1> HIDE DEF q, Bs
<1>7. PICK f \in [0..Len(t) -> Seq(Bs)] :
        /\ f[0] = <<>> /\ FlattenSeq(q) = f[Len(t)]
        /\ \A k \in 1..Len(t) : f[k] = f[k - 1] \o q[k]
  <2>1. PICK g : /\ Chain(g, q) /\ FlattenSeq(q) = g[Len(q)] /\ \A k \in 0..Len(q) : g[k] \in Seq(Bs)
    BY <1>4, FlattenIsChain
  <2> DEFINE f == [k \in 0..Len(t) |-> g[k]]
  <2>2. f \in [0..Len(t) -> Seq(Bs)]
    BY <1>4, <2>1
  <2>3. f[0] = <<>> /\ FlattenSeq(q) = f[Len(t)]
    BY <1>1, <1>4, <2>1 DEF Chain
  <2>4. ASSUME NEW k \in 1..Len(t)  PROVE f[k] = f[k - 1] \o q[k]
    <3>1. k \in 0..Len(t) /\ k - 1 \in 0..Len(t)
      BY <1>1
    <3>2. g[k] = g[k - 1] \o q[k]
      BY <1>4, <2>1 DEF Chain
    <3> QED BY <3>1, <3>2
  <2> HIDE DEF f
  <2> QED BY <2>2, <2>3, <2>4
<1> DEFINE p == [j \in 1..(Len(t) + 1) |-> Len(f[j - 1]) + 1]
<1>8. p \in [1..(Len(t) + 1) -> Nat] /\ p[1] = 1 /\ Len(f[Len(t)]) = p[Len(t) + 1] - 1
  <2>1. \A j \in 1..(Len(t) + 1) : j - 1 \in 0..Len(t)
    BY <1>1
  <2>2. \A k \in 0..Len(t) : Len(f[k]) \in Nat
    BY <1>7
  <2>3. \A j \in 1..(Len(t) + 1) : Len(f[j - 1]) + 1 \in Nat
    BY <2>1, <2>2
  <2>4. (Len(t) + 1) - 1 = Len(t) /\ Len(t) + 1 \in 1..(Len(t) + 1) /\ 1 \in 1..(Len(t) + 1) /\ 1 - 1 = 0 /\ Len(t) \in 0..Len(t)
    BY <1>1
  <2>5. Len(f[0]) = 0
    BY <1>7
  <2>6. p[1] = 1 /\ p[Len(t) + 1] = Len(f[Len(t)]) + 1
    BY <2>4, <2>5
  <2> QED BY <2>2, <2>3, <2>4, <2>6
<1> HIDE DEF p
<1>9. ASSUME NEW k \in 1..Len(t)
      PROVE  Joined(f[k - 1], q[k], f[k]) /\ Len(q[k]) = Width(t[k]) /\ Width(t[k]) \in {1, 2}
  <2>1. k - 1 \in 0..Len(t)
    BY <1>1
  <2>2. f[k - 1] \in Seq(Bs) /\ q[k] \in Seq(Bs)
    BY <1>3, <2>1
  <2>3. Joined(f[k - 1], q[k], f[k - 1] \o q[k])
    BY <2>2, JoinIs
  <2> QED BY <1>3, <1>7, <2>3 DEF Width
<1>10. ASSUME NEW j \in 1..Len(t)
       PROVE  \A r \in 1..Width(t[j]) : f[Len(t)][Len(f[j - 1]) + r] = q[j][r]
  <2> DEFINE a == Len(f[j - 1])
             Good == {n \in Nat : j + n <= Len(t) =>
                        /\ Len(f[j + n]) \in Nat /\ Len(f[j + n]) >= a + Width(t[j])
                        /\ \A r \in 1..Width(t[j]) : f[j + n][a + r] = q[j][r]}
  <2>0. Joined(f[j - 1], q[j], f[j]) /\ Len(q[j]) = Width(t[j]) /\ Width(t[j]) \in {1, 2}
    BY <1>9
  <2>1. 0 \in Good
    <3>1. j + 0 = j
      BY <1>1
    <3> QED BY <2>0, <3>1 DEF Joined
  <2>2. ASSUME NEW n \in Nat, n \in Good  PROVE n + 1 \in Good
    <3> SUFFICES ASSUME j + n + 1 <= Len(t)
                 PROVE  /\ Len(f[j + n + 1]) \in Nat /\ Len(f[j + n + 1]) >= a + Width(t[j])
                        /\ \A r \in 1..Width(t[j]) : f[j + n + 1][a + r] = q[j][r]
      <4>1. j + (n + 1) = j + n + 1
        BY <1>1
      <4> HIDE DEF a
      <4>2. n + 1 \in Nat
        OBVIOUS
      <4> QED BY <4>1, <4>2
    <3>1. j + n + 1 \in 1..Len(t) /\ (j + n + 1) - 1 = j + n /\ j + n <= Len(t)
      BY <1>1
    <3>2. Joined(f[j + n], q[j + n + 1], f[j + n + 1])
      <4>1. Joined(f[(j + n + 1) - 1], q[j + n + 1], f[j + n + 1])
        BY <1>9, <3>1
      <4> QED BY <3>1, <4>1
    <3>3. /\ Len(f[j + n]) \in Nat /\ Len(f[j + n]) >= a + Width(t[j])
          /\ \A r \in 1..Width(t[j]) : f[j + n][a + r] = q[j][r]
      BY <2>2, <3>1
    <3>4. a \in Nat
      BY <2>0 DEF Joined
    <3> HIDE DEF a
    <3>5. /\ Len(f[j + n + 1]) \in Nat /\ Len(f[j + n + 1]) >= Len(f[j + n])
          /\ \A i \in 1..Len(f[j + n]) : f[j + n + 1][i] = f[j + n][i]
      <4> DEFINE x == f[j + n]
                 z == f[j + n + 1]
      <4>1. Joined(x, q[j + n + 1], z)
        BY <3>2
      <4> HIDE DEF x, z
      <4>2. Len(z) \in Nat /\ Len(z) >= Len(x) /\ \A i \in 1..Len(x) : z[i] = x[i]
        BY <4>1 DEF Joined
      <4> QED BY <4>2 DEF x, z
    <3>6. ASSUME NEW r \in 1..Width(t[j])  PROVE f[j + n + 1][a + r] = q[j][r]
      <4>1. a + r \in 1..Len(f[j + n])
        BY <2>0, <3>3, <3>4
      <4> QED BY <3>3, <3>5, <4>1
    <3> QED BY <2>0, <3>3, <3>4, <3>5, <3>6
  <2>3. \A n \in Nat : n \in Good
    <3> HIDE DEF Good
    <3> QED BY <2>1, <2>2, Induction
  <2>4. Len(t) - j \in Nat /\ j + (Len(t) - j) = Len(t)
    BY <1>1
  <2>5. Len(t) - j \in Good
    <3> HIDE DEF Good
    <3> QED BY <2>3, <2>4
  <2> QED BY <2>4, <2>5
<1>11. ASSUME NEW j \in 1..Len(t)
       PROVE  LET b == f[Len(t)] IN
              /\ p[j + 1] = p[j] + Width(t[j])
              /\ b[p[j]] = IF t[j] = "wide" THEN "w1" ELSE t[j]
              /\ t[j] = "wide" => b[p[j] + 1] = "w2"
  <2>1. j + 1 \in 1..(Len(t) + 1) /\ j \in 1..(Len(t) + 1) /\ (j + 1) - 1 = j
    BY <1>1
  <2>2. p[j] = Len(f[j - 1]) + 1 /\ p[j + 1] = Len(f[j]) + 1 /\ Len(f[j - 1]) \in Nat
    BY <1>9, <2>1 DEF p, Joined
  <2>3. p[j + 1] = p[j] + Width(t[j])
    <3> DEFINE x == f[j - 1]
               z == f[j]
    <3>1. Joined(x, q[j], z) /\ Len(q[j]) = Width(t[j]) /\ Width(t[j]) \in {1, 2}
      BY <1>9
    <3>2. p[j] = Len(x) + 1 /\ p[j + 1] = Len(z) + 1
      BY <2>2
    <3> HIDE DEF x, z
    <3> QED BY <3>1, <3>2 DEF Joined
  <2>4. CASE t[j] = "wide"
    <3>1. Width(t[j]) = 2 /\ q[j] = <<"w1", "w2">>
      BY <1>6, <2>4 DEF Width
    <3>2. f[Len(t)][Len(f[j - 1]) + 1] = q[j][1] /\ f[Len(t)][Len(f[j - 1]) + 2] = q[j][2]
      BY <1>10, <3>1
    <3>3. p[j] + 1 = Len(f[j - 1]) + 2
      BY <2>2
    <3> QED BY <2>2, <2>3, <2>4, <3>1, <3>2, <3>3
  <2>5. CASE t[j] # "wide"
    <3>1. Width(t[j]) = 1 /\ q[j] = <<t[j]>>
      BY <1>6, <2>5 DEF Width
    <3>2. f[Len(t)][Len(f[j - 1]) + 1] = q[j][1]
      BY <1>10, <3>1
    <3> QED BY <2>2, <2>3, <2>5, <3>1, <3>2
  <2> QED BY <2>4, <2>5
<1> HIDE DEF p
<1>12. Places(f[Len(t)], t, p)
  BY <1>8, <1>11 DEF Places
<1>13. f[Len(t)] \in Seq(Bs)
  BY <1>1, <1>7
<1> QED BY <1>5, <1>7, <1>12, <1>13 DEF Coded

LEMMA StartsAre ==
  ASSUME NEW t \in Seq(Chars), NEW S, NEW b \in Seq(S), NEW p, Places(b, t, p)
  PROVE  Starts(b) = {p[j] : j \in 1..Len(t)}
<1>1. /\ Len(t) \in Nat /\ Len(b) \in Nat /\ DOMAIN b = 1..Len(b) /\ Len(b) = p[Len(t) + 1] - 1
      /\ \A j \in 1..Len(t) :
           /\ b[p[j]] = IF t[j] = "wide" THEN "w1" ELSE t[j]
           /\ t[j] = "wide" => b[p[j] + 1] = "w2"
           /\ t[j] \in Chars
  BY DEF Places
<1>2. ASSUME NEW j \in 1..Len(t)  PROVE p[j] \in Starts(b)
  <2>1. p[j] \in Nat /\ p[j] >= 1 /\ p[Len(t) + 1] \in Nat /\ p[j] < p[Len(t) + 1]
    BY <1>1, PlacesGrow
  <2>2. p[j] \in DOMAIN b
    BY <1>1, <2>1
  <2>3. b[p[j]] # "w2"
    <3>1. t[j] # "w2"
      BY <1>1 DEF Chars
    <3> QED BY <1>1, <3>1
  <2> QED BY <2>2, <2>3 DEF Starts
<1>3. ASSUME NEW i \in Starts(b)  PROVE \E j \in 1..Len(t) : i = p[j]
  <2>1. i \in 1..Len(b) /\ ~(b[i] = "w2" /\ i > 1 /\ b[i - 1] = "w1")
    BY <1>1, <1>3 DEF Starts
  <2>2. PICK j \in 1..Len(t) : i = p[j] \/ (t[j] = "wide" /\ i = p[j] + 1)
    BY <2>1, PlacesCover
  <2>3. p[j] \in Nat /\ p[j] >= 1
    BY <1>1, PlacesGrow
  <2>4. ASSUME t[j] = "wide", i = p[j] + 1  PROVE FALSE
    <3>1. i - 1 = p[j] /\ i > 1
      BY <2>3, <2>4
    <3>2. b[i] = "w2" /\ b[i - 1] = "w1"
      BY <1>1, <2>4, <3>1
    <3> QED BY <2>1, <3>1, <3>2
  <2> QED BY <2>2, <2>4
<1> QED BY <1>2, <1>3

\* The first c of the places.
LEMMA FirstPlaces ==
  ASSUME NEW t \in Seq(Chars), NEW b, NEW p, Places(b, t, p), NEW c \in 0..Len(t)
  PROVE  Cardinality({p[j] : j \in 1..c}) = c
<1> DEFINE T == {p[j] : j \in 1..c}
           f == [j \in 1..c |-> p[j]]
<1>1. Len(t) \in Nat /\ c \in Nat
  OBVIOUS
<1>2. \A i, j \in 1..c : i < j => p[i] < p[j] /\ p[i] \in Nat /\ p[j] \in Nat
  <2>1. 1..c \subseteq 1..(Len(t) + 1)
    BY <1>1
  <2> QED BY <2>1, PlacesGrow
<1>3. \A i, j \in 1..c : p[i] = p[j] => i = j
  <2> TAKE i, j \in 1..c
  <2>1. i < j \/ j < i \/ i = j
    BY <1>1
  <2> QED BY <1>2, <2>1
<1>4. f \in Bijection(1..c, T)
  BY <1>3 DEF Bijection, Injection, Surjection, IsInjective
<1>5. IsFiniteSet(1..c) /\ Cardinality(1..c) = c
  BY <1>1, FS_Interval
<1>6. ExistsBijection(1..c, T)
  BY <1>4 DEF ExistsBijection
<1> HIDE DEF T
<1>7. Cardinality(T) = c
  BY <1>5, <1>6, FS_Bijection
<1> QED BY <1>7 DEF T

LEMMA CountsAre ==
  ASSUME NEW t \in Seq(Chars), NEW S, NEW b \in Seq(S), NEW p, Places(b, t, p)
  PROVE  /\ RuneCount(b) = Len(t)
         /\ \A c \in 0..Len(t) : ByteOf(b, c) = p[c + 1]
<1>1. /\ Len(t) \in Nat /\ Len(b) \in Nat /\ Len(b) = p[Len(t) + 1] - 1
      /\ \A j \in 1..(Len(t) + 1) : p[j] \in Nat
  <2>1. Len(b) = p[Len(t) + 1] - 1
    BY DEF Places
  <2> QED BY <2>1, PlacesGrow
<1>2. Starts(b) = {p[j] : j \in 1..Len(t)}
  BY StartsAre
<1>3. RuneCount(b) = Len(t)
  <2>1. Len(t) \in 0..Len(t)
    BY <1>1
  <2>2. Cardinality({p[j] : j \in 1..Len(t)}) = Len(t)
    BY <2>1, FirstPlaces
  <2> QED BY <1>2, <2>2 DEF RuneCount
<1>4. ASSUME NEW c \in 0..Len(t)
      PROVE  Cardinality({j \in Starts(b) : j < p[c + 1]}) = c
  <2>1. c + 1 \in 1..(Len(t) + 1) /\ c \in Nat
    BY <1>1
  <2>2. ASSUME NEW j \in 1..Len(t)  PROVE p[j] < p[c + 1] <=> j <= c
    <3>1. j \in 1..(Len(t) + 1) /\ p[j] \in Nat /\ p[c + 1] \in Nat
      BY <1>1, <2>1
    <3>2. j < c + 1 => p[j] < p[c + 1]
      BY <2>1, <3>1, PlacesGrow
    <3>3. c + 1 < j => p[c + 1] < p[j]
      BY <2>1, <3>1, PlacesGrow
    <3>4. j < c + 1 \/ j = c + 1 \/ c + 1 < j
      BY <2>1
    <3> QED BY <2>1, <3>1, <3>2, <3>3, <3>4
  <2>3. {j \in Starts(b) : j < p[c + 1]} = {p[j] : j \in 1..c}
    <3>1. ASSUME NEW i \in Starts(b), i < p[c + 1]  PROVE i \in {p[j] : j \in 1..c}
      <4>1. PICK j \in 1..Len(t) : i = p[j]
        BY <1>2, <3>1
      <4>2. j \in 1..c
        BY <2>1, <2>2, <3>1, <4>1
      <4> QED BY <4>1, <4>2
    <3>2. ASSUME NEW j \in 1..c  PROVE p[j] \in Starts(b) /\ p[j] < p[c + 1]
      <4>1. j \in 1..Len(t)
        BY <1>1, <2>1
      <4> QED BY <1>2, <2>1, <2>2, <4>1
    <3> QED BY <3>1, <3>2
  <2> QED BY <2>3, FirstPlaces
<1>5. ASSUME NEW c \in 0..Len(t)  PROVE ByteOf(b, c) = p[c + 1]
  <2>1. CASE c = Len(t)
    BY <1>1, <1>3, <2>1 DEF ByteOf
  <2>2. CASE c # Len(t)
    <3>1. c < Len(t) /\ c + 1 \in 1..Len(t) /\ c \in Nat
      BY <1>1, <2>2
    <3>2. p[c + 1] \in Starts(b) /\ Cardinality({j \in Starts(b) : j < p[c + 1]}) = c
      BY <1>2, <1>4, <3>1
    <3>3. ASSUME NEW i \in Starts(b), Cardinality({j \in Starts(b) : j < i}) = c
          PROVE  i = p[c + 1]
      <4>1. PICK k \in 1..Len(t) : i = p[k]
        BY <1>2
      <4>2. k - 1 \in 0..Len(t) /\ (k - 1) + 1 = k
        BY <1>1
      <4>3. Cardinality({j \in Starts(b) : j < p[k]}) = k - 1
        BY <1>4, <4>2
      <4>4. k - 1 = c
        BY <3>3, <4>1, <4>3
      <4> QED BY <3>1, <4>1, <4>2, <4>4
    <3>4. (CHOOSE i \in Starts(b) : Cardinality({j \in Starts(b) : j < i}) = c) = p[c + 1]
      <4> DEFINE P(i) == i \in Starts(b) /\ Cardinality({j \in Starts(b) : j < i}) = c
      <4>1. P(CHOOSE i \in Starts(b) : Cardinality({j \in Starts(b) : j < i}) = c)
        BY <3>2
      <4> QED BY <3>3, <4>1
    <3>5. ~(c >= RuneCount(b))
      BY <1>3, <3>1
    <3> QED BY <3>4, <3>5 DEF ByteOf
  <2> QED BY <2>1, <2>2
<1> QED BY <1>3, <1>5

-----------------------------------------------------------------------------
(* What editing does to a text and its bytes.                              *)

LEMMA InsertIs ==
  ASSUME NEW S, NEW s \in Seq(S), NEW i \in 1..(Len(s) + 1), NEW e
  PROVE  /\ InsertAt(s, i, e) \in Seq(S \cup {e}) /\ Len(InsertAt(s, i, e)) = Len(s) + 1
         /\ \A k \in 1..(Len(s) + 1) :
              InsertAt(s, i, e)[k] = IF k < i THEN s[k] ELSE IF k = i THEN e ELSE s[k - 1]
<1> DEFINE x == SubSeq(s, 1, i - 1)
           y == SubSeq(s, i, Len(s))
<1>1. x \in Seq(S \cup {e}) /\ Len(x) = i - 1 /\ \A k \in 1..(i - 1) : x[k] = s[k]
  OBVIOUS
<1>2. y \in Seq(S \cup {e}) /\ Len(y) = Len(s) - i + 1 /\ \A k \in 1..(Len(s) - i + 1) : y[k] = s[i + k - 1]
  OBVIOUS
<1>3. InsertAt(s, i, e) = (x \o <<e>>) \o y
  BY DEF InsertAt
<1> HIDE DEF x, y
<1>4. /\ x \o <<e>> \in Seq(S \cup {e}) /\ Len(x \o <<e>>) = i
      /\ \A k \in 1..i : (x \o <<e>>)[k] = IF k < i THEN s[k] ELSE e
  BY <1>1
<1> DEFINE z == x \o <<e>>
<1> HIDE DEF z
<1>5. z \in Seq(S \cup {e}) /\ Len(z) = i /\ \A k \in 1..i : z[k] = IF k < i THEN s[k] ELSE e
  BY <1>4 DEF z
<1>6. InsertAt(s, i, e) = z \o y
  BY <1>3 DEF z
<1> DEFINE w == z \o y
<1>7. Joined(z, y, w) /\ w \in Seq(S \cup {e})
  BY <1>2, <1>5, JoinIs
<1> HIDE DEF w
<1>8. ASSUME NEW k \in 1..(Len(s) + 1)
      PROVE  w[k] = IF k < i THEN s[k] ELSE IF k = i THEN e ELSE s[k - 1]
  <2>1. CASE k <= i
    <3>1. k \in 1..i
      BY <2>1
    <3> QED BY <1>5, <1>7, <3>1 DEF Joined
  <2>2. CASE ~(k <= i)
    <3>1. k - i \in 1..(Len(s) - i + 1) /\ i + (k - i) = k /\ i + (k - i) - 1 = k - 1
      BY <2>2
    <3>2. w[i + (k - i)] = y[k - i]
      BY <1>2, <1>5, <1>7, <3>1 DEF Joined
    <3>3. y[k - i] = s[k - 1]
      BY <1>2, <3>1
    <3>4. k # i
      BY <2>2
    <3> QED BY <2>2, <3>1, <3>2, <3>3, <3>4
  <2> QED BY <2>1, <2>2
<1>9. Len(w) = Len(s) + 1
  BY <1>2, <1>5, <1>7 DEF Joined
<1> QED BY <1>6, <1>7, <1>8, <1>9 DEF w

\* s without the places from i up to j.
Cut(s, i, j) == SubSeq(s, 1, i - 1) \o SubSeq(s, j, Len(s))

LEMMA CutIs ==
  ASSUME NEW S, NEW s \in Seq(S), NEW i \in 1..Len(s), NEW j \in 1..(Len(s) + 1), i < j
  PROVE  /\ Cut(s, i, j) \in Seq(S) /\ Len(Cut(s, i, j)) = Len(s) - (j - i)
         /\ \A k \in 1..(Len(s) - (j - i)) : Cut(s, i, j)[k] = IF k < i THEN s[k] ELSE s[k + (j - i)]
<1> DEFINE x == SubSeq(s, 1, i - 1)
           y == SubSeq(s, j, Len(s))
<1>1. x \in Seq(S) /\ Len(x) = i - 1 /\ \A k \in 1..(i - 1) : x[k] = s[k]
  OBVIOUS
<1>2. y \in Seq(S) /\ Len(y) = Len(s) - j + 1 /\ \A k \in 1..(Len(s) - j + 1) : y[k] = s[j + k - 1]
  OBVIOUS
<1> HIDE DEF x, y
<1>3. Joined(x, y, x \o y) /\ x \o y \in Seq(S)
  BY <1>1, <1>2, JoinIs
<1>4. ASSUME NEW k \in 1..(Len(s) - (j - i))
      PROVE  (x \o y)[k] = IF k < i THEN s[k] ELSE s[k + (j - i)]
  <2>1. CASE k < i
    <3>1. k \in 1..(i - 1)
      BY <2>1
    <3> QED BY <1>1, <1>3, <2>1, <3>1 DEF Joined
  <2>2. CASE ~(k < i)
    <3>1. /\ k - (i - 1) \in 1..(Len(s) - j + 1) /\ j + (k - (i - 1)) - 1 = k + (j - i)
          /\ (i - 1) + (k - (i - 1)) = k
      BY <2>2
    <3>2. (x \o y)[(i - 1) + (k - (i - 1))] = y[k - (i - 1)]
      BY <1>1, <1>2, <1>3, <3>1 DEF Joined
    <3> QED BY <1>2, <2>2, <3>1, <3>2
  <2> QED BY <2>1, <2>2
<1>5. Len(x \o y) = Len(s) - (j - i)
  BY <1>1, <1>2, <1>3 DEF Joined
<1> QED BY <1>3, <1>4, <1>5 DEF x, y, Cut

LEMMA RemoveIs ==
  ASSUME NEW t \in Seq(Chars), NEW c \in 1..Len(t)
  PROVE  /\ RemoveAt(t, c) \in Seq(Chars) /\ Len(RemoveAt(t, c)) = Len(t) - 1
         /\ \A k \in 1..(Len(t) - 1) : RemoveAt(t, c)[k] = IF k < c THEN t[k] ELSE t[k + 1]
<1>1. c + 1 \in 1..(Len(t) + 1) /\ c < c + 1 /\ (c + 1) - c = 1
  OBVIOUS
<1>2. RemoveAt(t, c) = Cut(t, c, c + 1)
  BY DEF RemoveAt, Cut
<1> DEFINE r == Cut(t, c, c + 1)
<1>3. /\ r \in Seq(Chars) /\ Len(r) = Len(t) - ((c + 1) - c)
      /\ \A k \in 1..(Len(t) - ((c + 1) - c)) : r[k] = IF k < c THEN t[k] ELSE t[k + ((c + 1) - c)]
  BY <1>1, CutIs
<1> HIDE DEF r
<1> QED BY <1>1, <1>2, <1>3 DEF r

\* What Places says, one character at a time.
LEMMA PlacesAre ==
  ASSUME NEW t \in Seq(Chars), NEW b, NEW p, Places(b, t, p), NEW S, b \in Seq(S)
  PROVE  /\ Len(t) \in Nat /\ Len(b) \in Nat /\ Len(b) = p[Len(t) + 1] - 1 /\ p[1] = 1
         /\ \A j \in 1..(Len(t) + 1) : p[j] \in 1..(Len(b) + 1)
         /\ \A j \in 1..Len(t) :
              /\ p[j + 1] = p[j] + Width(t[j]) /\ Width(t[j]) \in {1, 2} /\ t[j] \in Chars
              /\ b[p[j]] = IF t[j] = "wide" THEN "w1" ELSE t[j]
              /\ t[j] = "wide" => b[p[j] + 1] = "w2"
<1>1. /\ Len(t) \in Nat /\ Len(b) \in Nat /\ Len(b) = p[Len(t) + 1] - 1 /\ p[1] = 1
  BY DEF Places
<1>2. ASSUME NEW j \in 1..(Len(t) + 1)  PROVE p[j] \in 1..(Len(b) + 1)
  <2>1. p[j] \in Nat /\ p[j] >= j /\ Len(t) + 1 \in 1..(Len(t) + 1) /\ p[Len(t) + 1] \in Nat
    BY <1>1, PlacesGrow
  <2>2. j < Len(t) + 1 => p[j] < p[Len(t) + 1]
    BY <2>1, PlacesGrow
  <2>3. j < Len(t) + 1 \/ j = Len(t) + 1
    BY <1>1
  <2> QED BY <1>1, <2>1, <2>2, <2>3
<1>3. ASSUME NEW j \in 1..Len(t)
      PROVE  /\ p[j + 1] = p[j] + Width(t[j]) /\ Width(t[j]) \in {1, 2} /\ t[j] \in Chars
             /\ b[p[j]] = IF t[j] = "wide" THEN "w1" ELSE t[j]
             /\ t[j] = "wide" => b[p[j] + 1] = "w2"
  BY DEF Places, Width
<1> QED BY <1>1, <1>2, <1>3

\* Two bytes before a place, two after one, and before and after a cut.
LEMMA TwoBefore ==
  ASSUME NEW x \in Nat, NEW y \in Nat, NEW l \in Nat, x >= 1, y <= l + 1, x + 2 <= y
  PROVE  x + 1 < y /\ x + 1 \in 1..(l + 1)
OBVIOUS

LEMMA TwoAfter ==
  ASSUME NEW x \in Nat, NEW y \in Nat, NEW l \in Nat, y >= 1, y <= x, x + 2 <= l + 1
  PROVE  x + 2 \in 1..(l + 1) /\ ~(x + 2 < y) /\ x + 2 # y /\ (x + 2) - 1 = x + 1
OBVIOUS

LEMMA BeforeCut ==
  ASSUME NEW x \in Nat, NEW y \in Nat, NEW w \in Nat, NEW l \in Nat, x >= 1, x + 1 <= y, y + w <= l + 1
  PROVE  x < y /\ x \in 1..(l - w)
OBVIOUS

LEMMA AfterCut ==
  ASSUME NEW x \in Nat, NEW y \in Nat, NEW w \in Nat, NEW l \in Nat, y >= 1, y + w <= x, x + 1 <= l
  PROVE  ~((x - w) + 1 < y) /\ (x - w) + 1 \in 1..(l - w) /\ ((x - w) + 1) + w = x + 1
OBVIOUS

LEMMA InsertCodes ==
  ASSUME NEW t \in Seq(Chars), NEW S, NEW b \in Seq(S), NEW p, Places(b, t, p),
         NEW c \in 0..Len(t), NEW n \in Chars \ {"wide"}
  PROVE  Coded(InsertAt(b, p[c + 1], n), InsertAt(t, c + 1, n))
<1> DEFINE u == InsertAt(t, c + 1, n)
           a == InsertAt(b, p[c + 1], n)
           q == [j \in 1..(Len(t) + 2) |-> IF j <= c + 1 THEN p[j] ELSE p[j - 1] + 1]
<1>1. /\ Len(t) \in Nat /\ Len(b) \in Nat /\ Len(b) = p[Len(t) + 1] - 1 /\ p[1] = 1
      /\ \A j \in 1..(Len(t) + 1) : p[j] \in 1..(Len(b) + 1)
      /\ \A j \in 1..Len(t) :
           /\ p[j + 1] = p[j] + Width(t[j]) /\ Width(t[j]) \in {1, 2} /\ t[j] \in Chars
           /\ b[p[j]] = IF t[j] = "wide" THEN "w1" ELSE t[j]
           /\ t[j] = "wide" => b[p[j] + 1] = "w2"
  BY PlacesAre
<1>0. Len(t) \in Nat /\ Len(b) \in Nat
  BY <1>1
<1>2. c + 1 \in 1..(Len(t) + 1) /\ p[c + 1] \in 1..(Len(b) + 1) /\ c \in Nat
  <2>1. c + 1 \in 1..(Len(t) + 1) /\ c \in Nat
    BY <1>1
  <2> QED BY <1>1, <2>1
<1>3. /\ u \in Seq(Chars \cup {n}) /\ Len(u) = Len(t) + 1
      /\ \A k \in 1..(Len(t) + 1) : u[k] = IF k < c + 1 THEN t[k] ELSE IF k = c + 1 THEN n ELSE t[k - 1]
  BY <1>2, InsertIs
<1>4. /\ a \in Seq(S \cup {n}) /\ Len(a) = Len(b) + 1
      /\ \A k \in 1..(Len(b) + 1) : a[k] = IF k < p[c + 1] THEN b[k] ELSE IF k = p[c + 1] THEN n ELSE b[k - 1]
  <2> DEFINE at == p[c + 1]
  <2>1. at \in 1..(Len(b) + 1) /\ a = InsertAt(b, at, n)
    BY <1>2
  <2> HIDE DEF at, a
  <2>2. /\ a \in Seq(S \cup {n}) /\ Len(a) = Len(b) + 1
        /\ \A k \in 1..(Len(b) + 1) : a[k] = IF k < at THEN b[k] ELSE IF k = at THEN n ELSE b[k - 1]
    BY <2>1, InsertIs
  <2> QED BY <2>2 DEF at
<1>5. \A j \in 1..(Len(t) + 1) : /\ j < c + 1 => p[j] < p[c + 1]
                                 /\ j > c + 1 => p[j] > p[c + 1]
  BY <1>2, PlacesGrow
<1>6. /\ q \in [1..(Len(t) + 2) -> Nat] /\ q[1] = 1
      /\ \A j \in 1..(Len(t) + 2) : q[j] = IF j <= c + 1 THEN p[j] ELSE p[j - 1] + 1
  <2>1. ASSUME NEW j \in 1..(Len(t) + 2)  PROVE (IF j <= c + 1 THEN p[j] ELSE p[j - 1] + 1) \in Nat
    <3>1. CASE j <= c + 1
      BY <1>1, <1>2, <3>1
    <3>2. CASE ~(j <= c + 1)
      <4>1. j - 1 \in 1..(Len(t) + 1)
        BY <1>1, <1>2, <3>2
      <4> QED BY <1>1, <3>2, <4>1
    <3> QED BY <3>1, <3>2
  <2> QED BY <1>1, <1>2, <2>1
<1> HIDE DEF u, a, q, Width
<1>7. Len(a) = q[Len(u) + 1] - 1
  <2>1. /\ Len(u) + 1 = Len(t) + 2 /\ Len(t) + 2 \in 1..(Len(t) + 2) /\ ~(Len(t) + 2 <= c + 1)
        /\ (Len(t) + 2) - 1 = Len(t) + 1 /\ Len(t) + 1 \in 1..(Len(t) + 1)
    BY <1>1, <1>2, <1>3
  <2>2. q[Len(t) + 2] = p[Len(t) + 1] + 1 /\ p[Len(t) + 1] \in Nat
    BY <1>1, <1>6, <2>1
  <2>3. Len(b) = p[Len(t) + 1] - 1 /\ Len(a) = Len(b) + 1
    BY <1>1, <1>4
  <2>4. Len(a) = p[Len(t) + 1]
    BY <2>2, <2>3
  <2>5. q[Len(t) + 2] - 1 = p[Len(t) + 1]
    BY <2>2
  <2> QED BY <2>1, <2>4, <2>5
<1>8. ASSUME NEW j \in 1..Len(u)
      PROVE  /\ q[j + 1] = q[j] + Width(u[j])
             /\ a[q[j]] = IF u[j] = "wide" THEN "w1" ELSE u[j]
             /\ u[j] = "wide" => a[q[j] + 1] = "w2"
  <2>1. j \in 1..(Len(t) + 1) /\ j \in 1..(Len(t) + 2) /\ j + 1 \in 1..(Len(t) + 2)
    BY <1>1, <1>3
  <2>2. CASE j < c + 1
    <3>1. j \in 1..Len(t) /\ j + 1 \in 1..(Len(t) + 1) /\ u[j] = t[j] /\ q[j] = p[j] /\ q[j + 1] = p[j + 1]
      BY <1>1, <1>2, <1>3, <1>6, <2>1, <2>2
    <3>2. p[j] < p[c + 1] /\ p[j + 1] <= p[c + 1] /\ p[j] \in 1..(Len(b) + 1) /\ p[j + 1] \in 1..(Len(b) + 1)
      <4>1. p[j] \in 1..(Len(b) + 1) /\ p[j + 1] \in 1..(Len(b) + 1)
        BY <1>1, <2>1, <3>1
      <4>2. p[j] < p[c + 1] /\ (j + 1 < c + 1 => p[j + 1] < p[c + 1])
        BY <1>5, <2>1, <2>2, <3>1
      <4>3. j + 1 < c + 1 \/ j + 1 = c + 1
        BY <1>2, <2>1, <2>2
      <4> QED BY <1>2, <4>1, <4>2, <4>3
    <3>3. p[j + 1] = p[j] + Width(t[j])
      BY <1>1, <3>1
    <3>4. a[p[j]] = b[p[j]]
      BY <1>2, <1>4, <3>2
    <3>5. t[j] = "wide" => a[p[j] + 1] = b[p[j] + 1]
      <4> SUFFICES ASSUME t[j] = "wide"  PROVE a[p[j] + 1] = b[p[j] + 1]
        OBVIOUS
      <4>1. p[j] + 1 < p[c + 1] /\ p[j] + 1 \in 1..(Len(b) + 1)
        <5>1. Width(t[j]) = 2
          BY DEF Width
        <5>2. p[j] \in Nat /\ p[j] >= 1 /\ p[c + 1] \in Nat /\ Len(b) \in Nat /\ p[c + 1] <= Len(b) + 1
          BY <1>1, <1>2, <3>2
        <5>3. p[j] + 2 <= p[c + 1]
          BY <3>2, <3>3, <5>1
        <5> QED BY <5>2, <5>3, TwoBefore
      <4> QED BY <1>4, <4>1
    <3> QED BY <1>1, <3>1, <3>3, <3>4, <3>5
  <2>3. CASE j = c + 1
    <3>1. u[j] = n /\ n # "wide" /\ q[j] = p[c + 1] /\ q[j + 1] = p[c + 1] + 1
      BY <1>1, <1>2, <1>3, <1>6, <2>1, <2>3
    <3>2. a[p[c + 1]] = n
      BY <1>2, <1>4
    <3> QED BY <3>1, <3>2 DEF Width
  <2>4. CASE j > c + 1
    <3> DEFINE i == j - 1
    <3>1. i \in 1..Len(t) /\ i + 1 = j /\ u[j] = t[i] /\ q[j] = p[i] + 1 /\ q[j + 1] = p[i + 1] + 1 /\ i >= c + 1
      BY <1>1, <1>2, <1>3, <1>6, <2>1, <2>4
    <3> HIDE DEF i
    <3>2. p[i] >= p[c + 1] /\ p[i] \in 1..(Len(b) + 1) /\ p[i + 1] \in 1..(Len(b) + 1)
      <4>1. i \in 1..(Len(t) + 1) /\ i + 1 \in 1..(Len(t) + 1) /\ (i > c + 1 \/ i = c + 1)
        BY <1>1, <1>2, <3>1
      <4>2. p[i] \in 1..(Len(b) + 1) /\ p[i + 1] \in 1..(Len(b) + 1)
        BY <1>1, <4>1
      <4>3. i > c + 1 => p[i] > p[c + 1]
        BY <1>5, <4>1
      <4> QED BY <1>2, <4>1, <4>2, <4>3
    <3>3. p[i + 1] = p[i] + Width(t[i]) /\ Width(t[i]) \in {1, 2}
      BY <1>1, <3>1
    <3>4. a[p[i] + 1] = b[p[i]]
      <4>1. p[i] + 1 \in 1..(Len(b) + 1) /\ ~(p[i] + 1 < p[c + 1]) /\ p[i] + 1 # p[c + 1] /\ (p[i] + 1) - 1 = p[i]
        <5>1. Width(t[i]) = 1 \/ Width(t[i]) = 2
          BY <3>3
        <5>2. p[i] + 1 <= Len(b) + 1
          BY <1>0, <3>2, <3>3, <5>1
        <5> QED BY <1>2, <3>2, <5>2
      <4> QED BY <1>4, <4>1
    <3>5. t[i] = "wide" => a[p[i] + 2] = b[p[i] + 1]
      <4> SUFFICES ASSUME t[i] = "wide"  PROVE a[p[i] + 2] = b[p[i] + 1]
        OBVIOUS
      <4>1. p[i] + 2 \in 1..(Len(b) + 1) /\ ~(p[i] + 2 < p[c + 1]) /\ p[i] + 2 # p[c + 1] /\ (p[i] + 2) - 1 = p[i] + 1
        <5>1. Width(t[i]) = 2
          BY DEF Width
        <5>2. p[i] \in Nat /\ p[c + 1] \in Nat /\ Len(b) \in Nat /\ p[c + 1] >= 1 /\ p[c + 1] <= p[i]
          BY <1>1, <1>2, <3>2
        <5>3. p[i] + 2 <= Len(b) + 1
          BY <3>2, <3>3, <5>1
        <5> QED BY <5>2, <5>3, TwoAfter
      <4> QED BY <1>4, <4>1
    <3>6. q[j] + 1 = p[i] + 2 /\ q[j + 1] = q[j] + Width(u[j])
      <4>1. p[i] \in Nat /\ (Width(t[i]) = 1 \/ Width(t[i]) = 2)
        BY <3>2, <3>3
      <4>2. (p[i] + Width(t[i])) + 1 = (p[i] + 1) + Width(t[i]) /\ (p[i] + 1) + 1 = p[i] + 2
        BY <4>1
      <4> QED BY <3>1, <3>3, <4>2
    <3> QED BY <1>1, <3>1, <3>4, <3>5, <3>6
  <2> QED BY <1>2, <2>1, <2>2, <2>3, <2>4
<1>9. Places(a, u, q)
  <2>1. Len(u) + 1 = Len(t) + 2
    BY <1>1, <1>3
  <2> QED BY <1>6, <1>7, <1>8, <2>1 DEF Places
<1> QED BY <1>4, <1>9 DEF Coded, a, u

\* The second byte of a wide character completes the first.
LEMMA SecondCodes ==
  ASSUME NEW t \in Seq(Chars), NEW S, NEW b \in Seq(S), NEW p, Places(b, t, p),
         NEW c \in 1..Len(t), t[c] = "w1"
  PROVE  Coded(InsertAt(b, p[c + 1], "w2"), [t EXCEPT ![c] = "wide"])
<1> DEFINE u == [t EXCEPT ![c] = "wide"]
           at == p[c + 1]
           a == InsertAt(b, at, "w2")
           q == [j \in 1..(Len(t) + 1) |-> IF j <= c THEN p[j] ELSE p[j] + 1]
<1>1. /\ Len(t) \in Nat /\ Len(b) \in Nat /\ Len(b) = p[Len(t) + 1] - 1 /\ p[1] = 1
      /\ \A j \in 1..(Len(t) + 1) : p[j] \in 1..(Len(b) + 1)
      /\ \A j \in 1..Len(t) :
           /\ p[j + 1] = p[j] + Width(t[j]) /\ Width(t[j]) \in {1, 2} /\ t[j] \in Chars
           /\ b[p[j]] = IF t[j] = "wide" THEN "w1" ELSE t[j]
           /\ t[j] = "wide" => b[p[j] + 1] = "w2"
  BY PlacesAre
<1>0. Len(t) \in Nat /\ Len(b) \in Nat
  BY <1>1
<1>2. c + 1 \in 1..(Len(t) + 1) /\ at \in 1..(Len(b) + 1) /\ c \in Nat \ {0}
  <2>1. c + 1 \in 1..(Len(t) + 1) /\ c \in Nat \ {0}
    BY <1>1
  <2> QED BY <1>1, <2>1
<1>3. Len(u) = Len(t) /\ \A k \in 1..Len(t) : u[k] = IF k = c THEN "wide" ELSE t[k]
  OBVIOUS
<1>4. \A j \in 1..(Len(t) + 1) : /\ j < c + 1 => p[j] < at
                                 /\ j > c + 1 => p[j] > at
  BY <1>2, PlacesGrow
<1>5. /\ q \in [1..(Len(t) + 1) -> Nat] /\ q[1] = 1
      /\ \A j \in 1..(Len(t) + 1) : q[j] = IF j <= c THEN p[j] ELSE p[j] + 1
  <2>1. \A j \in 1..(Len(t) + 1) : p[j] \in Nat
    BY <1>1
  <2>2. 1 \in 1..(Len(t) + 1) /\ 1 <= c
    BY <1>0, <1>2
  <2> QED BY <1>1, <2>1, <2>2
<1>6. at = p[c] + 1 /\ b[p[c]] = "w1"
  <2>1. Width(t[c]) = 1
    BY DEF Width
  <2> QED BY <1>1, <2>1
<1> HIDE DEF u, a, q, Width, at
<1>7. /\ a \in Seq(S \cup {"w2"}) /\ Len(a) = Len(b) + 1
      /\ \A k \in 1..(Len(b) + 1) : a[k] = IF k < at THEN b[k] ELSE IF k = at THEN "w2" ELSE b[k - 1]
  <2>1. a = InsertAt(b, at, "w2")
    BY DEF a
  <2> QED BY <1>2, <2>1, InsertIs
<1>8. Len(a) = q[Len(u) + 1] - 1
  <2>1. Len(u) + 1 = Len(t) + 1 /\ Len(t) + 1 \in 1..(Len(t) + 1) /\ ~(Len(t) + 1 <= c)
    BY <1>1, <1>2, <1>3
  <2>2. q[Len(t) + 1] = p[Len(t) + 1] + 1 /\ p[Len(t) + 1] \in Nat
    BY <1>1, <1>5, <2>1
  <2>3. Len(b) = p[Len(t) + 1] - 1 /\ Len(a) = Len(b) + 1
    BY <1>1, <1>7
  <2>4. Len(a) = p[Len(t) + 1]
    BY <2>2, <2>3
  <2>5. q[Len(t) + 1] - 1 = p[Len(t) + 1]
    BY <2>2
  <2> QED BY <2>1, <2>4, <2>5
<1>9. ASSUME NEW j \in 1..Len(u)
      PROVE  /\ q[j + 1] = q[j] + Width(u[j])
             /\ a[q[j]] = IF u[j] = "wide" THEN "w1" ELSE u[j]
             /\ u[j] = "wide" => a[q[j] + 1] = "w2"
  <2>1. j \in 1..Len(t) /\ j \in 1..(Len(t) + 1) /\ j + 1 \in 1..(Len(t) + 1)
    BY <1>1, <1>3
  <2>2. /\ p[j] \in 1..(Len(b) + 1) /\ p[j + 1] \in 1..(Len(b) + 1)
        /\ p[j + 1] = p[j] + Width(t[j]) /\ (Width(t[j]) = 1 \/ Width(t[j]) = 2)
    BY <1>1, <2>1
  <2>3. CASE j < c
    <3>1. u[j] = t[j] /\ q[j] = p[j] /\ q[j + 1] = p[j + 1]
      BY <1>2, <1>3, <1>5, <2>1, <2>3
    <3>2. p[j + 1] < at
      BY <1>2, <1>4, <2>1, <2>3
    <3>3. a[p[j]] = b[p[j]]
      BY <1>2, <1>7, <2>2, <3>2
    <3>4. t[j] = "wide" => a[p[j] + 1] = b[p[j] + 1]
      <4> SUFFICES ASSUME t[j] = "wide"  PROVE a[p[j] + 1] = b[p[j] + 1]
        OBVIOUS
      <4>1. p[j] + 1 < at /\ p[j] + 1 \in 1..(Len(b) + 1)
        BY <1>2, <2>2, <3>2
      <4> QED BY <1>7, <4>1
    <3> QED BY <1>1, <2>1, <2>2, <3>1, <3>3, <3>4
  <2>4. CASE j = c
    <3>1. u[j] = "wide" /\ q[j] = p[c] /\ q[j + 1] = at + 1
      <4>1. j <= c /\ ~(j + 1 <= c)
        BY <1>2, <2>4
      <4> QED BY <1>3, <1>5, <2>1, <2>4, <4>1 DEF at
    <3>2. a[p[c]] = "w1"
      <4>1. p[c] < at /\ p[c] \in 1..(Len(b) + 1)
        BY <1>6, <2>2, <2>4
      <4> QED BY <1>6, <1>7, <4>1
    <3>3. a[p[c] + 1] = "w2"
      <4>1. a[at] = "w2"
        BY <1>2, <1>7
      <4> QED BY <1>6, <4>1
    <3>4. at + 1 = p[c] + 2
      BY <1>6, <2>2, <2>4
    <3> QED BY <3>1, <3>2, <3>3, <3>4 DEF Width
  <2>5. CASE j > c
    <3>1. u[j] = t[j] /\ q[j] = p[j] + 1 /\ q[j + 1] = p[j + 1] + 1
      BY <1>2, <1>3, <1>5, <2>1, <2>5
    <3>2. p[j] >= at
      BY <1>2, <1>4, <2>1, <2>2, <2>5 DEF at
    <3>3. a[p[j] + 1] = b[p[j]]
      <4>1. p[j] + 1 \in 1..(Len(b) + 1) /\ ~(p[j] + 1 < at) /\ p[j] + 1 # at /\ (p[j] + 1) - 1 = p[j]
        <5>1. p[j] <= Len(b) /\ p[j] \in Nat /\ p[j] >= 1
          BY <1>0, <2>2
        <5> QED BY <1>0, <1>2, <3>2, <5>1
      <4> QED BY <1>7, <4>1
    <3>4. t[j] = "wide" => a[p[j] + 2] = b[p[j] + 1]
      <4> SUFFICES ASSUME t[j] = "wide"  PROVE a[p[j] + 2] = b[p[j] + 1]
        OBVIOUS
      <4>1. Width(t[j]) = 2
        BY DEF Width
      <4>2. p[j] + 2 \in 1..(Len(b) + 1) /\ ~(p[j] + 2 < at) /\ p[j] + 2 # at /\ (p[j] + 2) - 1 = p[j] + 1
        <5>1. p[j] \in Nat /\ at \in Nat /\ Len(b) \in Nat /\ at >= 1 /\ at <= p[j]
          BY <1>0, <1>2, <2>2, <3>2
        <5>2. p[j] + 2 <= Len(b) + 1
          BY <1>0, <2>2, <4>1
        <5> QED BY <5>1, <5>2, TwoAfter
      <4> QED BY <1>7, <4>2
    <3>5. q[j] + 1 = p[j] + 2 /\ q[j + 1] = q[j] + Width(u[j])
      <4>1. p[j] \in Nat /\ Width(t[j]) \in Nat
        BY <1>0, <2>2
      <4>2. (p[j] + 1) + 1 = p[j] + 2 /\ (p[j] + Width(t[j])) + 1 = (p[j] + 1) + Width(t[j])
        BY <4>1
      <4> QED BY <2>2, <3>1, <4>2
    <3> QED BY <1>1, <2>1, <3>1, <3>3, <3>4, <3>5
  <2> QED BY <1>2, <2>1, <2>3, <2>4, <2>5
<1>10. Places(a, u, q)
  BY <1>3, <1>5, <1>8, <1>9 DEF Places
<1> QED BY <1>7, <1>10 DEF Coded, a, u, at

LEMMA RemoveCodes ==
  ASSUME NEW t \in Seq(Chars), NEW S, NEW b \in Seq(S), NEW p, Places(b, t, p),
         NEW c \in 1..Len(t)
  PROVE  Coded(SubSeq(b, 1, p[c] - 1) \o SubSeq(b, p[c + 1], Len(b)), RemoveAt(t, c))
<1> DEFINE u == RemoveAt(t, c)
           from == p[c]
           to == p[c + 1]
           a == SubSeq(b, 1, from - 1) \o SubSeq(b, to, Len(b))
           w == to - from
           q == [j \in 1..Len(t) |-> IF j <= c THEN p[j] ELSE p[j + 1] - w]
<1>1. /\ Len(t) \in Nat /\ Len(b) \in Nat /\ Len(b) = p[Len(t) + 1] - 1 /\ p[1] = 1
      /\ \A j \in 1..(Len(t) + 1) : p[j] \in 1..(Len(b) + 1)
      /\ \A j \in 1..Len(t) :
           /\ p[j + 1] = p[j] + Width(t[j]) /\ Width(t[j]) \in {1, 2} /\ t[j] \in Chars
           /\ b[p[j]] = IF t[j] = "wide" THEN "w1" ELSE t[j]
           /\ t[j] = "wide" => b[p[j] + 1] = "w2"
  BY PlacesAre
<1>0. Len(t) \in Nat /\ Len(b) \in Nat
  BY <1>1
<1>2. /\ c + 1 \in 1..(Len(t) + 1) /\ c \in Nat \ {0} /\ c \in 1..(Len(t) + 1)
      /\ from \in 1..Len(b) /\ to \in 1..(Len(b) + 1) /\ from < to /\ w \in {1, 2}
  <2>1. c + 1 \in 1..(Len(t) + 1) /\ c \in Nat \ {0} /\ c \in 1..(Len(t) + 1)
    BY <1>1
  <2>2. from \in 1..(Len(b) + 1) /\ to \in 1..(Len(b) + 1) /\ to = from + Width(t[c]) /\ Width(t[c]) \in {1, 2}
    BY <1>1, <2>1
  <2> HIDE DEF from, to, Width
  <2> QED BY <1>1, <2>1, <2>2
<1>4. \A j \in 1..(Len(t) + 1) : /\ j < c => p[j] < from
                                 /\ j > c + 1 => p[j] > to
  BY <1>2, PlacesGrow
<1>5. /\ q \in [1..Len(t) -> Nat] /\ q[1] = 1
      /\ \A j \in 1..Len(t) : q[j] = IF j <= c THEN p[j] ELSE p[j + 1] - w
  <2>1. ASSUME NEW j \in 1..Len(t)  PROVE (IF j <= c THEN p[j] ELSE p[j + 1] - w) \in Nat
    <3>1. j \in 1..(Len(t) + 1) /\ j + 1 \in 1..(Len(t) + 1)
      BY <1>1
    <3>2. p[j] \in 1..(Len(b) + 1) /\ p[j + 1] \in 1..(Len(b) + 1)
      BY <1>1, <3>1
    <3>3. j > c => p[j + 1] > to
      BY <1>2, <1>4, <3>1
    <3> HIDE DEF from, to, w
    <3>4. CASE j <= c
      BY <3>2, <3>4
    <3>5. CASE ~(j <= c)
      <4>1. p[j + 1] > to /\ to > w
        BY <1>2, <3>1, <3>3, <3>5 DEF w
      <4> QED BY <1>2, <3>2, <3>5, <4>1
    <3> QED BY <3>4, <3>5
  <2>2. 1 \in 1..Len(t) /\ 1 <= c
    BY <1>1, <1>2
  <2> QED BY <1>1, <2>1, <2>2
<1>6. /\ u \in Seq(Chars) /\ Len(u) = Len(t) - 1
      /\ \A k \in 1..(Len(t) - 1) : u[k] = IF k < c THEN t[k] ELSE t[k + 1]
  BY RemoveIs
<1> HIDE DEF u, a, q, Width, from, to
<1>7. /\ a \in Seq(S) /\ Len(a) = Len(b) - w
      /\ \A k \in 1..(Len(b) - w) : a[k] = IF k < from THEN b[k] ELSE b[k + w]
  <2>1. a = Cut(b, from, to)
    BY DEF a, Cut
  <2>2. /\ Cut(b, from, to) \in Seq(S) /\ Len(Cut(b, from, to)) = Len(b) - (to - from)
        /\ \A k \in 1..(Len(b) - (to - from)) : Cut(b, from, to)[k] = IF k < from THEN b[k] ELSE b[k + (to - from)]
    <3>1. from \in 1..Len(b) /\ to \in 1..(Len(b) + 1) /\ from < to
      BY <1>2
    <3> QED BY <3>1, CutIs
  <2> QED BY <2>1, <2>2
<1> HIDE DEF w
<1>71. /\ from \in Nat /\ to \in Nat /\ w \in Nat /\ Len(b) \in Nat /\ w >= 1 /\ from >= 1
       /\ to = from + w /\ to <= Len(b) + 1
  BY <1>0, <1>2 DEF w
<1>8. Len(a) = q[Len(u) + 1] - 1
  <2>1. Len(u) + 1 = Len(t) /\ Len(t) \in 1..Len(t) /\ Len(t) + 1 \in 1..(Len(t) + 1)
    BY <1>1, <1>2, <1>6
  <2>2. CASE Len(t) <= c
    <3>1. c = Len(t) /\ q[Len(t)] = from /\ to = p[Len(t) + 1]
      BY <1>2, <1>5, <2>1, <2>2 DEF from, to
    <3>2. Len(b) = to - 1 /\ Len(a) = Len(b) - w
      BY <1>1, <1>7, <3>1
    <3>3. Len(a) = from - 1
      BY <1>71, <3>2
    <3> QED BY <2>1, <3>1, <3>3
  <2>3. CASE ~(Len(t) <= c)
    <3>1. q[Len(t)] = p[Len(t) + 1] - w
      BY <1>5, <2>1, <2>3
    <3>2. p[Len(t) + 1] \in Nat
      BY <1>1, <2>1
    <3>3. Len(b) = p[Len(t) + 1] - 1 /\ Len(a) = Len(b) - w
      BY <1>1, <1>7
    <3>4. Len(a) = (p[Len(t) + 1] - w) - 1
      BY <1>71, <3>2, <3>3
    <3> QED BY <2>1, <3>1, <3>4
  <2> QED BY <2>2, <2>3
<1>9. ASSUME NEW j \in 1..Len(u)
      PROVE  /\ q[j + 1] = q[j] + Width(u[j])
             /\ a[q[j]] = IF u[j] = "wide" THEN "w1" ELSE u[j]
             /\ u[j] = "wide" => a[q[j] + 1] = "w2"
  <2>1. j \in 1..(Len(t) - 1) /\ j \in 1..Len(t) /\ j + 1 \in 1..Len(t) /\ j \in 1..(Len(t) + 1) /\ j + 1 \in 1..(Len(t) + 1)
        /\ (j + 1) + 1 \in 1..(Len(t) + 1)
    BY <1>1, <1>6
  <2>3. CASE j < c
    <3>1. u[j] = t[j] /\ q[j] = p[j] /\ q[j + 1] = p[j + 1]
      <4>1. j <= c /\ j + 1 <= c
        BY <1>2, <2>1, <2>3
      <4> QED BY <1>5, <1>6, <2>1, <2>3, <4>1
    <3>2. /\ p[j] \in 1..(Len(b) + 1) /\ p[j + 1] \in 1..(Len(b) + 1)
          /\ p[j + 1] = p[j] + Width(t[j]) /\ (Width(t[j]) = 1 \/ Width(t[j]) = 2)
      BY <1>1, <2>1
    <3>3. p[j + 1] <= from
      <4>1. j + 1 < c \/ j + 1 = c
        BY <1>2, <2>1, <2>3
      <4>2. j + 1 < c => p[j + 1] < from
        BY <1>4, <2>1
      <4> QED BY <1>2, <3>2, <4>1, <4>2 DEF from
    <3>4. a[p[j]] = b[p[j]]
      <4>1. p[j] < from /\ p[j] \in 1..(Len(b) - w)
        <5>1. p[j] \in Nat /\ p[j] >= 1 /\ p[j] + 1 <= from
          BY <1>0, <1>71, <3>2, <3>3
        <5>2. from + w <= Len(b) + 1
          BY <1>71
        <5> QED BY <1>71, <5>1, <5>2, BeforeCut
      <4> QED BY <1>7, <4>1
    <3>5. t[j] = "wide" => a[p[j] + 1] = b[p[j] + 1]
      <4> SUFFICES ASSUME t[j] = "wide"  PROVE a[p[j] + 1] = b[p[j] + 1]
        OBVIOUS
      <4>1. Width(t[j]) = 2
        BY DEF Width
      <4>2. p[j] + 1 < from /\ p[j] + 1 \in 1..(Len(b) - w)
        <5>1. p[j] \in Nat /\ p[j] >= 1 /\ p[j] + 2 <= from
          BY <1>0, <1>71, <3>2, <3>3, <4>1
        <5>2. p[j] + 1 \in Nat /\ p[j] + 1 >= 1 /\ (p[j] + 1) + 1 = p[j] + 2
          BY <5>1
        <5>3. from + w <= Len(b) + 1
          BY <1>71
        <5> QED BY <1>71, <5>1, <5>2, <5>3, BeforeCut
      <4> QED BY <1>7, <4>2
    <3> QED BY <1>1, <2>1, <3>1, <3>2, <3>4, <3>5
  <2>4. CASE j >= c
    <3> DEFINE i == j + 1
    <3>1. i \in 1..Len(t) /\ i > c /\ u[j] = t[i] /\ q[j] = p[i] - w /\ q[j + 1] = p[i + 1] - w
      <4>1. ~(j < c) /\ ~(j + 1 <= c) /\ j + 1 > c
        BY <1>2, <2>1, <2>4
      <4>2. u[j] = t[j + 1] /\ q[j + 1] = p[(j + 1) + 1] - w
        BY <1>5, <1>6, <2>1, <4>1
      <4>3. q[j] = p[j + 1] - w
        <5>1. CASE j = c
          <6>1. q[j] = from /\ p[j + 1] = to
            BY <1>5, <2>1, <5>1 DEF from, to
          <6> QED BY <1>2, <1>71, <6>1
        <5>2. CASE j # c
          <6>1. ~(j <= c)
            BY <1>2, <2>1, <2>4, <5>2
          <6> QED BY <1>5, <2>1, <6>1
        <5> QED BY <5>1, <5>2
      <4> QED BY <2>1, <4>1, <4>2, <4>3
    <3>2. /\ p[i] \in 1..(Len(b) + 1) /\ p[i + 1] \in 1..(Len(b) + 1)
          /\ p[i + 1] = p[i] + Width(t[i]) /\ (Width(t[i]) = 1 \/ Width(t[i]) = 2)
      BY <1>1, <2>1, <3>1
    <3>3. p[i] >= to
      <4>1. i > c + 1 \/ i = c + 1
        BY <1>2, <2>1, <3>1
      <4>2. i > c + 1 => p[i] > to
        BY <1>4, <2>1
      <4> QED BY <1>2, <3>2, <4>1, <4>2 DEF to
    <3> HIDE DEF i
    <3>4. a[p[i] - w] = b[p[i]]
      <4>1. ~(p[i] - w < from) /\ p[i] - w \in 1..(Len(b) - w) /\ (p[i] - w) + w = p[i]
        <5>1. p[i] <= Len(b) /\ p[i] \in Nat /\ p[i] >= 1
          BY <1>0, <3>2
        <5> QED BY <1>71, <3>3, <5>1
      <4> QED BY <1>7, <4>1
    <3>5. t[i] = "wide" => a[(p[i] - w) + 1] = b[p[i] + 1]
      <4> SUFFICES ASSUME t[i] = "wide"  PROVE a[(p[i] - w) + 1] = b[p[i] + 1]
        OBVIOUS
      <4>1. Width(t[i]) = 2
        BY DEF Width
      <4>2. ~((p[i] - w) + 1 < from) /\ (p[i] - w) + 1 \in 1..(Len(b) - w) /\ ((p[i] - w) + 1) + w = p[i] + 1
        <5>1. p[i] + 1 <= Len(b) /\ p[i] \in Nat /\ p[i] >= 1
          BY <1>0, <3>2, <4>1
        <5>2. from + w <= p[i]
          BY <1>71, <3>3
        <5> QED BY <1>71, <5>1, <5>2, AfterCut
      <4> QED BY <1>7, <4>2
    <3>6. q[j + 1] = q[j] + Width(u[j])
      <4>1. p[i] \in Nat /\ w \in Nat /\ (Width(t[i]) = 1 \/ Width(t[i]) = 2) /\ p[i + 1] = p[i] + Width(t[i])
        BY <1>0, <1>71, <3>2
      <4>2. p[i + 1] - w = (p[i] - w) + Width(t[i])
        BY <4>1
      <4> QED BY <3>1, <4>2
    <3> QED BY <1>1, <3>1, <3>4, <3>5, <3>6
  <2> QED BY <1>2, <2>1, <2>3, <2>4
<1>10. Places(a, u, q)
  <2>1. Len(u) + 1 = Len(t)
    BY <1>1, <1>6
  <2> QED BY <1>5, <1>8, <1>9, <2>1 DEF Places
<1> QED BY <1>7, <1>10 DEF Coded, a, u, from, to

\* A text is read back from its bytes.
LEMMA DecodeIs ==
  ASSUME NEW t \in Seq(Chars), NEW b, Coded(b, t)
  PROVE  Decode(b) = t /\ RuneCount(b) = Len(t) /\ (b = <<>> <=> t = <<>>)
<1>1. PICK S, p : b \in Seq(S) /\ Places(b, t, p)
  BY DEF Coded
<1>2. /\ Len(t) \in Nat /\ Len(b) \in Nat /\ Len(b) = p[Len(t) + 1] - 1 /\ p[1] = 1
      /\ \A j \in 1..(Len(t) + 1) : p[j] \in 1..(Len(b) + 1)
      /\ \A j \in 1..Len(t) :
           /\ p[j + 1] = p[j] + Width(t[j]) /\ Width(t[j]) \in {1, 2} /\ t[j] \in Chars
           /\ b[p[j]] = IF t[j] = "wide" THEN "w1" ELSE t[j]
           /\ t[j] = "wide" => b[p[j] + 1] = "w2"
  BY <1>1, PlacesAre
<1>3. RuneCount(b) = Len(t) /\ \A c \in 0..Len(t) : ByteOf(b, c) = p[c + 1]
  BY <1>1, CountsAre
<1>4. ASSUME NEW c \in 1..Len(t)
      PROVE  (LET at == ByteOf(b, c - 1) IN IF at < Len(b) /\ b[at + 1] = "w2" THEN "wide" ELSE b[at]) = t[c]
  <2>1. c - 1 \in 0..Len(t) /\ (c - 1) + 1 = c /\ c \in 1..(Len(t) + 1) /\ c + 1 \in 1..(Len(t) + 1) /\ c \in Nat
    BY <1>2
  <2>2. ByteOf(b, c - 1) = p[c]
    BY <1>3, <2>1
  <2>3. /\ p[c] \in 1..(Len(b) + 1) /\ p[c + 1] \in 1..(Len(b) + 1) /\ p[c + 1] = p[c] + Width(t[c])
        /\ b[p[c]] = IF t[c] = "wide" THEN "w1" ELSE t[c]
        /\ t[c] = "wide" => b[p[c] + 1] = "w2"
    BY <1>2, <2>1
  <2>4. CASE t[c] = "wide"
    <3>1. Width(t[c]) = 2 /\ Len(b) \in Nat
      BY <1>2, <2>4 DEF Width
    <3>2. p[c] < Len(b)
      BY <2>3, <3>1
    <3> QED BY <2>2, <2>3, <2>4, <3>2
  <2>5. CASE t[c] # "wide"
    <3>1. Width(t[c]) = 1 /\ Len(b) \in Nat
      BY <1>2, <2>5 DEF Width
    <3>2. p[c + 1] = p[c] + 1
      BY <2>3, <3>1
    <3>3. ASSUME p[c] < Len(b), b[p[c] + 1] = "w2"  PROVE FALSE
      <4>1. c # Len(t)
        BY <1>2, <2>3, <3>2, <3>3
      <4>2. c + 1 \in 1..Len(t)
        BY <1>2, <2>1, <4>1
      <4>3. b[p[c + 1]] # "w2"
        BY <1>2, <4>2 DEF Chars
      <4> QED BY <3>2, <3>3, <4>3
    <3> QED BY <2>2, <2>3, <2>5, <3>3
  <2> QED BY <2>4, <2>5
<1>5. Decode(b) = [c \in 1..Len(t) |-> t[c]]
  BY <1>3, <1>4 DEF Decode
<1>6. t = [c \in 1..Len(t) |-> t[c]]
  OBVIOUS
<1>7. Len(b) = 0 <=> Len(t) = 0
  <2>1. Len(t) + 1 \in 1..(Len(t) + 1) /\ p[Len(t) + 1] >= Len(t) + 1 /\ p[Len(t) + 1] \in Nat
    BY <1>1, <1>2, PlacesGrow
  <2> QED BY <1>2, <2>1
<1> QED BY <1>1, <1>3, <1>5, <1>6, <1>7

\* A text has one sequence of bytes.
LEMMA OneEncoding ==
  ASSUME NEW t \in Seq(Chars), NEW b, Coded(b, t)
  PROVE  b = Encode(t)
BY EncodeCodes, PlacesUnique DEF Coded

LEMMA NothingCodes ==
  <<>> \in Seq(Chars) /\ Coded(<<>>, <<>>)
<1>1. Encode(<<>>) = <<>>
  BY DEF Encode, FlattenSeq
<1>2. <<>> \in Seq(Chars)
  OBVIOUS
<1>3. Coded(Encode(<<>>), <<>>)
  BY <1>2, EncodeCodes
<1> QED BY <1>1, <1>2, <1>3

LEMMA ClampIs ==
  ASSUME NEW t \in Seq(Chars), NEW b, Coded(b, t), NEW c \in Int
  PROVE  Clamp(b, c) = IF c < 0 THEN 0 ELSE IF c > Len(t) THEN Len(t) ELSE c
<1>1. RuneCount(b) = Len(t) /\ Len(t) \in Nat
  BY DecodeIs
<1>2. Min({c, Len(t)}) = IF c <= Len(t) THEN c ELSE Len(t)
  BY <1>1, MinOfTwo
<1> DEFINE m == IF c <= Len(t) THEN c ELSE Len(t)
<1>3. m \in Int /\ 0 \in Int
  BY <1>1
<1>4. Clamp(b, c) = Max({0, m})
  BY <1>1, <1>2 DEF Clamp
<1> HIDE DEF m
<1>5. Max({0, m}) = IF 0 >= m THEN 0 ELSE m
  BY <1>3, MaxOfTwo
<1> QED BY <1>1, <1>4, <1>5 DEF m

-----------------------------------------------------------------------------
(* What each byte does to the input line, as a text.                       *)

LEMMA PrintIs ==
  ASSUME NEW t \in Seq(Chars), Coded(input, t), cursor \in 0..Len(t), NEW n
  PROVE  /\ n \in Chars \ {"wide"} =>
              /\ Coded(Input(n)[1], InsertAt(t, cursor + 1, n))
              /\ Input(n)[2] = cursor + 1
         /\ n = "w2" /\ cursor # 0 /\ t[cursor] = "w1" =>
              /\ Coded(Input(n)[1], [t EXCEPT ![cursor] = "wide"])
              /\ Input(n)[2] = IF cursor = Len(t) THEN cursor ELSE cursor + 1
<1>1. PICK S, p : input \in Seq(S) /\ Places(input, t, p)
  BY DEF Coded
<1>2. ByteOf(input, cursor) = p[cursor + 1] /\ Len(t) \in Nat /\ cursor \in Int
  BY <1>1, CountsAre
<1> DEFINE b == InsertAt(input, p[cursor + 1], n)
<1>3. Input(n)[1] = b /\ Input(n)[2] = Clamp(b, cursor + 1)
  BY <1>2 DEF Input
<1> HIDE DEF b
<1>4. ASSUME n \in Chars \ {"wide"}
      PROVE  Coded(b, InsertAt(t, cursor + 1, n)) /\ Clamp(b, cursor + 1) = cursor + 1
  <2> DEFINE u == InsertAt(t, cursor + 1, n)
  <2>1. Coded(b, u)
    BY <1>1, <1>4, InsertCodes DEF b
  <2>2. u \in Seq(Chars \cup {n}) /\ Len(u) = Len(t) + 1
    BY <1>2, InsertIs
  <2>3. Chars \cup {n} = Chars
    BY <1>4
  <2> HIDE DEF u
  <2>4. u \in Seq(Chars) /\ cursor + 1 \in Int
    BY <1>2, <2>2, <2>3
  <2>5. Clamp(b, cursor + 1) = IF cursor + 1 < 0 THEN 0 ELSE IF cursor + 1 > Len(u) THEN Len(u) ELSE cursor + 1
    BY <2>1, <2>4, ClampIs
  <2> QED BY <1>2, <2>1, <2>2, <2>5 DEF u
<1>5. ASSUME n = "w2", cursor # 0, t[cursor] = "w1"
      PROVE  /\ Coded(b, [t EXCEPT ![cursor] = "wide"])
             /\ Clamp(b, cursor + 1) = IF cursor = Len(t) THEN cursor ELSE cursor + 1
  <2> DEFINE u == [t EXCEPT ![cursor] = "wide"]
  <2>1. cursor \in 1..Len(t)
    BY <1>2, <1>5
  <2>2. Coded(b, u)
    BY <1>1, <1>5, <2>1, SecondCodes DEF b
  <2>3. u \in Seq(Chars) /\ Len(u) = Len(t)
    BY <2>1 DEF Chars
  <2> HIDE DEF u
  <2>4. Clamp(b, cursor + 1) = IF cursor + 1 < 0 THEN 0 ELSE IF cursor + 1 > Len(u) THEN Len(u) ELSE cursor + 1
    BY <1>2, <2>2, <2>3, ClampIs
  <2>5. Clamp(b, cursor + 1) = IF cursor = Len(t) THEN cursor ELSE cursor + 1
    BY <1>2, <2>1, <2>3, <2>4
  <2> QED BY <2>2, <2>5 DEF u
<1> QED BY <1>3, <1>4, <1>5

LEMMA BackspaceIs ==
  ASSUME NEW t \in Seq(Chars), Coded(input, t), cursor \in 0..Len(t)
  PROVE  IF cursor = 0 THEN BackspaceInput[1] = input /\ BackspaceInput[2] = 0
         ELSE /\ Coded(BackspaceInput[1], RemoveAt(t, cursor))
              /\ BackspaceInput[2] = cursor - 1
<1>1. PICK S, p : input \in Seq(S) /\ Places(input, t, p)
  BY DEF Coded
<1>2. Len(t) \in Nat /\ cursor \in Int /\ cursor - 1 \in Int
  OBVIOUS
<1>3. CASE cursor = 0
  <2>1. Clamp(input, cursor - 1) = IF cursor - 1 < 0 THEN 0 ELSE IF cursor - 1 > Len(t) THEN Len(t) ELSE cursor - 1
    BY <1>2, ClampIs
  <2>2. Clamp(input, cursor - 1) = 0
    BY <1>3, <2>1
  <2> QED BY <1>3, <2>2 DEF BackspaceInput
<1>4. CASE cursor # 0
  <2>1. cursor \in 1..Len(t) /\ cursor - 1 \in 0..Len(t) /\ (cursor - 1) + 1 = cursor
    BY <1>2, <1>4
  <2>2. ByteOf(input, cursor) = p[cursor + 1] /\ ByteOf(input, cursor - 1) = p[cursor]
    <3>1. \A c \in 0..Len(t) : ByteOf(input, c) = p[c + 1]
      BY <1>1, CountsAre
    <3> QED BY <2>1, <3>1
  <2> DEFINE b == SubSeq(input, 1, p[cursor] - 1) \o SubSeq(input, p[cursor + 1], Len(input))
             u == RemoveAt(t, cursor)
  <2>3. BackspaceInput[1] = b /\ BackspaceInput[2] = Clamp(b, cursor - 1)
    BY <1>4, <2>2 DEF BackspaceInput
  <2>4. Coded(b, u)
    BY <1>1, <2>1, RemoveCodes
  <2>5. u \in Seq(Chars) /\ Len(u) = Len(t) - 1
    BY <2>1, RemoveIs
  <2> HIDE DEF b, u
  <2>6. Clamp(b, cursor - 1) = IF cursor - 1 < 0 THEN 0 ELSE IF cursor - 1 > Len(u) THEN Len(u) ELSE cursor - 1
    BY <1>2, <2>4, <2>5, ClampIs
  <2>7. Clamp(b, cursor - 1) = cursor - 1
    BY <1>2, <2>1, <2>5, <2>6
  <2> QED BY <1>4, <2>3, <2>4, <2>7 DEF u
<1> QED BY <1>3, <1>4

\* Every line of the history is the bytes of a text.
TextsInv == \A i \in 1..Len(inputs) : \E t \in Seq(Chars) : Coded(inputs[i], t)

\* The line as the reader has it, t being its text.
Now(t) == [text |-> t, at |-> cursor]

\* What the arrow with this last byte makes of it.
Moved(a, t) ==
  IF a = "D" THEN [text |-> t, at |-> IF cursor = 0 THEN 0 ELSE cursor - 1]
  ELSE IF a = "C" THEN [text |-> t, at |-> IF cursor = Len(t) THEN cursor ELSE cursor + 1]
  ELSE IF a = "A" THEN Whole(Kept[IF current = 1 THEN 1 ELSE current - 1])
  ELSE IF current < Len(inputs) THEN Whole(Kept[current + 1]) ELSE Now(t)

\* Nothing that is on its way changes the line.
Idle ==
  \/ tty = <<>> \/ ~insert \/ tty = <<"esc">>
  \/ tty = <<"[">> /\ (escape = 3 \/ (Remote /\ input = <<>>))

\* What is on its way makes of the line what it should be.
Ahead(t) ==
  \/ Idle /\ line = Now(t)
  \/ insert /\ \E a \in Tails : tty \in {<<"esc", "[", a>>, <<"[", a>>, <<a>>} /\ line = Moved(a, t)
  \/ insert /\ \E k \in {"x", "i", "["} :
       /\ tty = <<k>> /\ (k = "[" => escape = 0 /\ ~(Remote /\ input = <<>>))
       /\ line = [text |-> InsertAt(t, cursor + 1, k), at |-> cursor + 1]
  \/ /\ insert /\ tty = <<"w1", "w2">>
     /\ line = [text |-> InsertAt(t, cursor + 1, "wide"), at |-> IF cursor = Len(t) THEN cursor + 1 ELSE cursor + 2]
  \/ /\ insert /\ tty = <<"w2">> /\ cursor # 0 /\ t[cursor] = "w1"
     /\ line = [text |-> [t EXCEPT ![cursor] = "wide"], at |-> IF cursor = Len(t) THEN cursor ELSE cursor + 1]
  \/ /\ insert /\ tty = <<"backspace">>
     /\ line = IF cursor = 0 THEN Now(t) ELSE [text |-> RemoveAt(t, cursor), at |-> cursor - 1]
  \/ insert /\ tty \in {<<"enter">>, <<"clear">>} /\ line = [text |-> <<>>, at |-> 0]

LineInv == \E t \in Seq(Chars) : Coded(input, t) /\ cursor \in 0..Len(t) /\ Ahead(t)

LEMMA KeptTexts ==
  ASSUME LinesInv, TextsInv, NEW t \in Seq(Chars), Coded(input, t)
  PROVE  \A i \in 1..Len(inputs) : \E u \in Seq(Chars) : Coded(Kept[i], u)
BY KeptIs DEF TextsInv

LEMMA TextsKept ==
  ASSUME LinesInv, TextsInv, LineInv, [ConsoleNext]_consolevars
  PROVE  TextsInv'
<1>1. ASSUME UNCHANGED inputs  PROVE TextsInv'
  BY <1>1 DEF TextsInv
<1>2. CASE ReadByte
  <2>1. PICK t \in Seq(Chars) : Coded(input, t)
    BY DEF LineInv
  <2>2. \A i \in 1..Len(inputs) : \E u \in Seq(Chars) : Coded(Kept[i], u)
    BY <2>1, KeptTexts
  <2>3. CASE Outcome(Head(tty)) # "enter"
    <3>1. inputs' = Kept
      BY <1>2, <2>3, ReadIs
    <3>2. Len(Kept) = Len(inputs)
      BY KeptIs
    <3> QED BY <2>2, <3>1, <3>2 DEF TextsInv
  <2>4. CASE Outcome(Head(tty)) = "enter"
    <3> DEFINE full == Kept[Len(inputs)] # <<>> /\ Len(inputs) = MaxInputs
               d == IF full THEN 1 ELSE 0
               n == Len(inputs) + (IF Kept[Len(inputs)] # <<>> THEN 1 ELSE 0) - d
    <3>1. Submit
      BY <1>2, <2>4, ReadIs
    <3>2. /\ Len(inputs') = n
          /\ \A i \in 1..n : i + d <= Len(inputs) => inputs'[i] = Kept[i + d]
      BY <3>1, SubmitIs
    <3>3. Len(inputs) \in Nat \ {0} /\ d \in {0, 1}
      BY ConsoleAssumption DEF LinesInv
    <3>4. ASSUME NEW i \in 1..n  PROVE \E u \in Seq(Chars) : Coded(inputs'[i], u)
      <4>1. CASE i + d <= Len(inputs)
        <5> HIDE DEF d, n
        <5>1. i + d \in 1..Len(inputs)
          BY <3>3, <4>1
        <5> QED BY <2>2, <3>2, <4>1, <5>1
      <4>2. CASE ~(i + d <= Len(inputs))
        <5>1. i = n /\ Kept[Len(inputs)] # <<>> /\ i + d = Len(inputs) + 1
          <6>1. CASE Kept[Len(inputs)] # <<>>
            <7>1. n = Len(inputs) + 1 - d
              BY <6>1
            <7> HIDE DEF n, d
            <7> QED BY <3>3, <4>2, <6>1, <7>1
          <6>2. CASE Kept[Len(inputs)] = <<>>
            <7>1. d = 0 /\ n = Len(inputs) + 0 - d
              BY <6>2
            <7> HIDE DEF n, d
            <7> QED BY <3>3, <4>2, <7>1
          <6> QED BY <6>1, <6>2
        <5>2. inputs'[i] = <<>>
          <6> DEFINE k == Kept
                     h == Append(k, <<>>)
          <6>1. Len(k) = Len(inputs) /\ k = [j \in 1..Len(inputs) |-> k[j]]
            BY KeptIs
          <6>2. inputs' = Trim(h)
            BY <3>1, <5>1, <6>1 DEF Submit, Last
          <6> HIDE DEF k
          <6>3. PICK S : <<>> \in S /\ k \in Seq(S)
            BY <3>3, <6>1, LinesAreSeq
          <6>4. h \in Seq(S) /\ Len(h) = Len(inputs) + 1 /\ h[Len(inputs) + 1] = <<>>
            BY <3>3, <6>1, <6>3
          <6> HIDE DEF h
          <6>5. Trim(h) = SubSeq(h, Max({1, Len(h) - MaxInputs + 1}), Len(h))
            BY DEF Trim
          <6>6. Len(h) - MaxInputs + 1 \in Int /\ 1 \in Int /\ Len(inputs) <= MaxInputs /\ MaxInputs \in Nat \ {0, 1}
            BY <3>3, <6>4, ConsoleAssumption DEF LinesInv
          <6>7. Max({1, Len(h) - MaxInputs + 1}) \in 1..2
            <7>1. Max({1, Len(h) - MaxInputs + 1}) = IF 1 >= Len(h) - MaxInputs + 1 THEN 1 ELSE Len(h) - MaxInputs + 1
              BY <6>6, MaxOfTwo
            <7> QED BY <3>3, <6>4, <6>6, <7>1
          <6>8. PICK f \in 1..2 : inputs' = SubSeq(h, f, Len(h))
            BY <6>2, <6>5, <6>7
          <6>9. /\ Len(inputs') = Len(h) - f + 1 /\ inputs'[Len(h) - f + 1] = h[Len(h)]
            BY <3>3, <6>4, <6>8
          <6> QED BY <3>2, <5>1, <6>4, <6>9
        <5> QED BY <5>2, NothingCodes
      <4> QED BY <4>1, <4>2
    <3> HIDE DEF n
    <3> QED BY <3>2, <3>4 DEF TextsInv
  <2> QED BY <2>3, <2>4
<1>3. CASE Timeout
  BY <1>1, <1>3 DEF Timeout
<1>4. ASSUME NEW k \in Keys, Press(k)  PROVE UNCHANGED inputs
  BY <1>4 DEF Press
<1>5. CASE UNCHANGED consolevars
  BY <1>1, <1>5 DEF consolevars
<1> QED BY <1>1, <1>2, <1>3, <1>4, <1>5 DEF ConsoleNext

\* Of a line in the history the reader and the ideal have the same.
LEMMA WholeIs ==
  ASSUME NEW t \in Seq(Chars), NEW b, Coded(b, t)
  PROVE  Whole(b) = [text |-> t, at |-> Len(t)] /\ SetInput(b) = <<b, Len(t)>>
<1>1. Decode(b) = t /\ RuneCount(b) = Len(t)
  BY DecodeIs
<1> QED BY <1>1 DEF Whole, SetInput

\* What a turn of the reader makes of the text and the cursor.
LEMMA TurnIs ==
  ASSUME TtyInv, ModeInv, LinesInv, TextsInv, ReadByte,
         NEW t \in Seq(Chars), Coded(input, t), cursor \in 0..Len(t)
  PROVE  LET n == Head(tty)  do == Outcome(n) IN
    /\ do \in {"nothing", "i", "["} => UNCHANGED <<input, cursor>>
    /\ do = "print" /\ n \in Chars \ {"wide"} =>
         Coded(input', InsertAt(t, cursor + 1, n)) /\ cursor' = cursor + 1
    /\ do = "print" /\ n = "w2" /\ cursor # 0 /\ t[cursor] = "w1" =>
         /\ Coded(input', [t EXCEPT ![cursor] = "wide"])
         /\ cursor' = IF cursor = Len(t) THEN cursor ELSE cursor + 1
    /\ do = "backspace" =>
         IF cursor = 0 THEN input' = input /\ cursor' = 0
         ELSE Coded(input', RemoveAt(t, cursor)) /\ cursor' = cursor - 1
    /\ do \in {"enter", "clear"} => input' = <<>> /\ cursor' = 0
    /\ do \in Tails => \E u \in Seq(Chars) :
         Coded(input', u) /\ cursor' \in 0..Len(u) /\ [text |-> u, at |-> cursor'] = Moved(do, t)
<1> DEFINE n == Head(tty)
           do == Outcome(n)
<1>1. Len(t) \in Nat /\ cursor \in Int /\ cursor - 1 \in Int /\ cursor + 1 \in Int
  OBVIOUS
<1>2. CASE do \in {"nothing", "i", "["}
  <2>1. EditOnly(<<input, cursor>>)
    BY <1>2 DEF ReadByte
  <2> QED BY <1>2, <2>1 DEF EditOnly, Edit
<1>3. CASE do = "print"
  <2>1. EditOnly(Input(n))
    BY <1>3 DEF ReadByte
  <2>2. input' = Input(n)[1] /\ cursor' = Input(n)[2]
    BY <2>1 DEF EditOnly, Edit
  <2> QED BY <1>3, <2>2, PrintIs
<1>4. CASE do = "backspace"
  <2>1. EditOnly(BackspaceInput)
    BY <1>4 DEF ReadByte
  <2>2. input' = BackspaceInput[1] /\ cursor' = BackspaceInput[2]
    BY <2>1 DEF EditOnly, Edit
  <2> QED BY <1>4, <2>2, BackspaceIs
<1>5. CASE do \in {"enter", "clear"}
  <2>1. Submit \/ EditOnly(ResetInput)
    BY <1>5 DEF ReadByte
  <2>2. input' = <<>> /\ cursor' = 0
    BY <2>1 DEF Submit, EditOnly, Edit, ResetInput
  <2> QED BY <1>5, <2>2
<1>6. CASE do = "D"
  <2>1. EditOnly(Left)
    BY <1>6 DEF ReadByte
  <2>2. input' = input /\ cursor' = Clamp(input, cursor - 1)
    BY <2>1 DEF EditOnly, Edit, Left
  <2>3. Clamp(input, cursor - 1) = IF cursor - 1 < 0 THEN 0 ELSE IF cursor - 1 > Len(t) THEN Len(t) ELSE cursor - 1
    BY <1>1, ClampIs
  <2>4. cursor' = (IF cursor = 0 THEN 0 ELSE cursor - 1) /\ cursor' \in 0..Len(t)
    BY <1>1, <2>2, <2>3
  <2> QED BY <1>6, <2>2, <2>4 DEF Moved
<1>7. CASE do = "C"
  <2>1. EditOnly(Right)
    BY <1>7 DEF ReadByte
  <2>2. input' = input /\ cursor' = Clamp(input, cursor + 1)
    BY <2>1 DEF EditOnly, Edit, Right
  <2>3. Clamp(input, cursor + 1) = IF cursor + 1 < 0 THEN 0 ELSE IF cursor + 1 > Len(t) THEN Len(t) ELSE cursor + 1
    BY <1>1, ClampIs
  <2>4. cursor' = (IF cursor = Len(t) THEN cursor ELSE cursor + 1) /\ cursor' \in 0..Len(t)
    BY <1>1, <2>2, <2>3
  <2> QED BY <1>7, <2>2, <2>4 DEF Moved
<1>8. CASE do = "A"
  <2> DEFINE c == IF current = 1 THEN 1 ELSE current - 1
  <2>1. c \in 1..Len(inputs) /\ current \in 1..Len(inputs) /\ Len(inputs) \in Nat
    BY ConsoleAssumption DEF LinesInv
  <2>2. InputUp
    BY <1>8 DEF ReadByte
  <2>3. Max({1, current - 1}) = c
    <3>1. current - 1 \in Int /\ 1 \in Int
      BY <2>1
    <3>2. Max({1, current - 1}) = IF 1 >= current - 1 THEN 1 ELSE current - 1
      BY <3>1, MaxOfTwo
    <3> QED BY <2>1, <3>2
  <2>4. PICK u \in Seq(Chars) : Coded(Kept[c], u)
    BY <2>1, KeptTexts
  <2> HIDE DEF c
  <2>5. input' = SetInput(Kept[c])[1] /\ cursor' = SetInput(Kept[c])[2]
    BY <2>2, <2>3 DEF InputUp, Edit
  <2>6. Moved("A", t) = Whole(Kept[c])
    BY DEF Moved, c
  <2>7. Whole(Kept[c]) = [text |-> u, at |-> Len(u)] /\ SetInput(Kept[c]) = <<Kept[c], Len(u)>> /\ Len(u) \in 0..Len(u)
    BY <2>4, WholeIs
  <2> QED BY <1>8, <2>4, <2>5, <2>6, <2>7
<1>9. CASE do = "B"
  <2>1. current \in 1..Len(inputs) /\ Len(inputs) \in Nat
    BY ConsoleAssumption DEF LinesInv
  <2>2. InputDown
    BY <1>9 DEF ReadByte
  <2>3. CASE current < Len(inputs)
    <3>1. current + 1 \in 1..Len(inputs)
      BY <2>1, <2>3
    <3>2. PICK u \in Seq(Chars) : Coded(Kept[current + 1], u)
      BY <3>1, KeptTexts
    <3>3. input' = SetInput(Kept[current + 1])[1] /\ cursor' = SetInput(Kept[current + 1])[2]
      BY <2>2, <2>3 DEF InputDown, Edit
    <3>4. Moved("B", t) = Whole(Kept[current + 1])
      BY <2>3 DEF Moved
    <3>5. /\ Whole(Kept[current + 1]) = [text |-> u, at |-> Len(u)]
          /\ SetInput(Kept[current + 1]) = <<Kept[current + 1], Len(u)>> /\ Len(u) \in 0..Len(u)
      BY <3>2, WholeIs
    <3> QED BY <1>9, <3>2, <3>3, <3>4, <3>5
  <2>4. CASE ~(current < Len(inputs))
    <3>1. input' = input /\ cursor' = cursor
      BY <2>2, <2>4 DEF InputDown
    <3>2. Moved("B", t) = Now(t)
      BY <2>4 DEF Moved
    <3> QED BY <1>9, <3>1, <3>2 DEF Now
  <2> QED BY <2>3, <2>4
<1> QED BY <1>2, <1>3, <1>4, <1>5, <1>6, <1>7, <1>8, <1>9

\* How far the automaton is, by what is on its way.
LEMMA EscapeIs ==
  ASSUME TtyInv
  PROVE  /\ tty = <<"[">> => escape \in {0, 3}
         /\ \A a \in Tails : (tty = <<"[", a>> => escape = 1) /\ (tty = <<a>> => escape = 2)
         /\ \A k \in Singles : tty = <<k>> => escape \in {0, 1, 3}
         /\ tty = <<"w1", "w2">> => escape \in {0, 1, 3}
         /\ tty = <<"w2">> => escape = 0
<1>1. \A k \in Arrows : \E a \in Tails : Bytes(k) = <<"esc", "[", a>>
  BY BytesAre
<1>2. Bytes("wide") = <<"w1", "w2">>
  BY BytesAre
<1>3. \/ Len(tty) = 0 \/ Len(tty) = 3
      \/ Len(tty) = 2 /\ tty[1] = "w1" /\ escape \in {0, 1, 3}
      \/ Len(tty) = 2 /\ tty[1] = "[" /\ escape = 1
      \/ Len(tty) = 1 /\ tty[1] = "[" /\ escape \in {0, 3}
      \/ Len(tty) = 1 /\ tty[1] \in Singles \ {"["} /\ escape \in {0, 1, 3}
      \/ Len(tty) = 1 /\ tty[1] = "w2" /\ escape = 0
      \/ Len(tty) = 1 /\ tty[1] \in Tails /\ escape = 2
  BY <1>1, <1>2 DEF TtyInv
<1>4. ASSUME NEW k, tty = <<k>>  PROVE Len(tty) = 1 /\ tty[1] = k
  BY <1>4
<1>5. ASSUME NEW k, NEW l, tty = <<k, l>>  PROVE Len(tty) = 2 /\ tty[1] = k
  BY <1>5
<1>6. tty = <<"[">> => escape \in {0, 3}
  BY <1>3, <1>4
<1>7. ASSUME NEW a \in Tails  PROVE (tty = <<"[", a>> => escape = 1) /\ (tty = <<a>> => escape = 2)
  <2>1. tty = <<"[", a>> => escape = 1
    BY <1>3, <1>5
  <2>2. tty = <<a>> => escape = 2
    BY <1>3, <1>4
  <2> QED BY <2>1, <2>2
<1>8. ASSUME NEW k \in Singles  PROVE tty = <<k>> => escape \in {0, 1, 3}
  BY <1>3, <1>4
<1>9. (tty = <<"w1", "w2">> => escape \in {0, 1, 3}) /\ (tty = <<"w2">> => escape = 0)
  BY <1>3, <1>4, <1>5
<1> QED BY <1>6, <1>7, <1>8, <1>9

\* What becomes of each byte in insert mode.
LEMMA Does ==
  ASSUME TtyInv, ModeInv, insert
  PROVE  /\ tty = <<"[">> =>
              IF escape = 3 \/ (Remote /\ input = <<>>) THEN Outcome("[") \in {"nothing", "["}
              ELSE Outcome("[") = "print"
         /\ Outcome("esc") = "nothing"
         /\ \A a \in Tails : (tty = <<"[", a>> => Outcome("[") = "nothing") /\ (tty = <<a>> => Outcome(a) = a)
         /\ \A k \in {"x", "i"} : tty = <<k>> => Outcome(k) = "print"
         /\ \A k \in {"backspace", "enter", "clear"} : tty = <<k>> => Outcome(k) = k
         /\ tty = <<"w1", "w2">> => Outcome("w1") = "print"
         /\ tty = <<"w2">> => Outcome("w2") = "print"
<1>1. insert = TRUE
  BY DEF ModeInv
<1>2. ASSUME tty = <<"[">>
      PROVE IF escape = 3 \/ (Remote /\ input = <<>>) THEN Outcome("[") \in {"nothing", "["}
            ELSE Outcome("[") = "print"
  <2>1. escape = 0 \/ escape = 3
    BY <1>2, EscapeIs
  <2>2. CASE escape = 3
    <3>1. Escape("[") = 3 
      BY <2>2 DEF Escape
    <3>2. Remote \/ ~Remote
      OBVIOUS
    <3> QED BY <1>1, <2>2, <3>1, <3>2 DEF Outcome, OnlyWhenEmpty, Mapped
  <2>3. CASE escape = 0
    <3>1. Escape("[") = 0 
      BY <2>3 DEF Escape
    <3>2. Remote \/ ~Remote
      OBVIOUS
    <3> QED BY <1>1, <2>3, <3>1, <3>2 DEF Outcome, OnlyWhenEmpty, Mapped
  <2> QED BY <2>1, <2>2, <2>3
<1>3. Outcome("esc") = "nothing"
  BY DEF Outcome, Escape
<1>4. ASSUME NEW a \in Tails, tty = <<"[", a>>  PROVE Outcome("[") = "nothing"
  <2>1. escape = 1
    BY <1>4, EscapeIs
  <2>2. Escape("[") = 2
    BY <2>1 DEF Escape
  <2> QED BY <2>1, <2>2 DEF Outcome
<1>5. ASSUME NEW a \in Tails, tty = <<a>>  PROVE Outcome(a) = a
  <2>1. escape = 2
    BY <1>5, EscapeIs
  <2>2. Escape(a) = 3
    BY <2>1 DEF Escape
  <2> QED BY <1>1, <2>2 DEF Outcome, Mapped
<1>6. ASSUME NEW k \in {"x", "i", "backspace", "enter", "clear", "w1", "w2"}, escape \in {0, 1, 3}
      PROVE  /\ k \in {"x", "i", "w1", "w2"} => Outcome(k) = "print"
             /\ k \in {"backspace", "enter", "clear"} => Outcome(k) = k
  <2>1. Escape(k) = 0 /\ ~OnlyWhenEmpty(k)
    BY <1>6 DEF Escape, OnlyWhenEmpty
  <2> QED BY <1>1, <1>6, <2>1 DEF Outcome, Mapped
<1>7. \A k \in {"x", "i", "backspace", "enter", "clear"} : tty = <<k>> => escape \in {0, 1, 3}
  BY EscapeIs
<1>8. (tty = <<"w1", "w2">> => escape \in {0, 1, 3}) /\ (tty = <<"w2">> => escape \in {0, 1, 3})
  BY EscapeIs
<1> QED BY <1>2, <1>3, <1>4, <1>5, <1>6, <1>7, <1>8

\* What is kept once is not kept again.
LEMMA KeptAgain ==
  ASSUME LinesInv, LinesInv', inputs' = Kept, UNCHANGED <<input, current>>
  PROVE  /\ Len(inputs') = Len(inputs)
         /\ \A i \in 1..Len(inputs) : Kept'[i] = Kept[i]
<1>1. /\ Len(Kept) = Len(inputs)
      /\ \A i \in 1..Len(inputs) :
           Kept[i] = IF i = Len(inputs) /\ (current = i \/ inputs[current] # input) THEN input ELSE inputs[i]
  BY KeptIs
<1>2. \A i \in 1..Len(inputs') :
        Kept'[i] = IF i = Len(inputs') /\ (current' = i \/ inputs'[current'] # input') THEN input' ELSE inputs'[i]
  BY DEF Kept, LinesInv
<1>3. current \in 1..Len(inputs)
  BY DEF LinesInv
<1> QED BY <1>1, <1>2, <1>3

\* Nor does an arrow come to something else while its bytes are read.
LEMMA MovedAgain ==
  ASSUME LinesInv, LinesInv', inputs' = Kept, UNCHANGED <<input, current, cursor>>,
         NEW a, NEW t
  PROVE  Moved(a, t)' = Moved(a, t)
<1>1. /\ Len(inputs') = Len(inputs)
      /\ \A i \in 1..Len(inputs) : Kept'[i] = Kept[i]
  BY KeptAgain
<1>2. current \in 1..Len(inputs) /\ Len(inputs) \in Nat
  BY ConsoleAssumption DEF LinesInv
<1>3. Kept'[IF current = 1 THEN 1 ELSE current - 1] = Kept[IF current = 1 THEN 1 ELSE current - 1]
  <2>1. (IF current = 1 THEN 1 ELSE current - 1) \in 1..Len(inputs)
    BY <1>2
  <2> QED BY <1>1, <2>1
<1>4. current < Len(inputs) => Kept'[current + 1] = Kept[current + 1]
  BY <1>1, <1>2
<1>5. ASSUME NEW i, Kept'[i] = Kept[i]  PROVE Whole(Kept[i])' = Whole(Kept[i])
  BY <1>5
<1>6. current' = current /\ cursor' = cursor
  OBVIOUS
<1> QED BY <1>1, <1>3, <1>4, <1>5, <1>6 DEF Moved, Now

\* A character that is put in.
LEMMA PutIn ==
  ASSUME NEW t \in Seq(Chars), NEW c \in 0..Len(t), NEW n \in Chars
  PROVE  /\ InsertAt(t, c + 1, n) \in Seq(Chars) /\ Len(InsertAt(t, c + 1, n)) = Len(t) + 1
         /\ InsertAt(t, c + 1, n)[c + 1] = n
         /\ n = "w1" => [InsertAt(t, c + 1, n) EXCEPT ![c + 1] = "wide"] = InsertAt(t, c + 1, "wide")
<1> DEFINE u(m) == InsertAt(t, c + 1, m)
<1>1. c + 1 \in 1..(Len(t) + 1) /\ Chars \cup {n} = Chars /\ "wide" \in Chars /\ Chars \cup {"wide"} = Chars
  BY DEF Chars
<1>2. ASSUME NEW m \in Chars
      PROVE  /\ u(m) \in Seq(Chars) /\ Len(u(m)) = Len(t) + 1 /\ u(m)[c + 1] = m
             /\ \A k \in 1..(Len(t) + 1) : u(m)[k] = IF k < c + 1 THEN t[k] ELSE IF k = c + 1 THEN m ELSE t[k - 1]
  <2>1. Chars \cup {m} = Chars
    OBVIOUS
  <2> QED BY <1>1, <2>1, InsertIs
<1> HIDE DEF u
<1>3. u(n)[c + 1] = n
  BY <1>2
<1>4. [u(n) EXCEPT ![c + 1] = "wide"] = u("wide")
  <2> DEFINE s == u(n)
             v == [s EXCEPT ![c + 1] = "wide"]
             x == u("wide")
             \* What the two have in common.
             Same(k) == IF k < c + 1 THEN t[k] ELSE IF k = c + 1 THEN "wide" ELSE t[k - 1]
  <2>1. s \in Seq(Chars) /\ c + 1 \in 1..Len(s) /\ Len(s) = Len(t) + 1
    BY <1>1, <1>2
  <2>2. x \in Seq(Chars) /\ Len(x) = Len(t) + 1 /\ \A k \in 1..(Len(t) + 1) : x[k] = Same(k)
    BY <1>1, <1>2
  <2>3. \A k \in 1..(Len(t) + 1) : k # c + 1 => s[k] = Same(k)
    BY <1>1, <1>2
  <2> HIDE DEF s, x
  <2>4. v \in Seq(Chars) /\ Len(v) = Len(s) /\ \A k \in 1..Len(s) : v[k] = IF k = c + 1 THEN "wide" ELSE s[k]
    BY <1>1, <2>1, ExceptSeq
  <2>5. \A k \in 1..(Len(t) + 1) : v[k] = Same(k)
    <3>1. Same(c + 1) = "wide"
      BY <1>1
    <3> HIDE DEF v, Same
    <3> QED BY <2>1, <2>3, <2>4, <3>1
  <2> HIDE DEF v, Same
  <2>6. v = x
    BY <2>1, <2>2, <2>4, <2>5, SeqEqual
  <2> QED BY <2>6 DEF s, v, x
<1> QED BY <1>2, <1>3, <1>4 DEF u

\* The cursor of the line as it should be, moved, and after a character.
LEMMA AtIs ==
  ASSUME NEW t \in Seq(Chars), line.text = t, cursor \in 0..Len(t)
  PROVE  /\ At(cursor - 1) = IF cursor = 0 THEN 0 ELSE cursor - 1
         /\ At(cursor + 1) = IF cursor = Len(t) THEN cursor ELSE cursor + 1
<1>1. Len(t) \in Nat /\ 0 \in Int /\ cursor \in Int
  OBVIOUS
<1>2. ASSUME NEW c \in Int  PROVE At(c) = IF c < 0 THEN 0 ELSE IF c > Len(t) THEN Len(t) ELSE c
  <2>1. Min({c, Len(t)}) = IF c <= Len(t) THEN c ELSE Len(t)
    BY <1>1, MinOfTwo
  <2>2. Max({0, Min({c, Len(t)})}) = IF 0 >= Min({c, Len(t)}) THEN 0 ELSE Min({c, Len(t)})
    <3>1. Min({c, Len(t)}) \in Int
      BY <1>1, <2>1
    <3> QED BY <1>1, <3>1, MaxOfTwo
  <2> QED BY <1>1, <2>1, <2>2 DEF At
<1> QED BY <1>1, <1>2

LEMMA TypedIs ==
  ASSUME NEW t \in Seq(Chars), line.text = t, line.at = cursor, cursor \in 0..Len(t)
  PROVE  /\ \A k \in {"x", "i", "["} : Typed(k) = [text |-> InsertAt(t, cursor + 1, k), at |-> cursor + 1]
         /\ Typed("wide") =
              [text |-> InsertAt(t, cursor + 1, "wide"), at |-> IF cursor = Len(t) THEN cursor + 1 ELSE cursor + 2]
<1>1. Len(t) \in Nat /\ cursor \in Int
  OBVIOUS
<1>2. ASSUME NEW k \in Chars, NEW w \in {1, 2}, Len(Bytes(k)) = w
      PROVE  Typed(k) = [text |-> InsertAt(t, cursor + 1, k),
                           at |-> IF Len(t) + 1 <= cursor + w THEN Len(t) + 1 ELSE cursor + w]
  <2>1. Len(InsertAt(t, cursor + 1, k)) = Len(t) + 1
    BY PutIn
  <2>2. Min({Len(t) + 1, cursor + w}) = IF Len(t) + 1 <= cursor + w THEN Len(t) + 1 ELSE cursor + w
    BY <1>1, MinOfTwo
  <2> QED BY <1>2, <2>1, <2>2 DEF Typed
<1>3. \A k \in {"x", "i", "["} : k \in Chars /\ Len(Bytes(k)) = 1
  BY BytesAre DEF Chars
<1>4. "wide" \in Chars /\ Len(Bytes("wide")) = 2
  BY BytesAre DEF Chars
<1>5. ASSUME NEW k \in {"x", "i", "["}  PROVE Typed(k) = [text |-> InsertAt(t, cursor + 1, k), at |-> cursor + 1]
  <2>1. Typed(k) = [text |-> InsertAt(t, cursor + 1, k),
                      at |-> IF Len(t) + 1 <= cursor + 1 THEN Len(t) + 1 ELSE cursor + 1]
    BY <1>2, <1>3
  <2>2. (IF Len(t) + 1 <= cursor + 1 THEN Len(t) + 1 ELSE cursor + 1) = cursor + 1
    BY <1>1
  <2> QED BY <2>1, <2>2
<1>6. Typed("wide") = [text |-> InsertAt(t, cursor + 1, "wide"),
                         at |-> IF Len(t) + 1 <= cursor + 2 THEN Len(t) + 1 ELSE cursor + 2]
  BY <1>2, <1>4
<1>7. (IF Len(t) + 1 <= cursor + 2 THEN Len(t) + 1 ELSE cursor + 2) = IF cursor = Len(t) THEN cursor + 1 ELSE cursor + 2
  BY <1>1
<1> QED BY <1>5, <1>6, <1>7

\* A key that is pressed: the line is what its bytes will make of it.
LEMMA LinePressed ==
  ASSUME TtyInv, ModeInv, LinesInv, LineInv, NEW k \in Keys, Press(k)
  PROVE  LineInv'
<1>1. PICK t \in Seq(Chars) : Coded(input, t) /\ cursor \in 0..Len(t) /\ Ahead(t)
  BY DEF LineInv
<1>2. /\ tty = <<>> /\ tty' = Bytes(k) /\ line' = Expected(k) /\ (k = "[" => last # "esc")
      /\ UNCHANGED <<escape, insert, input, cursor, inputs, current>>
  BY DEF Press
<1>3. line = [text |-> t, at |-> cursor] /\ line.text = t /\ line.at = cursor
  <2>1. line = Now(t)
    BY <1>1, <1>2 DEF Ahead
  <2> QED BY <2>1 DEF Now
<1>4. Len(t) \in Nat /\ cursor \in Int /\ cursor - 1 \in Int /\ cursor + 1 \in Int /\ Len(t) \in Int
  BY <1>1
<1>5. insert = ~normal /\ insert \in BOOLEAN /\ normal \in BOOLEAN
  BY <1>2 DEF ModeInv
<1>6. k \in Arrows \cup {"wide"} \cup Singles
  BY KeysAre
<1> SUFFICES Ahead(t)'
  <2>1. Coded(input, t)' /\ (cursor \in 0..Len(t))'
    BY <1>1, <1>2
  <2> QED BY <2>1 DEF LineInv
<1>7. CASE line' = line /\ Idle'
  BY <1>2, <1>3, <1>7 DEF Ahead, Now
<1>8. CASE normal
  <2>1. line' = line
    BY <1>2, <1>8 DEF Expected
  <2>2. Idle'
    BY <1>2, <1>5, <1>8 DEF Idle
  <2> QED BY <1>7, <2>1, <2>2
<1>9. CASE ~normal /\ k = "esc"
  <2>1. line' = line
    BY <1>2, <1>9 DEF Expected
  <2>2. Idle'
    BY <1>2, <1>9, BytesAre DEF Idle
  <2> QED BY <1>7, <2>1, <2>2
<1>10. CASE ~normal /\ k = "["
  <2>1. tty' = <<"[">>
    BY <1>2, <1>10, BytesAre
  <2>2. CASE LostKey(k)
    <3>1. line' = line
      BY <1>2, <2>2 DEF Expected
    <3>2. escape = 3
      BY <1>2, <2>2, BytesAre DEF TtyInv, LostKey
    <3>3. Idle'
      BY <1>2, <2>1, <3>2 DEF Idle
    <3> QED BY <1>7, <3>1, <3>3
  <2>3. CASE Remote /\ t = <<>>
    <3>1. line' = line
      BY <1>2, <1>3, <1>10, <2>3 DEF Expected
    <3>2. input = <<>>
      BY <1>1, <2>3, DecodeIs
    <3>3. Idle'
      BY <1>2, <2>1, <2>3, <3>2 DEF Idle
    <3> QED BY <1>7, <3>1, <3>3
  <2>4. CASE ~LostKey(k) /\ ~(Remote /\ t = <<>>)
    <3>1. line' = Typed("[")
      BY <1>2, <1>3, <1>10, <2>4 DEF Expected, Printing
    <3>2. escape = 0
      BY <1>2, <1>10, <2>4, BytesAre DEF TtyInv, LostKey
    <3>3. ~(Remote /\ input = <<>>)
      BY <1>1, <2>4, DecodeIs
    <3>4. line' = [text |-> InsertAt(t, cursor + 1, "["), at |-> cursor + 1]
      <4>1. Typed("[") = [text |-> InsertAt(t, cursor + 1, "["), at |-> cursor + 1]
        BY <1>1, <1>3, TypedIs
      <4> QED BY <3>1, <4>1
    <3> QED BY <1>2, <1>5, <1>10, <2>1, <3>2, <3>3, <3>4 DEF Ahead
  <2> QED BY <2>2, <2>3, <2>4
<1>11. CASE ~normal /\ k \in {"x", "i"}
  <2>1. tty' = <<k>>
    BY <1>2, <1>11, BytesAre
  <2>2. line' = Typed(k)
    BY <1>2, <1>11 DEF Expected, Printing, LostKey
  <2>3. Typed(k) = [text |-> InsertAt(t, cursor + 1, k), at |-> cursor + 1]
    BY <1>1, <1>3, <1>11, TypedIs
  <2> QED BY <1>2, <1>5, <1>11, <2>1, <2>2, <2>3 DEF Ahead
<1>12. CASE ~normal /\ k = "wide"
  <2>1. tty' = <<"w1", "w2">>
    BY <1>2, <1>12, BytesAre
  <2>2. line' = Typed(k)
    BY <1>2, <1>12 DEF Expected, Printing, LostKey
  <2>3. Typed("wide") =
          [text |-> InsertAt(t, cursor + 1, "wide"), at |-> IF cursor = Len(t) THEN cursor + 1 ELSE cursor + 2]
    BY <1>1, <1>3, TypedIs
  <2> QED BY <1>2, <1>5, <1>12, <2>1, <2>2, <2>3 DEF Ahead
<1>13. CASE ~normal /\ k \in Arrows
  <2> DEFINE a == IF k = "left" THEN "D" ELSE IF k = "right" THEN "C" ELSE IF k = "up" THEN "A" ELSE "B"
  <2>1. a \in Tails /\ tty' = <<"esc", "[", a>>
    BY <1>2, <1>13, BytesAre
  <2>2. Expected(k) = Moved(a, t)
    <3>1. ~(normal \/ LostKey(k) \/ k = "esc" \/ k = "[")
      BY <1>13 DEF LostKey
    <3>2. CASE k = "left"
      <4>1. Expected(k) = [line EXCEPT !.at = At(line.at - 1)]
        BY <3>1, <3>2 DEF Expected, Printing
      <4>2. At(cursor - 1) = IF cursor = 0 THEN 0 ELSE cursor - 1
        BY <1>1, <1>3, AtIs
      <4> QED BY <1>3, <3>2, <4>1, <4>2 DEF Moved
    <3>3. CASE k = "right"
      <4>1. Expected(k) = [line EXCEPT !.at = At(line.at + 1)]
        BY <3>1, <3>3 DEF Expected, Printing
      <4>2. At(cursor + 1) = IF cursor = Len(t) THEN cursor ELSE cursor + 1
        BY <1>1, <1>3, AtIs
      <4> QED BY <1>3, <3>3, <4>1, <4>2 DEF Moved
    <3>4. CASE k = "up"
      <4>1. Expected(k) = Whole(Kept[Max({1, current - 1})])
        BY <3>1, <3>4 DEF Expected, Printing
      <4>2. current \in 1..Len(inputs) /\ Len(inputs) \in Nat
        BY ConsoleAssumption DEF LinesInv
      <4>3. Max({1, current - 1}) = IF current = 1 THEN 1 ELSE current - 1
        <5>1. current - 1 \in Int /\ 1 \in Int
          BY <4>2
        <5>2. Max({1, current - 1}) = IF 1 >= current - 1 THEN 1 ELSE current - 1
          BY <5>1, MaxOfTwo
        <5> QED BY <4>2, <5>2
      <4> QED BY <3>4, <4>1, <4>3 DEF Moved
    <3>5. CASE k = "down"
      <4>1. Expected(k) = IF current < Len(inputs) THEN Whole(Kept[current + 1]) ELSE line
        BY <3>1, <3>5 DEF Expected, Printing
      <4> QED BY <1>3, <3>5, <4>1 DEF Moved, Now
    <3> QED BY <1>13, <3>2, <3>3, <3>4, <3>5
  <2>3. Moved(a, t)' = Moved(a, t)
    <3>1. Kept' = Kept
      BY <1>2 DEF Kept
    <3>2. ASSUME NEW i  PROVE Whole(Kept[i])' = Whole(Kept[i])
      BY <3>1
    <3> HIDE DEF a
    <3> QED BY <1>2, <3>1, <3>2 DEF Moved, Now
  <2> HIDE DEF a
  <2> QED BY <1>2, <1>5, <1>13, <2>1, <2>2, <2>3 DEF Ahead
<1>14. CASE ~normal /\ k = "backspace"
  <2>1. tty' = <<"backspace">>
    BY <1>2, <1>14, BytesAre
  <2>2. line' = IF cursor = 0 THEN line ELSE [text |-> RemoveAt(t, cursor), at |-> cursor - 1]
    BY <1>2, <1>3, <1>14 DEF Expected, Printing, LostKey
  <2> QED BY <1>2, <1>3, <1>5, <1>14, <2>1, <2>2 DEF Ahead, Now
<1>15. CASE ~normal /\ k \in {"enter", "clear"}
  <2>1. tty' \in {<<"enter">>, <<"clear">>}
    BY <1>2, <1>15, BytesAre
  <2>2. line' = [text |-> <<>>, at |-> 0]
    BY <1>2, <1>15 DEF Expected, Printing, LostKey
  <2> QED BY <1>2, <1>5, <1>15, <2>1, <2>2 DEF Ahead
<1> QED BY <1>5, <1>6, <1>8, <1>9, <1>10, <1>11, <1>12, <1>13, <1>14, <1>15

\* A turn of the reader: what is still on its way makes the rest of it.
LEMMA LineRead ==
  ASSUME TtyInv, ModeInv, LinesInv, TextsInv, LineInv, ReadByte
  PROVE  LineInv'
<1> DEFINE n == Head(tty)
           do == Outcome(n)
<1>1. PICK t \in Seq(Chars) : Coded(input, t) /\ cursor \in 0..Len(t) /\ Ahead(t)
  BY DEF LineInv
<1>2. tty # <<>> /\ tty' = Tail(tty) /\ insert' = (insert \/ do = "i") /\ line' = line /\ insert \in BOOLEAN
  BY DEF ReadByte, ideal, ModeInv
<1>3. do \in {"nothing", "i", "["} => UNCHANGED <<input, cursor>>
  BY <1>1, TurnIs
<1>4. Len(t) \in Nat /\ cursor \in Int /\ "w1" \in Chars /\ "wide" \in Chars
  BY <1>1 DEF Chars
\* What is left to do once a text is at hand.
<1>5. ASSUME NEW u \in Seq(Chars), Coded(input', u), cursor' \in 0..Len(u), Ahead(u)'  PROVE LineInv'
  <2>1. Coded(input, u)' /\ (cursor \in 0..Len(u))'
    BY <1>5
  <2> QED BY <1>5, <2>1 DEF LineInv
<1>6. ASSUME NEW u \in Seq(Chars), Coded(input', u), cursor' \in 0..Len(u), tty' = <<>>,
             line = [text |-> u, at |-> cursor']
      PROVE  LineInv'
  <2>1. Idle' /\ line' = Now(u)'
    BY <1>2, <1>6 DEF Idle, Now
  <2> QED BY <1>5, <1>6, <2>1 DEF Ahead
<1>7. CASE Idle /\ line = Now(t)
  <2>1. do \in {"nothing", "i", "["} /\ (tty' = <<>> \/ ~insert')
    <3>1. CASE ~insert
      <4>1. do = IF n = "i" THEN "i" ELSE "nothing"
        BY <1>2, <3>1, ByteIs
      <4>2. n = "i" => tty = <<"i">>
        BY <1>2, BytesAre DEF TtyInv
      <4> QED BY <1>2, <3>1, <4>1, <4>2
    <3>2. CASE insert /\ tty = <<"esc">>
      BY <1>2, <3>2, Does
    <3>3. CASE insert /\ tty = <<"[">> /\ (escape = 3 \/ (Remote /\ input = <<>>))
      BY <1>2, <3>3, Does
    <3> QED BY <1>2, <1>7, <3>1, <3>2, <3>3 DEF Idle
  <2>2. input' = input /\ cursor' = cursor
    BY <1>3, <2>1
  <2>3. Ahead(t)'
    BY <1>2, <1>7, <2>1, <2>2 DEF Ahead, Idle, Now
  <2> QED BY <1>1, <1>5, <2>2, <2>3
<1>8. CASE insert /\ \E a \in Tails : tty \in {<<"esc", "[", a>>, <<"[", a>>, <<a>>} /\ line = Moved(a, t)
  <2>1. PICK a \in Tails : tty \in {<<"esc", "[", a>>, <<"[", a>>, <<a>>} /\ line = Moved(a, t)
    BY <1>8
  <2>2. CASE tty = <<"esc", "[", a>> \/ tty = <<"[", a>>
    <3>1. do = "nothing" /\ (tty' = <<"[", a>> \/ tty' = <<a>>)
      <4>1. Outcome("esc") = "nothing" /\ (tty = <<"[", a>> => Outcome("[") = "nothing")
        BY <1>8, Does
      <4>2. CASE tty = <<"esc", "[", a>>
        <5>1. n = "esc" /\ tty' = <<"[", a>>
          BY <1>2, <4>2
        <5> QED BY <4>1, <5>1
      <4>3. CASE tty = <<"[", a>>
        <5>1. n = "[" /\ tty' = <<a>>
          BY <1>2, <4>3
        <5> QED BY <4>1, <4>3, <5>1
      <4> QED BY <2>2, <4>2, <4>3
    <3>2. inputs' = Kept /\ LinesInv' /\ UNCHANGED <<input, current, cursor>>
      BY <1>3, <3>1, ReadIs
    <3>3. Moved(a, t)' = Moved(a, t)
      BY <3>2, MovedAgain
    <3>4. Ahead(t)'
      BY <1>2, <1>8, <2>1, <3>1, <3>3 DEF Ahead
    <3> QED BY <1>1, <1>5, <3>2, <3>4
  <2>3. CASE tty = <<a>>
    <3>1. do = a /\ tty' = <<>>
      BY <1>2, <1>8, <2>3, Does
    <3>2. PICK u \in Seq(Chars) :
            Coded(input', u) /\ cursor' \in 0..Len(u) /\ [text |-> u, at |-> cursor'] = Moved(a, t)
      BY <1>1, <3>1, TurnIs
    <3> QED BY <1>6, <2>1, <3>1, <3>2
  <2> QED BY <2>1, <2>2, <2>3
<1>9. CASE insert /\ \E k \in {"x", "i", "["} :
       /\ tty = <<k>> /\ (k = "[" => escape = 0 /\ ~(Remote /\ input = <<>>))
       /\ line = [text |-> InsertAt(t, cursor + 1, k), at |-> cursor + 1]
  <2>1. PICK k \in {"x", "i", "["} :
       /\ tty = <<k>> /\ (k = "[" => escape = 0 /\ ~(Remote /\ input = <<>>))
       /\ line = [text |-> InsertAt(t, cursor + 1, k), at |-> cursor + 1]
    BY <1>9
  <2>2. n = k /\ do = "print" /\ tty' = <<>> /\ k \in Chars \ {"wide"}
    BY <1>2, <1>9, <2>1, Does DEF Chars
  <2>3. Coded(input', InsertAt(t, cursor + 1, k)) /\ cursor' = cursor + 1
    BY <1>1, <2>2, TurnIs
  <2>4. InsertAt(t, cursor + 1, k) \in Seq(Chars) /\ Len(InsertAt(t, cursor + 1, k)) = Len(t) + 1
    BY <1>1, <2>2, PutIn
  <2> QED BY <1>1, <1>4, <1>6, <2>1, <2>2, <2>3, <2>4
<1>10. CASE /\ insert /\ tty = <<"w1", "w2">>
            /\ line = [text |-> InsertAt(t, cursor + 1, "wide"), at |-> IF cursor = Len(t) THEN cursor + 1 ELSE cursor + 2]
  <2> DEFINE u == InsertAt(t, cursor + 1, "w1")
  <2>1. n = "w1" /\ do = "print" /\ tty' = <<"w2">> /\ "w1" \in Chars \ {"wide"}
    BY <1>2, <1>10, Does DEF Chars
  <2>2. Coded(input', u) /\ cursor' = cursor + 1
    BY <1>1, <2>1, TurnIs
  <2>3. u \in Seq(Chars) /\ Len(u) = Len(t) + 1 /\ u[cursor + 1] = "w1"
        /\ [u EXCEPT ![cursor + 1] = "wide"] = InsertAt(t, cursor + 1, "wide")
    BY <1>1, <1>4, PutIn
  <2> HIDE DEF u
  <2>4. /\ insert' /\ cursor' # 0 /\ u[cursor'] = "w1"
        /\ line' = [text |-> [u EXCEPT ![cursor'] = "wide"], at |-> IF cursor' = Len(u) THEN cursor' ELSE cursor' + 1]
    <3>1. insert' /\ cursor' # 0 /\ u[cursor'] = "w1" /\ [u EXCEPT ![cursor'] = "wide"] = InsertAt(t, cursor + 1, "wide")
      <4>1. cursor' # 0
        BY <1>1, <1>4, <2>2
      <4>2. insert'
        BY <1>2, <1>10
      <4> QED BY <2>2, <2>3, <4>1, <4>2
    <3>2. (IF cursor' = Len(u) THEN cursor' ELSE cursor' + 1) = IF cursor = Len(t) THEN cursor + 1 ELSE cursor + 2
      BY <1>1, <1>4, <2>2, <2>3
    <3> QED BY <1>2, <1>10, <3>1, <3>2
  <2>5. cursor' \in 0..Len(u)
    BY <1>1, <1>4, <2>2, <2>3
  <2>6. PICK v \in Seq(Chars) : v = u
    BY <2>3
  <2>7. Ahead(v)'
    BY <2>1, <2>4, <2>6 DEF Ahead
  <2> QED BY <1>5, <2>2, <2>5, <2>6, <2>7
<1>11. CASE /\ insert /\ tty = <<"w2">> /\ cursor # 0 /\ t[cursor] = "w1"
            /\ line = [text |-> [t EXCEPT ![cursor] = "wide"], at |-> IF cursor = Len(t) THEN cursor ELSE cursor + 1]
  <2>1. n = "w2" /\ do = "print" /\ tty' = <<>>
    BY <1>2, <1>11, Does
  <2>2. /\ Coded(input', [t EXCEPT ![cursor] = "wide"])
        /\ cursor' = IF cursor = Len(t) THEN cursor ELSE cursor + 1
    BY <1>1, <1>11, <2>1, TurnIs
  <2>3. [t EXCEPT ![cursor] = "wide"] \in Seq(Chars) /\ Len([t EXCEPT ![cursor] = "wide"]) = Len(t)
    BY <1>1, <1>4, <1>11
  <2>4. cursor' \in 0..Len(t)
    BY <1>1, <1>4, <2>2
  <2> QED BY <1>6, <1>11, <2>1, <2>2, <2>3, <2>4
<1>12. CASE /\ insert /\ tty = <<"backspace">>
            /\ line = IF cursor = 0 THEN Now(t) ELSE [text |-> RemoveAt(t, cursor), at |-> cursor - 1]
  <2>1. do = "backspace" /\ tty' = <<>>
    BY <1>2, <1>12, Does
  <2>2. CASE cursor = 0
    <3>1. input' = input /\ cursor' = 0
      BY <1>1, <2>1, <2>2, TurnIs
    <3> QED BY <1>1, <1>4, <1>6, <1>12, <2>1, <2>2, <3>1 DEF Now
  <2>3. CASE cursor # 0
    <3>1. Coded(input', RemoveAt(t, cursor)) /\ cursor' = cursor - 1
      BY <1>1, <2>1, <2>3, TurnIs
    <3>2. RemoveAt(t, cursor) \in Seq(Chars) /\ Len(RemoveAt(t, cursor)) = Len(t) - 1
      <4>1. cursor \in 1..Len(t)
        BY <1>1, <1>4, <2>3
      <4> QED BY <4>1, RemoveIs
    <3> QED BY <1>1, <1>4, <1>6, <1>12, <2>1, <2>3, <3>1, <3>2
  <2> QED BY <2>2, <2>3
<1>13. CASE insert /\ tty \in {<<"enter">>, <<"clear">>} /\ line = [text |-> <<>>, at |-> 0]
  <2>1. do \in {"enter", "clear"} /\ tty' = <<>>
    <3>1. CASE tty = <<"enter">>
      BY <1>2, <1>13, <3>1, Does
    <3>2. CASE tty = <<"clear">>
      BY <1>2, <1>13, <3>2, Does
    <3> QED BY <1>13, <3>1, <3>2
  <2>2. input' = <<>> /\ cursor' = 0
    BY <1>1, <2>1, TurnIs
  <2>3. <<>> \in Seq(Chars) /\ Coded(input', <<>>)
    BY <2>2, NothingCodes
  <2>4. cursor' \in 0..Len(<<>>)
    BY <2>2
  <2>5. line = [text |-> <<>>, at |-> cursor']
    BY <1>13, <2>2
  <2> QED BY <1>6, <2>1, <2>3, <2>4, <2>5
<1> QED BY <1>1, <1>2, <1>7, <1>8, <1>9, <1>10, <1>11, <1>12, <1>13 DEF Ahead

LEMMA LineInvHolds ==
  ConsoleSpec => [](TextsInv /\ LineInv)
<1>1. ConsoleInit => TextsInv /\ LineInv
  <2> SUFFICES ASSUME ConsoleInit  PROVE TextsInv /\ LineInv
    OBVIOUS
  <2>1. /\ tty = <<>> /\ input = <<>> /\ cursor = 0 /\ inputs = << <<>> >>
        /\ line = [text |-> <<>>, at |-> 0]
    BY DEF ConsoleInit
  <2>2. TextsInv
    <3>1. Len(inputs) = 1 /\ inputs[1] = <<>>
      BY <2>1
    <3>2. \A i \in 1..Len(inputs) : inputs[i] = <<>>
      BY <3>1
    <3> QED BY <3>2, NothingCodes DEF TextsInv
  <2>3. Ahead(<<>>)
    BY <2>1 DEF Ahead, Idle, Now
  <2>4. cursor \in 0..Len(<<>>)
    BY <2>1
  <2> QED BY <2>1, <2>2, <2>3, <2>4, NothingCodes DEF LineInv
<1>2. KeyInv /\ TextsInv /\ LineInv /\ [ConsoleNext]_consolevars => (TextsInv /\ LineInv)'
  <2> SUFFICES ASSUME KeyInv, TextsInv, LineInv, [ConsoleNext]_consolevars  PROVE TextsInv' /\ LineInv'
    OBVIOUS
  <2>1. TtyInv /\ ModeInv /\ LinesInv
    BY DEF KeyInv
  <2>2. TextsInv'
    BY <2>1, TextsKept
  <2>3. CASE ReadByte
    BY <2>1, <2>2, <2>3, LineRead
  <2>4. CASE Timeout
    <3>1. PICK t \in Seq(Chars) : Coded(input, t) /\ cursor \in 0..Len(t) /\ Ahead(t)
      BY DEF LineInv
    <3>2. tty = <<>> /\ UNCHANGED <<tty, input, cursor, line>>
      BY <2>4 DEF Timeout
    <3>3. Ahead(t)'
      BY <3>1, <3>2 DEF Ahead, Idle, Now
    <3>4. Coded(input, t)' /\ (cursor \in 0..Len(t))'
      BY <3>1, <3>2
    <3> QED BY <2>2, <3>1, <3>3, <3>4 DEF LineInv
  <2>5. ASSUME NEW k \in Keys, Press(k)  PROVE LineInv'
    BY <2>1, <2>5, LinePressed
  <2>6. CASE UNCHANGED consolevars
    <3>1. PICK t \in Seq(Chars) : Coded(input, t) /\ cursor \in 0..Len(t) /\ Ahead(t)
      BY DEF LineInv
    <3>2. UNCHANGED <<tty, escape, insert, input, cursor, inputs, current, line>>
      BY <2>6 DEF consolevars
    <3>3. Kept' = Kept
      BY <3>2 DEF Kept
    <3>4. ASSUME NEW i  PROVE Whole(Kept[i])' = Whole(Kept[i])
      BY <3>3
    <3>5. \A a : Moved(a, t)' = Moved(a, t)
      BY <3>2, <3>3, <3>4 DEF Moved, Now
    <3>6. Ahead(t)'
      BY <3>1, <3>2, <3>5 DEF Ahead, Idle, Now
    <3>7. Coded(input, t)' /\ (cursor \in 0..Len(t))'
      BY <3>1, <3>2
    <3> QED BY <2>2, <3>1, <3>6, <3>7 DEF LineInv
  <2> QED BY <2>2, <2>3, <2>4, <2>5, <2>6 DEF ConsoleNext
<1> QED BY <1>1, <1>2, KeyInvHolds, PTL DEF ConsoleSpec

\* Once its bytes are read, every key has done to the line what it stands for
\* (keys.go, Do; term.go, Input), for any keys, in both modes of the client
\* and however many lines the history keeps.
THEOREM LineIsAsTyped ==
  ConsoleSpec => []LineAsTyped
<1>1. KeyInv /\ LineInv => LineAsTyped
  <2> SUFFICES ASSUME KeyInv, LineInv, tty = <<>>
               PROVE  input = Encode(line.text) /\ cursor = line.at /\ insert = ~normal
    BY DEF LineAsTyped
  <2>1. PICK t \in Seq(Chars) : Coded(input, t) /\ Ahead(t)
    BY DEF LineInv
  <2>2. line = Now(t)
    BY <2>1 DEF Ahead
  <2>3. line.text = t /\ line.at = cursor
    BY <2>2 DEF Now
  <2>4. input = Encode(t)
    BY <2>1, OneEncoding
  <2> QED BY <2>3, <2>4 DEF KeyInv, ModeInv
<1> QED BY <1>1, KeyInvHolds, LineInvHolds, PTL
=============================================================================
