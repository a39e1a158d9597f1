--------------------------- MODULE TransferProofs ---------------------------
(***************************************************************************)
(* WaitMeansAll and LocalIsWhole of module Transfer, for any songs, sizes, *)
(* bounds and files of the server.                                         *)
(***************************************************************************)
EXTENDS Transfer, FiniteSetTheorems, FunctionTheorems, SequenceTheorems, TLAPS

Sizes == 1..MaxSize

\* What is asked for.
Demand == [k : {"list"}] \cup [k : {"song"}, s : Songs]

Known == [s : Songs \cup {NoSong}, p : BOOLEAN]

FlowOK ==
  /\ asked \in Seq(Demand) /\ jobs \in Seq(Job) /\ wire \in Seq(Cell)
  /\ conn \in {"up", "cut"} /\ astray \in BOOLEAN

ReaderOK ==
  /\ pc \in {"read", "list", "copy"} /\ todo \subseteq Songs
  /\ copy \in [s : Songs \cup {NoSong}, left : Nat, got : Seq(Cell)]
  /\ pc = "copy" => copy.s \in Songs

PlayerOK ==
  /\ mode \in {"download", "node"}
  /\ now \in Known /\ told \subseteq Known /\ ms \in Known
  /\ paused \in BOOLEAN /\ playing \in BOOLEAN
  /\ current \in Songs \cup {NoSong} /\ last \in Songs \cup {NoSong}

StoreOK ==
  /\ lib \in [Songs -> 0..MaxSize]
  /\ local \in [Songs -> {NoSong} \cup Seq(Cell)]
  /\ wg \in Int /\ main \in {"wait", "done"}
  /\ {faults, swaps, changes} \subseteq Nat
  /\ mixed \subseteq Songs /\ cut \subseteq Songs /\ failed \subseteq Songs

TypeOK == FlowOK /\ ReaderOK /\ PlayerOK /\ StoreOK

ByteOf(s, v) == [k |-> "byte", s |-> s, v |-> v]

\* After its i-th cell w has n bytes of song s in size v; fewer only if the
\* connection, which is c, was cut.
Leads(c, w, i, n, s, v) ==
  /\ \A j \in 1..n : i + j <= Len(w) => w[i + j] = ByteOf(s, v)
  /\ i + n > Len(w) => c = "cut"

\* After the header of a song that was always sent as announced comes the song.
WireInv ==
  \A i \in 1..Len(wire) :
    wire[i].k = "song" /\ wire[i].s \notin mixed =>
      Leads(conn, wire, i, wire[i].n, wire[i].s, wire[i].n)

\* What the copy has taken, and what it is going to take, are the bytes of the
\* song in one size.
CopyInv ==
  pc = "copy" /\ copy.s \notin mixed =>
    \E v \in Sizes :
      /\ Len(copy.got) + copy.left = v
      /\ \A j \in 1..Len(copy.got) : copy.got[j] = ByteOf(copy.s, v)
      /\ Leads(conn, wire, 0, copy.left, copy.s, v)

\* What is on its way and will be counted down, in a download: requests,
\* answers, the headers on the wire and what the read loop is at.
Marks(w)   == {i \in 1..Len(w) : w[i].k # "byte"}
Headers(w) == Cardinality(Marks(w))

Outstanding == Len(asked) + Len(jobs) + Headers(wire) + (IF pc = "read" THEN 0 ELSE 1)

\* In q is the list, or song s.
Coming(q, s) == \E i \in 1..Len(q) : q[i].k = "list" \/ (q[i].k = "song" /\ q[i].s = s)

Accounted(s) ==
  \/ Local(s) \/ lib[s] = 0 \/ swaps > 0 \/ s \in failed
  \/ Coming(asked, s) \/ Coming(jobs, s) \/ Coming(wire, s)
  \/ (pc = "list" /\ s \in todo) \/ (pc = "copy" /\ copy.s = s)

\* The WaitGroup counts no less than what is outstanding, and more if anything
\* was lost.
Balance ==
  /\ wg >= Outstanding
  /\ wg > Outstanding \/ \A s \in Songs : Accounted(s)

\* A download hears of nothing that is played.
Deaf ==
  /\ \A i \in 1..Len(jobs) : jobs[i].k \notin {"now", "state"}
  /\ \A i \in 1..Len(wire) : wire[i].k \notin {"now", "state"}

CountInv ==
  /\ main = "done" => mode = "download" /\ wg = 0
  /\ mode = "node" => wg = 0
  /\ mode = "download" => Deaf /\ Balance

IInv == TypeOK /\ WireInv /\ CopyInv /\ LocalIsWhole /\ CountInv

-----------------------------------------------------------------------------
(* Types.                                                                  *)

\* The cells of a connection tell themselves apart.
LEMMA Kinds ==
  ASSUME NEW c \in Cell
  PROVE  /\ c.k \in {"list", "none", "song", "now", "state", "byte"}
         /\ c.k = "song" => c.s \in Songs /\ c.n \in 1..MaxSize /\ c = [k |-> "song", s |-> c.s, n |-> c.n]
         /\ c.k = "now" => c.s \in Songs \cup {NoSong}
         /\ c.k = "state" => c.p \in BOOLEAN
         /\ c \in Job <=> c.k # "byte"
BY DEF Cell, Job

LEMMA Answered ==
  ASSUME NEW r \in Demand, lib \in [Songs -> 0..MaxSize], MaxSize \in Nat
  PROVE  /\ Answer(r) \in Job /\ Answer(r).k \in {"list", "none", "song"}
         /\ r.k = "list" => Answer(r).k = "list"
         /\ r.k = "song" => \/ Answer(r).k = "none" /\ lib[r.s] = 0
                            \/ Answer(r).k = "song" /\ Answer(r).s = r.s
<1>1. CASE r \in [k : {"list"}]
  BY <1>1 DEF Answer, Job
<1>2. CASE r \in [k : {"song"}, s : Songs]
  <2>1. r.k = "song" /\ r.s \in Songs /\ lib[r.s] \in 0..MaxSize
    BY <1>2
  <2>2. CASE lib[r.s] = 0
    BY <2>1, <2>2 DEF Answer, Job
  <2>3. CASE lib[r.s] # 0
    BY <2>1, <2>3 DEF Answer, Job
  <2> QED BY <2>2, <2>3
<1> QED BY <1>1, <1>2 DEF Demand

\* What the answer j is on the wire: itself, and the bytes of a song.
LEMMA CellsAre ==
  ASSUME NEW j \in Job, lib \in [Songs -> 0..MaxSize], MaxSize \in Nat, ~(j.k = "song" /\ lib[j.s] = 0)
  PROVE  /\ Cells(j) \in Seq(Cell) /\ Len(Cells(j)) >= 1 /\ Cells(j)[1] = j
         /\ \A i \in 2..Len(Cells(j)) : Cells(j)[i] = ByteOf(j.s, lib[j.s])
         /\ Len(Cells(j)) = IF j.k = "song" THEN 1 + lib[j.s] ELSE 1
<1>1. j \in Cell
  BY DEF Cell
<1>2. CASE j.k # "song"
  <2>1. Cells(j) = <<j>>
    BY <1>2 DEF Cells
  <2> QED BY <1>1, <1>2, <2>1
<1>3. CASE j.k = "song"
  <2> DEFINE b == [i \in 1..lib[j.s] |-> [k |-> "byte", s |-> j.s, v |-> lib[j.s]]]
  <2>1. j.s \in Songs /\ lib[j.s] \in 1..MaxSize
    BY <1>1, <1>3, Kinds
  <2>2. [k |-> "byte", s |-> j.s, v |-> lib[j.s]] \in Cell
    BY <2>1 DEF Cell
  <2>3. b \in Seq(Cell) /\ Len(b) = lib[j.s]
    BY <2>1, <2>2
  <2>4. \A i \in 1..lib[j.s] : b[i] = ByteOf(j.s, lib[j.s])
    BY DEF ByteOf
  <2>5. <<j>> \in Seq(Cell) /\ Len(<<j>>) = 1 /\ <<j>>[1] = j
    BY <1>1
  <2>6. Cells(j) = <<j>> \o b
    BY <1>3 DEF Cells
  <2> HIDE DEF b
  <2>7. /\ Cells(j) \in Seq(Cell) /\ Len(Cells(j)) = 1 + lib[j.s]
        /\ \A i \in 1..(1 + lib[j.s]) : Cells(j)[i] = IF i <= 1 THEN <<j>>[i] ELSE b[i - 1]
    BY <2>3, <2>5, <2>6, ConcatProperties
  <2>8. Cells(j)[1] = j
    BY <2>1, <2>5, <2>7
  <2>9. \A i \in 2..Len(Cells(j)) : Cells(j)[i] = ByteOf(j.s, lib[j.s])
    BY <2>1, <2>4, <2>7
  <2> QED BY <1>3, <2>1, <2>7, <2>8, <2>9
<1> QED BY <1>2, <1>3

LEMMA FlowTypes ==
  ASSUME TypeOK, Next  PROVE FlowOK'
<1>1. /\ asked \in Seq(Demand) /\ jobs \in Seq(Job) /\ wire \in Seq(Cell) /\ conn \in {"up", "cut"}
      /\ astray \in BOOLEAN
      /\ lib \in [Songs -> 0..MaxSize] /\ MaxSize \in Nat
      /\ \A S : <<>> \in Seq(S)
  BY TransferAssumption, EmptySeq DEF TypeOK, FlowOK, StoreOK
<1>2. \A s \in Songs : [k |-> "song", s |-> s] \in Demand
  BY DEF Demand
<1>3. \A s \in Songs : Ask(s) => asked' \in Seq(Demand)
  BY <1>1, <1>2, AppendProperties DEF Ask
<1>4. Drop => FlowOK'
  BY <1>1 DEF Drop, FlowOK
<1>5. wire # <<>> => Tail(wire) \in Seq(Cell) /\ Head(wire) \in Cell
  BY <1>1, HeadTailProperties
<1>6. CASE Serve
  <2>1. Head(asked) \in Demand /\ Tail(asked) \in Seq(Demand)
    BY <1>1, <1>6, HeadTailProperties DEF Serve
  <2>2. Append(jobs, Answer(Head(asked))) \in Seq(Job)
    BY <1>1, <2>1, Answered, AppendProperties
  <2> QED BY <1>1, <1>6, <2>1, <2>2 DEF Serve, FlowOK
<1>7. CASE SendState
  <2>1. now.s \in Songs \cup {NoSong} /\ now.p \in BOOLEAN
    BY DEF TypeOK, PlayerOK, Known
  <2>2. [k |-> "now", s |-> now.s] \in Job /\ [k |-> "state", p |-> now.p] \in Job
    BY <2>1 DEF Job
  <2>3. /\ (IF \A t \in told : t.s # now.s THEN <<[k |-> "now", s |-> now.s]>> ELSE <<>>) \in Seq(Job)
        /\ <<[k |-> "state", p |-> now.p]>> \in Seq(Job)
    BY <1>1, <2>2
  <2>4. jobs' \in Seq(Job)
    BY <1>1, <1>7, <2>3, ConcatProperties DEF SendState
  <2> QED BY <1>1, <1>7, <2>4 DEF SendState, FlowOK
<1>8. CASE Write
  <2>1. Head(jobs) \in Job /\ Tail(jobs) \in Seq(Job)
    BY <1>1, <1>8, HeadTailProperties DEF Write
  <2>2. CASE Head(jobs).k = "song" /\ lib[Head(jobs).s] = 0
    BY <1>1, <1>8, <2>2 DEF Write, FlowOK
  <2>3. CASE ~(Head(jobs).k = "song" /\ lib[Head(jobs).s] = 0)
    <3>1. wire \o Cells(Head(jobs)) \in Seq(Cell)
      BY <1>1, <2>1, <2>3, CellsAre, ConcatProperties
    <3> QED BY <1>1, <1>8, <2>1, <2>3, <3>1 DEF Write, FlowOK
  <2> QED BY <2>2, <2>3
<1>9. CASE Cut
  <2>1. \A n \in 0..Len(wire) : SubSeq(wire, 1, n) \in Seq(Cell)
    BY <1>1, SubSeqProperties, LenProperties
  <2> QED BY <1>1, <1>9, <2>1 DEF Cut, FlowOK
<1>10. CASE Swap \/ Change \/ EndList \/ EndCopy \/ Return
  BY <1>1, <1>10 DEF Swap, Change, EndList, EndCopy, Return, flow, FlowOK
<1>11. CASE Lost \/ RequestFails \/ CopyFails
  BY <1>4, <1>11 DEF Lost, RequestFails, CopyFails
<1>12. CASE TakeList \/ TakeNone \/ Copy
  BY <1>1, <1>5, <1>12 DEF TakeList, TakeNone, Copy, Next1, Taken, FlowOK
<1>13. CASE TakeSong
  BY <1>1, <1>4, <1>5, <1>13 DEF TakeSong, Next1, Taken, FlowOK
<1>14. ASSUME NEW s \in Songs, Request(s)  PROVE FlowOK'
  BY <1>1, <1>3, <1>14 DEF Request, FlowOK
<1>15. CASE TakeState
  <2>1. wire # <<>> /\ Taken /\ \E m : Follow(m) /\ (m.s \in Songs \cup {NoSong})
    <3>1. CASE Next1("now") /\ Follow([ms EXCEPT !.s = Head(wire).s])
      <4>1. Head(wire).s \in Songs \cup {NoSong} /\ [ms EXCEPT !.s = Head(wire).s].s = Head(wire).s
        BY <1>5, <3>1, Kinds DEF Next1, TypeOK, PlayerOK, Known
      <4> QED BY <1>15, <3>1, <4>1 DEF TakeState, Next1
    <3>2. CASE Next1("state") /\ Follow([ms EXCEPT !.p = Head(wire).p])
      <4>1. [ms EXCEPT !.p = Head(wire).p].s \in Songs \cup {NoSong}
        BY DEF TypeOK, PlayerOK, Known
      <4> QED BY <1>15, <3>2, <4>1 DEF TakeState, Next1
    <3> QED BY <1>15, <3>1, <3>2 DEF TakeState
  <2>2. asked' \in Seq(Demand)
    BY <1>1, <1>3, <2>1 DEF Follow, Play, Fetch
  <2> QED BY <1>1, <1>5, <2>1, <2>2 DEF Taken, FlowOK
<1> QED
  BY <1>6, <1>7, <1>8, <1>9, <1>10, <1>11, <1>12, <1>13, <1>14, <1>15 DEF Next, Read

LEMMA ReaderTypes ==
  ASSUME TypeOK, Next  PROVE ReaderOK'
<1>1. /\ ReaderOK /\ copy \in [s : Songs \cup {NoSong}, left : Nat, got : Seq(Cell)] /\ MaxSize \in Nat
      /\ wire \in Seq(Cell)
  BY TransferAssumption DEF TypeOK, ReaderOK, FlowOK
<1>2. wire # <<>> => Head(wire) \in Cell
  BY <1>1, HeadTailProperties
<1>3. NoCopy \in [s : Songs \cup {NoSong}, left : Nat, got : Seq(Cell)]
  BY EmptySeq DEF NoCopy
<1>4. Drop => ReaderOK'
  BY <1>3 DEF Drop, ReaderOK
<1>5. CASE Serve \/ SendState \/ Write \/ Cut \/ Swap \/ Change \/ Return \/ TakeNone \/ TakeState
  BY <1>1, <1>5 DEF Serve, SendState, Write, Cut, Swap, Change, Return, TakeNone, TakeState, reader, ReaderOK
<1>6. CASE Lost \/ RequestFails \/ CopyFails
  BY <1>4, <1>6 DEF Lost, RequestFails, CopyFails
<1>7. CASE TakeList \/ EndList
  BY <1>1, <1>7 DEF TakeList, EndList, ReaderOK
<1>8. ASSUME NEW s \in Songs, Request(s)  PROVE ReaderOK'
  BY <1>1, <1>8 DEF Request, ReaderOK
<1>9. CASE TakeSong
  <2>1. CASE Drop
    BY <1>4, <2>1
  <2>2. CASE pc' = "copy" /\ copy' = [s |-> Head(wire).s, left |-> Head(wire).n, got |-> <<>>] /\ todo' = todo
    <3>1. Head(wire).s \in Songs /\ Head(wire).n \in Nat
      BY <1>1, <1>2, <1>9, Kinds DEF TakeSong, Next1
    <3> QED BY <1>1, <2>2, <3>1, EmptySeq DEF ReaderOK
  <2> QED BY <1>9, <2>1, <2>2 DEF TakeSong
<1>10. CASE Copy
  <2>1. copy.left - 1 \in Nat /\ Append(copy.got, Head(wire)) \in Seq(Cell)
    BY <1>1, <1>2, <1>10, AppendProperties DEF Copy
  <2>2. copy' \in [s : Songs \cup {NoSong}, left : Nat, got : Seq(Cell)] /\ copy'.s = copy.s
    BY <1>1, <1>10, <2>1 DEF Copy
  <2> QED BY <1>1, <1>10, <2>2 DEF Copy, ReaderOK
<1>11. CASE EndCopy
  BY <1>1, <1>3, <1>11 DEF EndCopy, ReaderOK
<1> QED BY <1>5, <1>6, <1>7, <1>8, <1>9, <1>10, <1>11 DEF Next, Read

LEMMA PlayerTypes ==
  ASSUME TypeOK, Next  PROVE PlayerOK'
<1>1. PlayerOK /\ wire \in Seq(Cell)
  BY DEF TypeOK, FlowOK
<1>2. wire # <<>> => Head(wire) \in Cell
  BY <1>1, HeadTailProperties
<1>3. CASE /\ UNCHANGED <<mode, now, node>> /\ told' \in {told, {now}, {}}
  BY <1>1, <1>3 DEF PlayerOK, node
<1>4. CASE Change
  BY <1>1, <1>4 DEF Change, flow, node, PlayerOK, Known
<1>5. CASE TakeState
  <2>1. \A m : Follow(m) /\ m \in Known /\ UNCHANGED <<mode, now, told>> => PlayerOK'
    <3> SUFFICES ASSUME NEW m \in Known, Follow(m), UNCHANGED <<mode, now, told>>  PROVE PlayerOK'
      OBVIOUS
    <3>1. CASE UNCHANGED <<paused, playing, current, last>>
      BY <1>1, <3>1 DEF Follow, PlayerOK
    <3>2. CASE m.s # NoSong /\ Fetch(m)
      BY <1>1, <3>2 DEF Follow, Fetch, PlayerOK
    <3>3. CASE m.s # NoSong /\ Play(m)
      <4>1. m.s \in Songs
        BY <3>3 DEF Known
      <4>2. current' \in Songs \cup {NoSong} /\ last' \in Songs \cup {NoSong}
        BY <1>1, <3>3, <4>1 DEF Play, PlayerOK
      <4>3. paused' \in BOOLEAN
        BY <1>1, <3>3 DEF Play, PlayerOK
      <4>4. playing' \in BOOLEAN
        BY <1>1, <3>3 DEF Play, PlayerOK
      <4> QED BY <1>1, <4>2, <4>3, <4>4 DEF Follow, PlayerOK
    <3> QED BY <3>1, <3>2, <3>3 DEF Follow
  <2>2. UNCHANGED <<mode, now, told>>
    BY <1>5 DEF TakeState, Taken, server
  <2>3. ASSUME Next1("now")  PROVE [ms EXCEPT !.s = Head(wire).s] \in Known
    BY <1>1, <1>2, <2>3, Kinds DEF Next1, PlayerOK, Known
  <2>4. ASSUME Next1("state")  PROVE [ms EXCEPT !.p = Head(wire).p] \in Known
    BY <1>1, <1>2, <2>4, Kinds DEF Next1, PlayerOK, Known
  <2> QED BY <1>5, <2>1, <2>2, <2>3, <2>4 DEF TakeState
<1>6. CASE Serve \/ SendState \/ Write \/ Cut \/ Swap \/ Return
  BY <1>3, <1>6 DEF Serve, SendState, Write, Cut, Swap, Return, server, flow
<1>7. CASE Lost \/ TakeList \/ RequestFails \/ EndList \/ TakeNone \/ \E s \in Songs : Request(s)
  BY <1>3, <1>7 DEF Lost, TakeList, RequestFails, EndList, TakeNone, Request, Drop, Taken, server, flow
<1>8. CASE TakeSong \/ Copy \/ EndCopy \/ CopyFails
  BY <1>3, <1>8 DEF TakeSong, Copy, EndCopy, CopyFails, Drop, Taken, server, flow
<1> QED BY <1>4, <1>5, <1>6, <1>7, <1>8 DEF Next, Read

LEMMA StoreTypes ==
  ASSUME TypeOK, Next  PROVE StoreOK'
<1>1. /\ StoreOK /\ wire \in Seq(Cell) /\ copy \in [s : Songs \cup {NoSong}, left : Nat, got : Seq(Cell)]
      /\ MaxSize \in Nat
      /\ pc = "copy" => copy.s \in Songs
  BY TransferAssumption DEF TypeOK, FlowOK, ReaderOK
<1>2. wire # <<>> => Head(wire) \in Cell
  BY <1>1, HeadTailProperties
<1>3. Done \/ Add => wg' \in Int
  BY <1>1 DEF Done, Add, StoreOK
<1>4. CASE Serve \/ SendState \/ Cut \/ Change
  <2>1. CASE Serve
    BY <1>1, <2>1 DEF Serve, server, bounds, hist, StoreOK
  <2>2. CASE SendState
    BY <1>1, <2>2 DEF SendState, server, bounds, hist, StoreOK
  <2>3. CASE Cut
    BY <1>1, <2>3 DEF Cut, server, bounds, hist, StoreOK
  <2>4. CASE Change
    BY <1>1, <2>4 DEF Change, bounds, hist, StoreOK
  <2> QED BY <1>4, <2>1, <2>2, <2>3, <2>4
<1>5. CASE Swap
  BY <1>1, <1>5 DEF Swap, hist, StoreOK
<1>6. CASE Write
  <2>1. Head(jobs).k = "song" => Head(jobs).s \in Songs
    <3>1. Head(jobs) \in Job
      BY <1>6, HeadTailProperties DEF Write, TypeOK, FlowOK
    <3>2. Head(jobs) \in Cell
      BY <3>1 DEF Cell
    <3> QED BY <3>2, Kinds
  <2>2. mixed' \subseteq Songs
    BY <1>1, <1>6, <2>1 DEF Write, StoreOK
  <2> QED BY <1>1, <1>6, <2>2 DEF Write, server, bounds, StoreOK
<1>7. CASE Lost \/ TakeList \/ TakeState \/ Copy
  BY <1>1, <1>7 DEF Lost, TakeList, TakeState, Copy, server, bounds, hist, StoreOK
<1>8. ASSUME NEW s \in Songs, Request(s)  PROVE StoreOK'
  BY <1>1, <1>3, <1>8 DEF Request, server, bounds, hist, StoreOK
<1>9. CASE RequestFails \/ EndList \/ TakeNone
  BY <1>1, <1>3, <1>9 DEF RequestFails, EndList, TakeNone, server, bounds, hist, StoreOK
<1>10. CASE TakeSong
  <2>1. Head(wire).s \in Songs
    BY <1>2, <1>10, Kinds DEF TakeSong, Next1
  <2>2. failed' \subseteq Songs /\ wg' \in Int /\ faults' \in Nat
    BY <1>1, <1>3, <1>10, <2>1 DEF TakeSong, StoreOK
  <2> QED BY <1>1, <1>10, <2>2 DEF TakeSong, server, StoreOK
<1>11. CASE EndCopy
  BY <1>1, <1>3, <1>11 DEF EndCopy, Keep, server, bounds, StoreOK
<1>12. CASE CopyFails
  BY <1>1, <1>3, <1>12 DEF CopyFails, server, bounds, StoreOK
<1>13. CASE Return
  BY <1>1, <1>13 DEF Return, server, bounds, hist, StoreOK
<1> QED
  BY <1>4, <1>5, <1>6, <1>7, <1>8, <1>9, <1>10, <1>11, <1>12, <1>13 DEF Next, Read

LEMMA TypeStep ==
  ASSUME TypeOK, [Next]_vars  PROVE TypeOK'
<1>1. CASE Next
  BY <1>1, FlowTypes, ReaderTypes, PlayerTypes, StoreTypes DEF TypeOK
<1>2. CASE UNCHANGED vars
  BY <1>2 DEF vars, server, flow, reader, node, bounds, hist, TypeOK, FlowOK, ReaderOK, PlayerOK, StoreOK
<1> QED BY <1>1, <1>2

-----------------------------------------------------------------------------
(* Files are whole.                                                        *)

LEMMA TailLeads ==
  ASSUME NEW S, NEW w \in Seq(S), w # <<>>, NEW i \in Nat, NEW n \in Nat, NEW c, NEW s, NEW v,
         Leads(c, w, i + 1, n, s, v)
  PROVE  Leads(c, Tail(w), i, n, s, v)
<1>1. /\ Len(w) \in Nat /\ Len(Tail(w)) = Len(w) - 1
      /\ \A j \in 1..Len(Tail(w)) : Tail(w)[j] = w[j + 1]
  BY HeadTailProperties, LenProperties
<1>2. ASSUME NEW j \in 1..n, i + j <= Len(Tail(w))  PROVE Tail(w)[i + j] = ByteOf(s, v)
  <2>1. (i + 1) + j <= Len(w) /\ i + j \in 1..Len(Tail(w)) /\ (i + j) + 1 = (i + 1) + j
    BY <1>1, <1>2
  <2>2. w[(i + 1) + j] = ByteOf(s, v)
    BY <2>1 DEF Leads
  <2>3. Tail(w)[i + j] = w[(i + j) + 1]
    BY <1>1, <2>1
  <2> QED BY <2>1, <2>2, <2>3
<1>3. i + n > Len(Tail(w)) => c = "cut"
  BY <1>1 DEF Leads
<1> QED BY <1>2, <1>3 DEF Leads

LEMMA CutLeads ==
  ASSUME NEW S, NEW w \in Seq(S), NEW m \in 0..Len(w), NEW i \in Nat, NEW n \in Nat,
         NEW c, NEW s, NEW v, Leads(c, w, i, n, s, v)
  PROVE  Leads("cut", SubSeq(w, 1, m), i, n, s, v)
<1>1. /\ Len(w) \in Nat /\ Len(SubSeq(w, 1, m)) = m
      /\ \A j \in 1..m : SubSeq(w, 1, m)[j] = w[j]
  BY SubSeqProperties, LenProperties
<1>2. ASSUME NEW j \in 1..n, i + j <= m  PROVE SubSeq(w, 1, m)[i + j] = ByteOf(s, v)
  <2>1. i + j \in 1..m /\ i + j <= Len(w)
    BY <1>1, <1>2
  <2> QED BY <1>1, <2>1 DEF Leads
<1> QED BY <1>1, <1>2 DEF Leads

LEMMA ConcatLeads ==
  ASSUME NEW S, NEW w \in Seq(S), NEW x \in Seq(S), NEW i \in Nat, NEW n \in Nat,
         NEW c, NEW s, NEW v, Leads("up", w, i, n, s, v)
  PROVE  Leads(c, w \o x, i, n, s, v)
<1>1. /\ Len(w) \in Nat /\ Len(x) \in Nat /\ Len(w \o x) = Len(w) + Len(x)
      /\ \A j \in 1..Len(w) : (w \o x)[j] = w[j]
  BY ConcatProperties, LenProperties
<1>2. i + n <= Len(w)
  BY <1>1 DEF Leads
<1>3. ASSUME NEW j \in 1..n  PROVE (w \o x)[i + j] = ByteOf(s, v)
  <2>1. i + j \in 1..Len(w) /\ i + j <= Len(w)
    BY <1>1, <1>2
  <2>2. w[i + j] = ByteOf(s, v)
    BY <2>1 DEF Leads
  <2> QED BY <1>1, <2>1, <2>2
<1>4. ~(i + n > Len(w \o x))
  BY <1>1, <1>2
<1> QED BY <1>3, <1>4 DEF Leads

\* What a step may do to the wire, and to the copy.
LEMMA WireCases ==
  ASSUME TypeOK, [Next]_vars
  PROVE  /\ mixed \subseteq mixed' /\ cut \subseteq cut'
         /\ \/ UNCHANGED <<wire, conn>>
            \/ wire' = <<>>
            \/ wire # <<>> /\ wire' = Tail(wire) /\ UNCHANGED conn
            \/ conn' = "cut" /\ \E m \in 0..Len(wire) : wire' = SubSeq(wire, 1, m)
            \/ Write
         /\ \/ UNCHANGED <<pc, copy>> /\ (UNCHANGED <<wire, conn>> \/ pc # "copy" \/ Cut \/ Write)
            \/ pc' # "copy"
            \/ Copy \/ TakeSong
<1>1. CASE Serve \/ SendState \/ Cut \/ Swap \/ Change \/ Return
  BY <1>1 DEF Serve, SendState, Cut, Swap, Change, Return, reader, flow, hist
<1>2. CASE Write
  BY <1>2 DEF Write, reader
<1>3. CASE Lost \/ TakeList \/ RequestFails \/ EndList \/ CopyFails \/ EndCopy
  BY <1>3 DEF Lost, TakeList, RequestFails, EndList, CopyFails, EndCopy, Next1, Taken, Drop, flow, hist
<1>4. CASE TakeNone \/ TakeState
  BY <1>4 DEF TakeNone, TakeState, Next1, Taken, reader, hist
<1>5. ASSUME NEW s \in Songs, Request(s)
      PROVE  UNCHANGED <<wire, conn, mixed, cut, pc, copy>>
  BY <1>5 DEF Request, hist
<1>6. CASE TakeSong
  BY <1>6 DEF TakeSong, Next1, Taken, Drop
<1>7. CASE Copy
  BY <1>7 DEF Copy, Taken, hist
<1>8. CASE UNCHANGED vars
  BY <1>8 DEF vars, reader, flow, hist
<1> QED BY <1>1, <1>2, <1>3, <1>4, <1>5, <1>6, <1>7, <1>8 DEF Next, Read

\* The next answer goes on the wire whole, or the connection is given up.
LEMMA WriteCases ==
  ASSUME TypeOK, Write
  PROVE  /\ conn = "up" /\ Head(jobs) \in Job
         /\ \/ conn' = "cut" /\ wire' = wire
            \/ /\ conn' = "up" /\ wire' = wire \o Cells(Head(jobs))
               /\ ~(Head(jobs).k = "song" /\ lib[Head(jobs).s] = 0)
               /\ Head(jobs).k = "song" /\ lib[Head(jobs).s] # Head(jobs).n => Head(jobs).s \in mixed'
<1>1. Head(jobs) \in Job
  BY HeadTailProperties DEF Write, TypeOK, FlowOK
<1> QED BY <1>1 DEF Write

LEMMA WireKept ==
  ASSUME TypeOK, WireInv, [Next]_vars  PROVE WireInv'
<1>1. /\ wire \in Seq(Cell) /\ Len(wire) \in Nat /\ mixed \subseteq mixed' /\ MaxSize \in Nat
      /\ lib \in [Songs -> 0..MaxSize]
  BY WireCases, LenProperties, TransferAssumption DEF TypeOK, FlowOK, StoreOK
<1>2. \A i \in 1..Len(wire) : wire[i] \in Cell
  BY <1>1, ElementOfSeq
<1>3. \A i \in 1..Len(wire) : wire[i].k = "song" => wire[i].n \in Nat
  BY <1>1, <1>2, Kinds
<1> SUFFICES ASSUME NEW i \in 1..Len(wire'), wire'[i].k = "song", wire'[i].s \notin mixed'
             PROVE  Leads(conn', wire', i, wire'[i].n, wire'[i].s, wire'[i].n)
  BY DEF WireInv
<1>4. CASE UNCHANGED <<wire, conn>>
  BY <1>1, <1>4 DEF WireInv
<1>5. CASE wire' = <<>>
  BY <1>5
<1>6. CASE wire # <<>> /\ wire' = Tail(wire) /\ UNCHANGED conn
  <2>1. i \in Nat /\ i + 1 \in 1..Len(wire) /\ wire'[i] = wire[i + 1]
    BY <1>1, <1>6, HeadTailProperties
  <2>2. Leads(conn, wire, i + 1, wire[i + 1].n, wire[i + 1].s, wire[i + 1].n)
    BY <1>1, <2>1 DEF WireInv
  <2>3. Leads(conn, Tail(wire), i, wire[i + 1].n, wire[i + 1].s, wire[i + 1].n)
    BY <1>1, <1>3, <1>6, <2>1, <2>2, TailLeads
  <2> QED BY <1>6, <2>1, <2>3
<1>7. ASSUME conn' = "cut", NEW m \in 0..Len(wire), wire' = SubSeq(wire, 1, m)
      PROVE  Leads(conn', wire', i, wire'[i].n, wire'[i].s, wire'[i].n)
  <2>1. i \in Nat /\ i \in 1..Len(wire) /\ wire'[i] = wire[i]
    BY <1>1, <1>2, <1>7, SubSeqProperties
  <2>2. Leads(conn, wire, i, wire[i].n, wire[i].s, wire[i].n)
    BY <1>1, <2>1 DEF WireInv
  <2>3. Leads("cut", SubSeq(wire, 1, m), i, wire[i].n, wire[i].s, wire[i].n)
    BY <1>1, <1>3, <2>1, <2>2, CutLeads
  <2> QED BY <1>7, <2>1, <2>3
<1>8. CASE Write
  <2> DEFINE j == Head(jobs)
             x == Cells(j)
  <2>1. CASE conn' = "cut" /\ wire' = wire
    BY <1>1, <1>8, <2>1 DEF WireInv, Leads
  <2>2. CASE /\ conn' = "up" /\ wire' = wire \o x /\ ~(j.k = "song" /\ lib[j.s] = 0)
             /\ j.k = "song" /\ lib[j.s] # j.n => j.s \in mixed'
    <3>1. j \in Job /\ j \in Cell /\ conn = "up"
      BY <1>8, WriteCases DEF Cell
    <3>2. /\ x \in Seq(Cell) /\ Len(x) >= 1 /\ x[1] = j /\ Len(x) \in Nat
          /\ \A n \in 2..Len(x) : x[n] = ByteOf(j.s, lib[j.s])
          /\ Len(x) = IF j.k = "song" THEN 1 + lib[j.s] ELSE 1
      BY <1>1, <2>2, <3>1, CellsAre, LenProperties
    <3> HIDE DEF j, x
    <3>3. /\ Len(wire') = Len(wire) + Len(x)
          /\ \A n \in 1..(Len(wire) + Len(x)) : wire'[n] = IF n <= Len(wire) THEN wire[n] ELSE x[n - Len(wire)]
      <4>1. /\ Len(wire \o x) = Len(wire) + Len(x)
            /\ \A n \in 1..(Len(wire) + Len(x)) :
                 (wire \o x)[n] = IF n <= Len(wire) THEN wire[n] ELSE x[n - Len(wire)]
        <5>1. wire \in Seq(Cell) /\ x \in Seq(Cell)
          BY <1>1, <3>2
        <5> QED BY <5>1, ConcatProperties
      <4> QED BY <2>2, <4>1
    <3>4. CASE i <= Len(wire)
      <4>1. i \in Nat /\ i \in 1..Len(wire) /\ wire'[i] = wire[i]
        BY <1>1, <3>2, <3>3, <3>4
      <4>2. Leads("up", wire, i, wire[i].n, wire[i].s, wire[i].n)
        BY <1>1, <3>1, <4>1 DEF WireInv
      <4> QED BY <1>1, <1>3, <2>2, <3>2, <4>1, <4>2, ConcatLeads
    <3>5. CASE i = Len(wire) + 1
      <4>1. i - Len(wire) = 1 /\ wire'[i] = j
        BY <1>1, <3>2, <3>3, <3>5
      <4>2. j.n = lib[j.s] /\ Len(x) = 1 + j.n /\ j.n \in Nat
        BY <1>1, <2>2, <3>1, <3>2, <4>1, Kinds
      <4>3. ASSUME NEW n \in 1..j.n  PROVE wire'[i + n] = ByteOf(j.s, j.n)
        <5>0. Len(wire) \in Nat /\ Len(x) = 1 + j.n /\ j.n \in Nat /\ i = Len(wire) + 1
          BY <1>1, <3>5, <4>2
        <5>1. /\ i + n \in 1..(Len(wire) + Len(x)) /\ ~(i + n <= Len(wire))
              /\ (i + n) - Len(wire) = n + 1 /\ n + 1 \in 2..Len(x)
          BY <5>0
        <5>2. wire'[i + n] = x[n + 1]
          BY <3>3, <5>1
        <5> QED BY <3>2, <4>2, <5>1, <5>2
      <4>4. ~(i + j.n > Len(wire'))
        BY <1>1, <3>3, <3>5, <4>2
      <4> QED BY <4>1, <4>3, <4>4 DEF Leads
    <3>6. CASE i > Len(wire) + 1
      <4>1. i - Len(wire) \in 2..Len(x) /\ i \in 1..(Len(wire) + Len(x)) /\ ~(i <= Len(wire))
        BY <1>1, <3>2, <3>3, <3>6
      <4>2. wire'[i] = ByteOf(j.s, lib[j.s])
        BY <3>2, <3>3, <4>1
      <4> QED BY <4>2 DEF ByteOf
    <3>7. i <= Len(wire) \/ i = Len(wire) + 1 \/ i > Len(wire) + 1
      BY <1>1
    <3> QED BY <3>4, <3>5, <3>6, <3>7
  <2> QED BY <1>8, <2>1, <2>2, WriteCases
<1> QED BY <1>4, <1>5, <1>6, <1>7, <1>8, WireCases

LEMMA CopyKept ==
  ASSUME TypeOK, WireInv, CopyInv, [Next]_vars  PROVE CopyInv'
<1>1. /\ wire \in Seq(Cell) /\ Len(wire) \in Nat /\ mixed \subseteq mixed' /\ MaxSize \in Nat
      /\ copy \in [s : Songs \cup {NoSong}, left : Nat, got : Seq(Cell)]
      /\ lib \in [Songs -> 0..MaxSize]
  BY WireCases, LenProperties, TransferAssumption DEF TypeOK, FlowOK, ReaderOK, StoreOK
<1>2. wire # <<>> => /\ Head(wire) \in Cell /\ Head(wire) = wire[1] /\ 1 \in 1..Len(wire)
  BY <1>1, HeadTailProperties
<1> SUFFICES ASSUME pc' = "copy", copy'.s \notin mixed'
             PROVE  \E v \in 1..MaxSize :
                      /\ Len(copy'.got) + copy'.left = v
                      /\ \A j \in 1..Len(copy'.got) : copy'.got[j] = ByteOf(copy'.s, v)
                      /\ Leads(conn', wire', 0, copy'.left, copy'.s, v)
  BY DEF CopyInv, Sizes
<1> DEFINE Goal == \E v \in 1..MaxSize :
                      /\ Len(copy'.got) + copy'.left = v
                      /\ \A j \in 1..Len(copy'.got) : copy'.got[j] = ByteOf(copy'.s, v)
                      /\ Leads(conn', wire', 0, copy'.left, copy'.s, v)
<1>3. ASSUME pc = "copy", copy.s \notin mixed'
      PROVE  \E v \in 1..MaxSize :
               /\ Len(copy.got) + copy.left = v
               /\ \A j \in 1..Len(copy.got) : copy.got[j] = ByteOf(copy.s, v)
               /\ Leads(conn, wire, 0, copy.left, copy.s, v)
  BY <1>1, <1>3 DEF CopyInv, Sizes
\* The copy stays as it is, and so do the cells it is going to take.
<1>4. ASSUME UNCHANGED <<pc, copy>>, UNCHANGED <<wire, conn>> \/ Cut \/ Write  PROVE Goal
  <2>1. PICK v \in 1..MaxSize :
               /\ Len(copy.got) + copy.left = v
               /\ \A j \in 1..Len(copy.got) : copy.got[j] = ByteOf(copy.s, v)
               /\ Leads(conn, wire, 0, copy.left, copy.s, v)
    BY <1>3, <1>4
  <2>2. Leads(conn', wire', 0, copy.left, copy.s, v)
    <3>1. CASE UNCHANGED <<wire, conn>>
      BY <2>1, <3>1
    <3>2. CASE Cut
      <4>1. PICK m \in 0..Len(wire) : conn' = "cut" /\ wire' = SubSeq(wire, 1, m)
        BY <3>2 DEF Cut
      <4> QED BY <1>1, <2>1, <4>1, CutLeads
    <3>3. CASE Write
      <4>1. conn = "up" /\ Head(jobs) \in Job
        BY <3>3, WriteCases
      <4>2. CASE conn' = "cut" /\ wire' = wire
        BY <2>1, <4>2 DEF Leads
      <4>3. CASE wire' = wire \o Cells(Head(jobs)) /\ ~(Head(jobs).k = "song" /\ lib[Head(jobs).s] = 0)
        BY <1>1, <2>1, <4>1, <4>3, CellsAre, ConcatLeads
      <4> QED BY <3>3, <4>2, <4>3, WriteCases
    <3> QED BY <1>4, <3>1, <3>2, <3>3
  <2> QED BY <1>4, <2>1, <2>2
<1>5. CASE Copy
  <2>1. /\ pc = "copy" /\ copy.left > 0 /\ wire # <<>> /\ wire' = Tail(wire) /\ conn' = conn
        /\ copy' = [copy EXCEPT !.left = @ - 1, !.got = Append(@, Head(wire))]
    BY <1>5 DEF Copy, Taken
  <2>2. copy'.s = copy.s /\ copy'.left = copy.left - 1 /\ copy'.got = Append(copy.got, Head(wire))
    BY <1>1, <2>1
  <2>3. PICK v \in 1..MaxSize :
               /\ Len(copy.got) + copy.left = v
               /\ \A j \in 1..Len(copy.got) : copy.got[j] = ByteOf(copy.s, v)
               /\ Leads(conn, wire, 0, copy.left, copy.s, v)
    BY <1>3, <2>1, <2>2
  <2>4. copy.left \in Nat /\ copy.left - 1 \in Nat /\ 1 \in 1..copy.left
    BY <1>1, <2>1
  <2>5. Head(wire) = ByteOf(copy.s, v)
    <3>1. 0 + 1 = 1 /\ 1 <= Len(wire)
      BY <1>1, <1>2, <2>1
    <3>2. wire[0 + 1] = ByteOf(copy.s, v)
      BY <2>3, <2>4, <3>1 DEF Leads
    <3> QED BY <1>2, <2>1, <3>1, <3>2
  <2>6. /\ Len(copy.got) \in Nat /\ Len(copy'.got) = Len(copy.got) + 1
        /\ \A j \in 1..Len(copy.got) : copy'.got[j] = copy.got[j]
        /\ copy'.got[Len(copy.got) + 1] = Head(wire)
    BY <1>1, <1>2, <2>1, <2>2, AppendProperties, LenProperties
  <2>7. \A j \in 1..Len(copy'.got) : copy'.got[j] = ByteOf(copy'.s, v)
    <3>1. \A j \in 1..Len(copy'.got) : j \in 1..Len(copy.got) \/ j = Len(copy.got) + 1
      BY <2>6
    <3> QED BY <2>2, <2>3, <2>5, <2>6, <3>1
  <2>8. Leads(conn, wire, 1, copy.left - 1, copy.s, v)
    <3>1. ASSUME NEW j \in 1..(copy.left - 1), 1 + j <= Len(wire)  PROVE wire[1 + j] = ByteOf(copy.s, v)
      <4>1. 1 + j \in 1..copy.left /\ 0 + (1 + j) = 1 + j
        BY <2>4
      <4> QED BY <2>3, <3>1, <4>1 DEF Leads
    <3>2. 1 + (copy.left - 1) > Len(wire) => conn = "cut"
      BY <2>3, <2>4 DEF Leads
    <3> QED BY <3>1, <3>2 DEF Leads
  <2>9. Leads(conn, Tail(wire), 0, copy.left - 1, copy.s, v)
    <3>1. 0 + 1 = 1 /\ 0 \in Nat
      OBVIOUS
    <3> QED BY <1>1, <2>1, <2>4, <2>8, <3>1, TailLeads
  <2>10. Len(copy'.got) + copy'.left = v
    BY <2>2, <2>3, <2>4, <2>6
  <2> QED BY <2>1, <2>2, <2>7, <2>9, <2>10
<1>6. CASE TakeSong
  <2>1. /\ wire # <<>> /\ wire' = Tail(wire) /\ conn' = conn /\ Head(wire).k = "song" /\ mixed' = mixed
        /\ copy' = [s |-> Head(wire).s, left |-> Head(wire).n, got |-> <<>>]
    BY <1>6 DEF TakeSong, Next1, Taken, Drop
  <2> DEFINE n == Head(wire).n
  <2>2. n \in 1..MaxSize /\ n \in Nat
    BY <1>1, <1>2, <2>1, Kinds
  <2>3. Leads(conn, wire, 0 + 1, n, Head(wire).s, n)
    BY <1>2, <2>1 DEF WireInv
  <2>4. Leads(conn, Tail(wire), 0, n, Head(wire).s, n)
    BY <1>1, <2>1, <2>2, <2>3, TailLeads
  <2>5. copy'.got = <<>> /\ copy'.left = n /\ copy'.s = Head(wire).s /\ Len(<<>>) = 0
    BY <2>1
  <2>6. Len(copy'.got) + copy'.left = n
    BY <2>2, <2>5
  <2> QED BY <2>1, <2>2, <2>4, <2>5, <2>6
<1> QED BY <1>4, <1>5, <1>6, WireCases

\* Only the end of a copy names a file.
LEMMA LocalKept ==
  ASSUME TypeOK, CopyInv, LocalIsWhole, [Next]_vars  PROVE LocalIsWhole'
<1>1. mixed \subseteq mixed' /\ cut \subseteq cut'
  BY WireCases
<1>2. CASE UNCHANGED local
  BY <1>1, <1>2 DEF LocalIsWhole, Local
<1>3. CASE EndCopy
  <2>1. /\ pc = "copy" /\ local' = [local EXCEPT ![copy.s] = copy.got] /\ mixed' = mixed
        /\ copy.left = 0 \/ copy.s \in cut'
    BY <1>3 DEF EndCopy, Keep
  <2>2. local \in [Songs -> {NoSong} \cup Seq(Cell)] /\ copy.got \in Seq(Cell) /\ MaxSize \in Nat
    BY TransferAssumption DEF TypeOK, StoreOK, ReaderOK
  <2>3. ASSUME copy.s \in Songs, copy.s \notin mixed, copy.left = 0
        PROVE  \E v \in 1..MaxSize : copy.got = [i \in 1..v |-> [k |-> "byte", s |-> copy.s, v |-> v]]
    <3>1. PICK v \in 1..MaxSize :
             Len(copy.got) + copy.left = v /\ \A j \in 1..Len(copy.got) : copy.got[j] = ByteOf(copy.s, v)
      BY <2>1, <2>3 DEF CopyInv, Sizes
    <3>2. Len(copy.got) = v
      BY <2>2, <2>3, <3>1, LenProperties
    <3>3. /\ [k |-> "byte", s |-> copy.s, v |-> v] \in Cell
      BY <2>3 DEF Cell
    <3> DEFINE whole == [i \in 1..v |-> [k |-> "byte", s |-> copy.s, v |-> v]]
    <3>4. whole \in Seq(Cell) /\ Len(whole) = v
      BY <2>2, <3>3
    <3>5. \A j \in 1..Len(copy.got) : copy.got[j] = whole[j]
      BY <3>1, <3>2 DEF ByteOf
    <3> HIDE DEF whole
    <3>6. copy.got = whole
      BY <2>2, <3>2, <3>4, <3>5, SeqEqual
    <3> QED BY <3>6 DEF whole
  <2> SUFFICES ASSUME NEW s \in Songs, s \notin mixed', s \notin cut', Local(s)'
               PROVE  \E v \in 1..MaxSize : local'[s] = [i \in 1..v |-> [k |-> "byte", s |-> s, v |-> v]]
    BY DEF LocalIsWhole
  <2>4. CASE s = copy.s
    BY <2>1, <2>2, <2>3, <2>4
  <2>5. CASE s # copy.s
    BY <1>1, <2>1, <2>2, <2>5 DEF LocalIsWhole, Local
  <2> QED BY <2>4, <2>5
<1>4. UNCHANGED local \/ EndCopy
  <2>1. CASE Serve \/ SendState \/ Write \/ Cut \/ Swap \/ Change \/ Return \/ UNCHANGED vars
    BY <2>1 DEF Serve, SendState, Write, Cut, Swap, Change, Return, vars
  <2>2. CASE Lost \/ TakeList \/ RequestFails \/ EndList \/ CopyFails
    BY <2>2 DEF Lost, TakeList, RequestFails, EndList, CopyFails
  <2>3. CASE TakeNone \/ TakeState \/ TakeSong \/ Copy
    BY <2>3 DEF TakeNone, TakeState, TakeSong, Copy
  <2>4. ASSUME NEW s \in Songs, Request(s)  PROVE UNCHANGED local
    BY <2>4 DEF Request
  <2> QED BY <2>1, <2>2, <2>3, <2>4 DEF Next, Read
<1> QED BY <1>2, <1>3, <1>4

-----------------------------------------------------------------------------
(* The headers on a connection.                                            *)

LEMMA CountBasics ==
  ASSUME NEW w \in Seq(Cell)
  PROVE  /\ IsFiniteSet(Marks(w)) /\ Headers(w) \in Nat /\ Len(w) \in Nat
         /\ Headers(w) = 0 <=> Marks(w) = {}
<1>1. Len(w) \in Nat
  BY LenProperties
<1>2. IsFiniteSet(1..Len(w)) /\ Marks(w) \in SUBSET (1..Len(w))
  BY <1>1, FS_Interval DEF Marks
<1>3. IsFiniteSet(Marks(w))
  BY <1>2, FS_Subset
<1> QED BY <1>1, <1>3, FS_CardinalityType, FS_EmptySet DEF Headers

LEMMA CountNone == Headers(<<>>) = 0
<1>1. Marks(<<>>) = {}
  BY DEF Marks
<1> QED BY <1>1, FS_EmptySet DEF Headers

LEMMA CountTail ==
  ASSUME NEW w \in Seq(Cell), w # <<>>
  PROVE  /\ Headers(Tail(w)) = IF Head(w).k = "byte" THEN Headers(w) ELSE Headers(w) - 1
         /\ \A i \in 1..Len(w) : i = 1 \/ (i - 1 \in 1..Len(Tail(w)) /\ Tail(w)[i - 1] = w[i])
<1>1. /\ Tail(w) \in Seq(Cell) /\ Len(w) \in Nat /\ Len(w) >= 1 /\ Len(Tail(w)) = Len(w) - 1 /\ Head(w) = w[1]
      /\ \A i \in 1..Len(Tail(w)) : Tail(w)[i] = w[i + 1]
  BY HeadTailProperties, LenProperties
<1> DEFINE M == Marks(w) \ {1}
           T == Marks(Tail(w))
           f == [i \in M |-> i - 1]
<1>2. \A i \in 1..Len(w) : i = 1 \/ (i - 1 \in 1..Len(Tail(w)) /\ Tail(w)[i - 1] = w[i])
  BY <1>1
<1>3. \A i \in M : i - 1 \in T /\ i \in Nat
  BY <1>1, <1>2 DEF Marks
<1>4. ASSUME NEW t \in T  PROVE t + 1 \in M /\ (t + 1) - 1 = t
  BY <1>1 DEF Marks
<1>5. f \in [M -> T]
  BY <1>3
<1>6. \A a, b \in M : f[a] = f[b] => a = b
  BY <1>3
<1>7. \A t \in T : \E i \in M : f[i] = t
  BY <1>4
<1> HIDE DEF M, T, f
<1>8. f \in Bijection(M, T)
  BY <1>5, <1>6, <1>7, Fun_IsBij
<1>9. ExistsBijection(M, T)
  BY <1>8, Fun_ExistsBij
<1>10. IsFiniteSet(Marks(w)) /\ Cardinality(Marks(w)) \in Nat
  BY CountBasics DEF Headers
<1>11. IsFiniteSet(M) /\ Cardinality(M) = IF 1 \in Marks(w) THEN Headers(w) - 1 ELSE Headers(w)
  BY <1>10, FS_RemoveElement DEF M, Headers
<1>12. Cardinality(T) = Cardinality(M)
  BY <1>9, <1>11, FS_Bijection
<1>13. 1 \in Marks(w) <=> Head(w).k # "byte"
  BY <1>1 DEF Marks
<1> QED BY <1>2, <1>11, <1>12, <1>13 DEF Headers, T

LEMMA CountWrite ==
  ASSUME NEW w \in Seq(Cell), NEW x \in Seq(Cell), Len(x) >= 1, x[1].k # "byte",
         \A i \in 2..Len(x) : x[i].k = "byte"
  PROVE  /\ Headers(w \o x) = Headers(w) + 1
         /\ Len(w) + 1 \in 1..Len(w \o x) /\ (w \o x)[Len(w) + 1] = x[1]
         /\ \A i \in 1..Len(w) : i \in 1..Len(w \o x) /\ (w \o x)[i] = w[i]
<1>1. /\ Len(w) \in Nat /\ Len(x) \in Nat /\ Len(w \o x) = Len(w) + Len(x)
      /\ \A i \in 1..(Len(w) + Len(x)) : (w \o x)[i] = IF i <= Len(w) THEN w[i] ELSE x[i - Len(w)]
  BY ConcatProperties, LenProperties
<1>2. \A i \in 1..Len(w) : i \in 1..Len(w \o x) /\ (w \o x)[i] = w[i]
  BY <1>1
<1>3. Len(w) + 1 \in 1..Len(w \o x) /\ (w \o x)[Len(w) + 1] = x[1]
  <2>1. Len(w) + 1 \in 1..(Len(w) + Len(x)) /\ ~(Len(w) + 1 <= Len(w)) /\ (Len(w) + 1) - Len(w) = 1
    BY <1>1
  <2> QED BY <1>1, <2>1
<1>4. Marks(w \o x) = Marks(w) \cup {Len(w) + 1}
  <2>1. ASSUME NEW i \in 1..Len(w \o x), i > Len(w) + 1  PROVE (w \o x)[i].k = "byte"
    <3>1. i - Len(w) \in 2..Len(x) /\ ~(i <= Len(w)) /\ i \in 1..(Len(w) + Len(x))
      BY <1>1, <2>1
    <3> QED BY <1>1, <3>1
  <2>2. \A i \in 1..Len(w \o x) : i \in 1..Len(w) \/ i = Len(w) + 1 \/ i > Len(w) + 1
    BY <1>1
  <2> QED BY <1>2, <1>3, <2>1, <2>2 DEF Marks
<1>5. Len(w) + 1 \notin Marks(w)
  BY <1>1 DEF Marks
<1>6. Headers(w \o x) = Headers(w) + 1
  <2> DEFINE M == Marks(w)
  <2>1. IsFiniteSet(M) /\ Len(w) + 1 \notin M
    BY <1>5, CountBasics
  <2> HIDE DEF M
  <2>2. Cardinality(M \cup {Len(w) + 1}) = Cardinality(M) + 1
    BY <2>1, FS_AddElement
  <2> QED BY <1>4, <2>2 DEF Headers, M
<1> QED BY <1>2, <1>3, <1>6

LEMMA CountCut ==
  ASSUME NEW w \in Seq(Cell), NEW m \in 0..Len(w)
  PROVE  /\ SubSeq(w, 1, m) \in Seq(Cell) /\ Headers(SubSeq(w, 1, m)) <= Headers(w)
         /\ Headers(SubSeq(w, 1, m)) = Headers(w) => Marks(SubSeq(w, 1, m)) = Marks(w)
         /\ \A i \in Marks(SubSeq(w, 1, m)) : i \in 1..m /\ SubSeq(w, 1, m)[i] = w[i]
<1>1. /\ Len(w) \in Nat /\ Len(SubSeq(w, 1, m)) = m /\ SubSeq(w, 1, m) \in Seq(Cell)
      /\ \A i \in 1..m : SubSeq(w, 1, m)[i] = w[i]
  <2>1. \A i \in 1..m : w[i] \in Cell
    BY LenProperties, ElementOfSeq
  <2> QED BY <2>1, SubSeqProperties, LenProperties
<1>2. Marks(SubSeq(w, 1, m)) \in SUBSET Marks(w)
  BY <1>1 DEF Marks
<1>3. \A i \in Marks(SubSeq(w, 1, m)) : i \in 1..m /\ SubSeq(w, 1, m)[i] = w[i]
  BY <1>1 DEF Marks
<1> QED BY <1>1, <1>2, <1>3, CountBasics, FS_Subset DEF Headers

-----------------------------------------------------------------------------
(* The WaitGroup.                                                          *)

LEMMA ComingTail ==
  ASSUME NEW S, NEW q \in Seq(S), q # <<>>, NEW s, Coming(q, s)
  PROVE  Coming(Tail(q), s) \/ Head(q).k = "list" \/ (Head(q).k = "song" /\ Head(q).s = s)
<1>1. PICK i \in 1..Len(q) : q[i].k = "list" \/ (q[i].k = "song" /\ q[i].s = s)
  BY DEF Coming
<1>2. /\ Len(q) \in Nat /\ Len(Tail(q)) = Len(q) - 1 /\ Head(q) = q[1]
      /\ \A j \in 1..Len(Tail(q)) : Tail(q)[j] = q[j + 1]
  BY HeadTailProperties, LenProperties
<1>3. CASE i = 1
  BY <1>1, <1>2, <1>3
<1>4. CASE i # 1
  <2>1. i - 1 \in 1..Len(Tail(q)) /\ (i - 1) + 1 = i
    BY <1>2, <1>4
  <2>2. Tail(q)[i - 1] = q[i]
    BY <1>2, <2>1
  <2> QED BY <1>1, <2>1, <2>2 DEF Coming
<1> QED BY <1>3, <1>4

LEMMA ComingAppend ==
  ASSUME NEW S, NEW q \in Seq(S), NEW x \in S, NEW s
  PROVE  /\ Len(Append(q, x)) = Len(q) + 1
         /\ Coming(q, s) => Coming(Append(q, x), s)
         /\ x.k = "list" \/ (x.k = "song" /\ x.s = s) => Coming(Append(q, x), s)
<1>1. /\ Len(q) \in Nat /\ Len(Append(q, x)) = Len(q) + 1 /\ Append(q, x)[Len(q) + 1] = x
      /\ \A i \in 1..Len(q) : Append(q, x)[i] = q[i]
  BY AppendProperties, LenProperties
<1>2. Coming(q, s) => Coming(Append(q, x), s)
  <2>1. \A i \in 1..Len(q) : i \in 1..Len(Append(q, x))
    BY <1>1
  <2> QED BY <1>1, <2>1 DEF Coming
<1>3. Len(q) + 1 \in 1..Len(Append(q, x))
  BY <1>1
<1> QED BY <1>1, <1>2, <1>3 DEF Coming

\* Where nothing is outstanding nothing comes.
LEMMA NothingComes ==
  ASSUME TypeOK
  PROVE  /\ Outstanding \in Nat
         /\ Outstanding >= IF pc = "read" THEN 0 ELSE 1
         /\ Outstanding >= Headers(wire)
         /\ Outstanding = 0 => /\ pc = "read" /\ asked = <<>> /\ jobs = <<>> /\ Marks(wire) = {}
                               /\ \A s \in Songs : ~Coming(asked, s) /\ ~Coming(jobs, s) /\ ~Coming(wire, s)
<1>1. /\ Len(asked) \in Nat /\ Len(jobs) \in Nat /\ Headers(wire) \in Nat
      /\ Headers(wire) = 0 <=> Marks(wire) = {}
      /\ asked # <<>> => Len(asked) > 0
      /\ jobs # <<>> => Len(jobs) > 0
  BY CountBasics, LenProperties, EmptySeq DEF TypeOK, FlowOK
<1>2. Marks(wire) = {} => \A s \in Songs : ~Coming(wire, s)
  BY DEF Marks, Coming
<1>3. \A s \in Songs : ~Coming(<<>>, s)
  BY DEF Coming
<1> QED BY <1>1, <1>2, <1>3 DEF Outstanding

\* What keeps the balance: no less is counted for what is outstanding, and
\* what was accounted for still is, or more is counted.
LEMMA Balanced ==
  ASSUME TypeOK, TypeOK', Balance,
         \/ wg' > Outstanding'
         \/ wg' - Outstanding' >= wg - Outstanding /\ \A s \in Songs : Accounted(s) => Accounted(s)'
  PROVE  Balance'
<1>1. wg \in Int /\ wg' \in Int /\ Outstanding \in Nat /\ Outstanding' \in Nat
  <2>1. Outstanding \in Nat
    BY NothingComes
  <2>2. /\ Len(asked') \in Nat /\ Len(jobs') \in Nat /\ Headers(wire') \in Nat
    BY CountBasics, LenProperties DEF TypeOK, FlowOK
  <2>3. Outstanding' \in Nat
    BY <2>2 DEF Outstanding
  <2> QED BY <2>1, <2>3 DEF TypeOK, StoreOK
<1>2. CASE wg' > Outstanding'
  BY <1>1, <1>2 DEF Balance
<1>3. CASE wg' - Outstanding' >= wg - Outstanding /\ \A s \in Songs : Accounted(s) => Accounted(s)'
  <2>1. wg' >= Outstanding' /\ (wg > Outstanding => wg' > Outstanding')
    <3>1. wg >= Outstanding
      BY DEF Balance
    <3>2. wg' - Outstanding' >= wg - Outstanding
      BY <1>3
    <3>3. \A a, b \in Int : \A c, d \in Nat : b - d >= a - c /\ a >= c => b >= d /\ (a > c => b > d)
      OBVIOUS
    <3> QED BY <1>1, <3>1, <3>2, <3>3
  <2>2. CASE wg > Outstanding
    BY <2>1, <2>2 DEF Balance
  <2>3. CASE \A s \in Songs : Accounted(s)
    <3>1. \A s \in Songs : Accounted(s)'
      BY <1>3, <2>3
    <3> QED BY <2>1, <3>1 DEF Balance
  <2> QED BY <2>2, <2>3 DEF Balance
<1> QED BY <1>2, <1>3

\* An error ends the loop, after it has counted down what it was at, if it was
\* at anything, and noted the song.
LEMMA DropBalanced ==
  ASSUME TypeOK, TypeOK', Balance, Drop, UNCHANGED <<lib, local, swaps>>, failed \subseteq failed',
         \/ UNCHANGED wg
         \/ /\ wg' = wg - 1 /\ Outstanding >= 1
            /\ Outstanding = 1 => \A s \in Songs : Accounted(s) => Local(s) \/ lib[s] = 0 \/ swaps > 0 \/ s \in failed'
  PROVE  Balance'
<1>1. Outstanding' = 0
  BY CountNone DEF Drop, Outstanding
<1>2. wg \in Int /\ Outstanding \in Nat /\ wg >= Outstanding
  BY NothingComes DEF TypeOK, StoreOK, Balance
<1>3. CASE wg' > 0
  BY <1>1, <1>3, Balanced
<1>4. CASE wg' <= 0
  <2>1. wg' = 0
    BY <1>2, <1>4
  <2>2. \A s \in Songs : Accounted(s)
    BY <1>2, <2>1 DEF Balance
  <2>3. CASE UNCHANGED wg
    <3>1. Outstanding = 0
      BY <1>2, <2>1, <2>3
    <3>2. \A s \in Songs : Local(s) \/ lib[s] = 0 \/ swaps > 0 \/ s \in failed
      BY <2>2, <3>1, NothingComes DEF Accounted
    <3> QED BY <1>1, <2>1, <3>2 DEF Balance, Accounted, Local
  <2>4. CASE wg' = wg - 1 /\ Outstanding >= 1
    <3>1. Outstanding = 1
      BY <1>2, <2>1, <2>4
    <3>2. \A s \in Songs : Local(s) \/ lib[s] = 0 \/ swaps > 0 \/ s \in failed'
      BY <1>2, <2>1, <2>2, <2>4, <3>1
    <3> QED BY <1>1, <2>1, <3>2 DEF Balance, Accounted, Local
  <2> QED BY <2>3, <2>4
<1> QED BY <1>2, <1>3, <1>4

\* Of the answers in a download.
LEMMA DeafKept ==
  ASSUME TypeOK, Deaf, mode = "download", [Next]_vars
  PROVE  Deaf'
<1>1. /\ asked \in Seq(Demand) /\ jobs \in Seq(Job) /\ wire \in Seq(Cell)
      /\ lib \in [Songs -> 0..MaxSize] /\ MaxSize \in Nat
  BY TransferAssumption DEF TypeOK, FlowOK, StoreOK
<1> DEFINE Quiet(q) == \A i \in 1..Len(q) : q[i].k \notin {"now", "state"}
<1>2. Quiet(jobs) /\ Quiet(wire)
  BY DEF Deaf
<1>3. Quiet(<<>>)
  OBVIOUS
<1>4. ASSUME NEW S, NEW q \in Seq(S), q # <<>>, Quiet(q)  PROVE Quiet(Tail(q)) /\ Head(q).k \notin {"now", "state"}
  <2>1. /\ Len(q) \in Nat /\ Len(q) >= 1 /\ Len(Tail(q)) = Len(q) - 1 /\ Head(q) = q[1]
        /\ \A j \in 1..Len(Tail(q)) : Tail(q)[j] = q[j + 1]
    BY <1>4, HeadTailProperties, LenProperties
  <2>2. \A j \in 1..Len(Tail(q)) : j + 1 \in 1..Len(q)
    BY <2>1
  <2> QED BY <1>4, <2>1, <2>2
<1>5. CASE Serve
  <2>1. Head(asked) \in Demand
    BY <1>1, <1>5, HeadTailProperties DEF Serve
  <2>2. Answer(Head(asked)) \in Job /\ Answer(Head(asked)).k \notin {"now", "state"}
    BY <1>1, <2>1, Answered
  <2>3. /\ Len(jobs) \in Nat /\ Len(jobs') = Len(jobs) + 1 /\ jobs'[Len(jobs) + 1] = Answer(Head(asked))
        /\ \A i \in 1..Len(jobs) : jobs'[i] = jobs[i]
    BY <1>1, <1>5, <2>2, AppendProperties, LenProperties DEF Serve
  <2>4. \A i \in 1..Len(jobs') : i \in 1..Len(jobs) \/ i = Len(jobs) + 1
    BY <2>3
  <2>5. Quiet(jobs')
    BY <1>2, <2>2, <2>3, <2>4
  <2> QED BY <1>2, <1>5, <2>5 DEF Serve, Deaf
<1>6. CASE Write
  <2>1. /\ jobs # <<>> /\ Head(jobs) \in Job
        /\ \/ jobs' = <<>> /\ wire' = wire
           \/ /\ jobs' = Tail(jobs) /\ wire' = wire \o Cells(Head(jobs))
              /\ ~(Head(jobs).k = "song" /\ lib[Head(jobs).s] = 0)
    BY <1>6, WriteCases DEF Write
  <2>2. CASE jobs' = <<>> /\ wire' = wire
    BY <1>2, <1>3, <2>2 DEF Deaf
  <2>3. CASE /\ jobs' = Tail(jobs) /\ wire' = wire \o Cells(Head(jobs))
             /\ ~(Head(jobs).k = "song" /\ lib[Head(jobs).s] = 0)
    <3> DEFINE x == Cells(Head(jobs))
    <3>1. /\ x \in Seq(Cell) /\ Len(x) \in Nat /\ Len(x) >= 1 /\ x[1] = Head(jobs)
          /\ \A i \in 2..Len(x) : x[i] = ByteOf(Head(jobs).s, lib[Head(jobs).s])
      BY <1>1, <2>1, <2>3, CellsAre, LenProperties
    <3>2. Quiet(Tail(jobs)) /\ Head(jobs).k \notin {"now", "state"}
      BY <1>1, <1>2, <1>4, <2>1
    <3>3. Quiet(x)
      <4>1. \A i \in 1..Len(x) : i = 1 \/ i \in 2..Len(x)
        BY <3>1
      <4> QED BY <3>1, <3>2, <4>1 DEF ByteOf
    <3> HIDE DEF x
    <3>4. /\ Len(wire) \in Nat /\ Len(wire \o x) = Len(wire) + Len(x)
          /\ \A i \in 1..(Len(wire) + Len(x)) :
               (wire \o x)[i] = IF i <= Len(wire) THEN wire[i] ELSE x[i - Len(wire)]
      BY <1>1, <3>1, ConcatProperties, LenProperties
    <3>5. ASSUME NEW i \in 1..Len(wire \o x)  PROVE (wire \o x)[i].k \notin {"now", "state"}
      <4>1. CASE i <= Len(wire)
        <5>1. i \in 1..Len(wire) /\ (wire \o x)[i] = wire[i]
          BY <3>1, <3>4, <4>1
        <5> QED BY <1>2, <5>1
      <4>2. CASE ~(i <= Len(wire))
        <5>1. i - Len(wire) \in 1..Len(x) /\ (wire \o x)[i] = x[i - Len(wire)]
          BY <3>1, <3>4, <4>2
        <5> QED BY <3>3, <5>1
      <4> QED BY <4>1, <4>2
    <3>6. wire' = wire \o x
      BY <2>3 DEF x
    <3> QED BY <2>3, <3>2, <3>5, <3>6 DEF Deaf
  <2> QED BY <2>1, <2>2, <2>3
<1>7. CASE Cut
  <2>1. PICK m \in 0..Len(wire) : jobs' = <<>> /\ wire' = SubSeq(wire, 1, m)
    BY <1>7 DEF Cut
  <2>2. \A i \in 1..Len(wire') : i \in 1..Len(wire) /\ wire'[i] = wire[i]
    <3>1. Len(wire) \in Nat /\ \A i \in 1..m : i \in 1..Len(wire) /\ wire[i] \in Cell
      BY <1>1, LenProperties, ElementOfSeq
    <3>2. Len(wire') = m /\ \A i \in 1..m : wire'[i] = wire[i]
      BY <2>1, <3>1, SubSeqProperties
    <3> QED BY <3>1, <3>2
  <2> QED BY <1>2, <2>1, <2>2 DEF Deaf
<1>8. CASE UNCHANGED <<jobs, wire>>
  BY <1>8 DEF Deaf
<1>9. CASE Drop
  BY <1>9 DEF Drop, Deaf
<1>10. CASE wire # <<>> /\ Taken
  BY <1>1, <1>2, <1>4, <1>10 DEF Taken, Deaf
<1>11. ~SendState
  BY DEF SendState
<1>12. CASE Swap \/ Change \/ EndList \/ EndCopy \/ Return \/ \E s \in Songs : Request(s)
  BY <1>8, <1>12 DEF Swap, Change, EndList, EndCopy, Return, Request, flow
<1>13. CASE Lost \/ TakeList \/ RequestFails \/ TakeNone \/ TakeSong \/ Copy \/ CopyFails \/ TakeState
  BY <1>9, <1>10, <1>13 DEF Lost, TakeList, RequestFails, TakeNone, TakeSong, Copy, CopyFails, TakeState, Next1
<1>14. CASE UNCHANGED vars
  BY <1>8, <1>14 DEF vars, flow
<1> QED BY <1>5, <1>6, <1>7, <1>11, <1>12, <1>13, <1>14 DEF Next, Read

\* The server's part: it answers in order, writes what it has answered, and
\* gives up what cannot be written.
LEMMA ServerBalance ==
  ASSUME TypeOK, TypeOK', Balance, mode = "download", Serve \/ Write \/ Cut \/ Swap
  PROVE  Balance'
<1>1. /\ asked \in Seq(Demand) /\ jobs \in Seq(Job) /\ wire \in Seq(Cell)
      /\ lib \in [Songs -> 0..MaxSize] /\ MaxSize \in Nat /\ wg \in Int /\ swaps \in Nat
      /\ Len(asked) \in Nat /\ Len(jobs) \in Nat /\ Headers(wire) \in Nat
  BY TransferAssumption, LenProperties, CountBasics DEF TypeOK, FlowOK, StoreOK
<1>2. CASE Serve
  <2> DEFINE r == Head(asked)
             a == Answer(r)
  <2>1. /\ asked # <<>> /\ asked' = Tail(asked) /\ jobs' = Append(jobs, a)
        /\ UNCHANGED <<lib, swaps, local, failed, wire, pc, todo, copy, wg>>
    BY <1>2 DEF Serve, server, reader, bounds, hist
  <2>2. r \in Demand /\ Len(Tail(asked)) = Len(asked) - 1 /\ a \in Job
    BY <1>1, <2>1, HeadTailProperties, Answered
  <2>3. Len(jobs') = Len(jobs) + 1
    BY <1>1, <2>1, <2>2, AppendProperties
  <2>4. wg' - Outstanding' >= wg - Outstanding
    <3>1. Outstanding' = Outstanding
      BY <1>1, <2>1, <2>2, <2>3 DEF Outstanding
    <3> QED BY <1>1, <2>1, <3>1, NothingComes
  <2>5. ASSUME NEW s \in Songs, Accounted(s)  PROVE Accounted(s)'
    <3>1. Coming(jobs, s) => Coming(jobs', s)
      BY <1>1, <2>1, <2>2, ComingAppend
    <3>2. Coming(asked, s) => Coming(asked', s) \/ Coming(jobs', s) \/ lib[s] = 0
      <4>1. ASSUME Coming(asked, s)  PROVE Coming(Tail(asked), s) \/ r.k = "list" \/ (r.k = "song" /\ r.s = s)
        BY <1>1, <2>1, <4>1, ComingTail
      <4>2. r.k = "list" => a.k = "list"
        BY <1>1, <2>2, Answered
      <4>3. r.k = "song" /\ r.s = s => lib[s] = 0 \/ (a.k = "song" /\ a.s = s)
        BY <1>1, <2>2, Answered
      <4>4. a.k = "list" \/ (a.k = "song" /\ a.s = s) => Coming(jobs', s)
        BY <1>1, <2>1, <2>2, ComingAppend
      <4> QED BY <2>1, <4>1, <4>2, <4>3, <4>4
    <3> QED BY <2>1, <2>5, <3>1, <3>2 DEF Accounted, Local
  <2> QED BY <2>4, <2>5, Balanced
<1>3. CASE Write
  <2> DEFINE j == Head(jobs)
  <2>1. /\ jobs # <<>> /\ j \in Job /\ UNCHANGED <<lib, swaps, local, failed, pc, todo, copy, wg>>
        /\ \/ asked' = <<>> /\ jobs' = <<>> /\ wire' = wire
           \/ /\ asked' = asked /\ jobs' = Tail(jobs) /\ wire' = wire \o Cells(j)
              /\ ~(j.k = "song" /\ lib[j.s] = 0)
    BY <1>3, WriteCases DEF Write, server, reader, bounds
  <2>2. Len(jobs) > 0
    BY <1>1, <2>1, EmptySeq
  <2>3. CASE asked' = <<>> /\ jobs' = <<>> /\ wire' = wire
    <3>1. Len(<<>>) = 0
      OBVIOUS
    <3>2. wg' > Outstanding'
      BY <1>1, <2>1, <2>2, <2>3, <3>1 DEF Balance, Outstanding
    <3> QED BY <3>2, Balanced
  <2>4. CASE /\ asked' = asked /\ jobs' = Tail(jobs) /\ wire' = wire \o Cells(j)
             /\ ~(j.k = "song" /\ lib[j.s] = 0)
    <3> DEFINE x == Cells(j)
    <3>1. /\ x \in Seq(Cell) /\ Len(x) >= 1 /\ x[1] = j /\ x[1].k # "byte"
          /\ \A i \in 2..Len(x) : x[i].k = "byte"
      <4>1. j \in Cell /\ j.k # "byte"
        BY <2>1, Kinds DEF Cell
      <4>2. ByteOf(j.s, lib[j.s]).k = "byte"
        BY DEF ByteOf
      <4>3. /\ x \in Seq(Cell) /\ Len(x) >= 1 /\ x[1] = j
            /\ \A i \in 2..Len(x) : x[i] = ByteOf(j.s, lib[j.s])
        BY <1>1, <2>1, <2>4, CellsAre
      <4> HIDE DEF x, j
      <4> QED BY <4>1, <4>2, <4>3
    <3>2. wire' = wire \o x /\ Len(Tail(jobs)) = Len(jobs) - 1
      BY <1>1, <2>1, <2>4, HeadTailProperties
    <3> HIDE DEF x
    <3>3. /\ Headers(wire') = Headers(wire) + 1
          /\ Len(wire) + 1 \in 1..Len(wire') /\ wire'[Len(wire) + 1] = j
          /\ \A i \in 1..Len(wire) : i \in 1..Len(wire') /\ wire'[i] = wire[i]
      BY <1>1, <3>1, <3>2, CountWrite
    <3>4. Outstanding' = Outstanding
      BY <1>1, <2>1, <2>4, <3>2, <3>3 DEF Outstanding
    <3>5. ASSUME NEW s \in Songs, Accounted(s)  PROVE Accounted(s)'
      <4>1. Coming(wire, s) => Coming(wire', s)
        BY <3>3 DEF Coming
      <4>2. Coming(jobs, s) => Coming(jobs', s) \/ Coming(wire', s)
        <5>1. ASSUME Coming(jobs, s)  PROVE Coming(Tail(jobs), s) \/ j.k = "list" \/ (j.k = "song" /\ j.s = s)
          BY <1>1, <2>1, <5>1, ComingTail
        <5>2. j.k = "list" \/ (j.k = "song" /\ j.s = s) => Coming(wire', s)
          BY <3>3 DEF Coming
        <5> QED BY <2>4, <5>1, <5>2
      <4> QED BY <2>1, <2>4, <3>5, <4>1, <4>2 DEF Accounted, Local
    <3> QED BY <1>1, <2>1, <3>4, <3>5, Balanced, NothingComes
  <2> QED BY <2>1, <2>3, <2>4
<1>4. CASE Cut
  <2>1. PICK m \in 0..Len(wire) :
          /\ asked' = <<>> /\ jobs' = <<>> /\ wire' = SubSeq(wire, 1, m)
          /\ UNCHANGED <<lib, swaps, local, failed, pc, todo, copy, wg>>
    BY <1>4 DEF Cut, server, reader, hist
  <2>2. /\ Headers(wire') <= Headers(wire) /\ Headers(wire') \in Nat /\ wire' \in Seq(Cell)
        /\ Headers(wire') = Headers(wire) => Marks(wire') = Marks(wire)
        /\ \A i \in Marks(wire') : i \in 1..m /\ wire'[i] = wire[i]
    BY <1>1, <2>1, CountCut, CountBasics
  <2>3. Len(asked') = 0 /\ Len(jobs') = 0
    BY <2>1
  <2>4. CASE asked = <<>> /\ jobs = <<>> /\ Headers(wire') = Headers(wire)
    <3>1. Outstanding' = Outstanding
      BY <2>1, <2>4 DEF Outstanding
    <3>2. ASSUME NEW s \in Songs, Accounted(s)  PROVE Accounted(s)'
      <4>1. Coming(wire, s) => Coming(wire', s)
        <5>1. ASSUME NEW i \in 1..Len(wire), wire[i].k = "list" \/ (wire[i].k = "song" /\ wire[i].s = s)
              PROVE  i \in 1..Len(wire') /\ wire'[i] = wire[i]
          <6>1. i \in Marks(wire)
            BY <5>1 DEF Marks
          <6> QED BY <2>2, <2>4, <6>1 DEF Marks
        <5> QED BY <5>1 DEF Coming
      <4> QED BY <2>1, <2>4, <3>2, <4>1 DEF Accounted, Local
    <3> QED BY <1>1, <2>1, <3>1, <3>2, Balanced, NothingComes
  <2>5. CASE ~(asked = <<>> /\ jobs = <<>> /\ Headers(wire') = Headers(wire))
    <3>1. Len(asked) > 0 \/ Len(jobs) > 0 \/ Headers(wire') < Headers(wire)
      BY <1>1, <2>2, <2>5, EmptySeq
    <3>2. Outstanding > Outstanding'
      BY <1>1, <2>1, <2>2, <2>3, <3>1 DEF Outstanding
    <3>3. Outstanding' \in Nat
      BY <2>1, <2>2, <2>3 DEF Outstanding
    <3>4. wg' > Outstanding'
      BY <1>1, <2>1, <3>2, <3>3, NothingComes DEF Balance
    <3> QED BY <3>4, Balanced
  <2> QED BY <2>4, <2>5
<1>5. CASE Swap
  <2>1. UNCHANGED <<wg, asked, jobs, wire, pc>> /\ swaps' > 0
    BY <1>1, <1>5 DEF Swap, flow, reader
  <2>2. Outstanding' = Outstanding /\ \A s \in Songs : Accounted(s)'
    BY <2>1 DEF Outstanding, Accounted
  <2> QED BY <1>1, <2>1, <2>2, Balanced, NothingComes
<1> QED BY <1>2, <1>3, <1>4, <1>5

\* The client's part: the list, the songs asked for and the songs it gets.
LEMMA ReadBalance ==
  ASSUME TypeOK, TypeOK', Balance, mode = "download",
         TakeList \/ EndList \/ TakeNone \/ Copy \/ EndCopy \/ Return \/ \E s \in Songs : Request(s)
  PROVE  Balance'
<1>1. /\ asked \in Seq(Demand) /\ wire \in Seq(Cell) /\ wg \in Int
      /\ Len(asked) \in Nat /\ Len(jobs) \in Nat /\ Headers(wire) \in Nat
  BY LenProperties, CountBasics DEF TypeOK, FlowOK, StoreOK
<1>2. ASSUME wire # <<>>, wire' = Tail(wire)
      PROVE  /\ Headers(wire') = IF Head(wire).k = "byte" THEN Headers(wire) ELSE Headers(wire) - 1
             /\ \A s \in Songs : Coming(wire, s) =>
                  Coming(wire', s) \/ Head(wire).k = "list" \/ (Head(wire).k = "song" /\ Head(wire).s = s)
  <2>1. Headers(wire') = IF Head(wire).k = "byte" THEN Headers(wire) ELSE Headers(wire) - 1
    BY <1>1, <1>2, CountTail
  <2>2. \A s \in Songs : Coming(wire, s) =>
                  Coming(wire', s) \/ Head(wire).k = "list" \/ (Head(wire).k = "song" /\ Head(wire).s = s)
    BY <1>1, <1>2, ComingTail
  <2> QED BY <2>1, <2>2
<1>3. CASE TakeList
  <2>1. /\ wire # <<>> /\ wire' = Tail(wire) /\ Head(wire).k = "list" /\ pc = "read" /\ pc' = "list" /\ todo' = Songs
        /\ UNCHANGED <<asked, jobs, wg>>
    BY <1>3 DEF TakeList, Next1, Taken
  <2>2. Outstanding' = Outstanding
    BY <1>1, <1>2, <2>1 DEF Outstanding
  <2> QED BY <1>1, <2>1, <2>2, Balanced, NothingComes DEF Accounted
<1>4. CASE EndList
  <2>1. /\ pc = "list" /\ pc' = "read" /\ todo = {} /\ wg' = wg - 1
        /\ UNCHANGED <<asked, jobs, wire, lib, local, swaps, failed, copy>>
    BY <1>4 DEF EndList, Done, flow, server, bounds, hist
  <2>2. Outstanding' = Outstanding - 1
    BY <1>1, <2>1 DEF Outstanding
  <2> QED BY <1>1, <2>1, <2>2, Balanced, NothingComes DEF Accounted, Local
<1>5. CASE TakeNone
  <2>1. /\ wire # <<>> /\ wire' = Tail(wire) /\ Head(wire).k = "none" /\ wg' = wg - 1
        /\ UNCHANGED <<asked, jobs, pc, todo, copy, lib, local, swaps, failed>>
    BY <1>5 DEF TakeNone, Next1, Taken, Done, reader, server, bounds, hist
  <2>2. Outstanding' = Outstanding - 1
    BY <1>1, <1>2, <2>1 DEF Outstanding
  <2>3. \A s \in Songs : Accounted(s) => Accounted(s)'
    BY <1>2, <2>1 DEF Accounted, Local
  <2> QED BY <1>1, <2>1, <2>2, <2>3, Balanced, NothingComes
<1>6. CASE Copy
  <2>1. /\ wire # <<>> /\ wire' = Tail(wire) /\ copy'.s = copy.s
        /\ UNCHANGED <<asked, jobs, pc, todo, lib, local, swaps, failed, wg>>
    BY <1>6 DEF Copy, Taken, server, bounds, hist, TypeOK, ReaderOK
  <2>2. CASE Head(wire).k = "byte"
    <3>1. Outstanding' = Outstanding
      BY <1>2, <2>1, <2>2 DEF Outstanding
    <3>2. \A s \in Songs : Accounted(s) => Accounted(s)'
      BY <1>2, <2>1, <2>2 DEF Accounted, Local
    <3> QED BY <1>1, <2>1, <3>1, <3>2, Balanced, NothingComes
  <2>3. CASE Head(wire).k # "byte"
    <3>1. Outstanding' = Outstanding - 1
      BY <1>1, <1>2, <2>1, <2>3 DEF Outstanding
    <3>2. wg' > Outstanding'
      BY <1>1, <2>1, <3>1, NothingComes DEF Balance
    <3> QED BY <3>2, Balanced
  <2> QED BY <2>2, <2>3
<1>7. CASE EndCopy
  <2>1. /\ pc = "copy" /\ pc' = "read" /\ wg' = wg - 1 /\ local' = [local EXCEPT ![copy.s] = copy.got]
        /\ UNCHANGED <<asked, jobs, wire, lib, swaps, failed>>
    BY <1>7 DEF EndCopy, Keep, Done, flow, server, bounds
  <2>2. Outstanding' = Outstanding - 1
    BY <1>1, <2>1 DEF Outstanding
  <2>3. ASSUME NEW s \in Songs, Accounted(s)  PROVE Accounted(s)'
    <3>1. local \in [Songs -> {NoSong} \cup Seq(Cell)] /\ copy.got \in Seq(Cell) /\ NoSong \notin Seq(Cell)
      BY TransferAssumption DEF TypeOK, StoreOK, ReaderOK
    <3>2. Local(s) \/ copy.s = s => Local(s)'
      BY <2>1, <3>1 DEF Local
    <3> QED BY <2>1, <2>3, <3>2 DEF Accounted
  <2> QED BY <1>1, <2>1, <2>2, <2>3, Balanced, NothingComes
<1>8. CASE Return
  <2>1. UNCHANGED <<asked, jobs, wire, pc, todo, copy, lib, local, swaps, failed, wg>>
    BY <1>8 DEF Return, flow, reader, server, bounds, hist
  <2>2. Outstanding' = Outstanding /\ \A s \in Songs : Accounted(s) => Accounted(s)'
    BY <2>1 DEF Outstanding, Accounted, Local
  <2> QED BY <1>1, <2>1, <2>2, Balanced, NothingComes
<1>9. ASSUME NEW s \in Songs, Request(s)  PROVE Balance'
  <2>1. /\ pc = "list" /\ todo' = todo \ {s}
        /\ UNCHANGED <<jobs, wire, pc, copy, lib, local, swaps, failed>>
    BY <1>9 DEF Request, server, bounds, hist
  <2>2. CASE Local(s)
    <3>1. UNCHANGED <<wg, asked>>
      BY <1>9, <2>2 DEF Request
    <3>2. Outstanding' = Outstanding /\ \A t \in Songs : Accounted(t) => Accounted(t)'
      BY <2>1, <2>2, <3>1 DEF Outstanding, Accounted, Local
    <3> QED BY <1>1, <3>1, <3>2, Balanced, NothingComes
  <2>3. CASE ~Local(s)
    <3>1. wg' = wg + 1 /\ (asked' = asked \/ asked' = Append(asked, [k |-> "song", s |-> s]))
      BY <1>9, <2>3 DEF Request, Add, Ask
    <3>2. CASE asked' = asked
      <4>1. Outstanding' = Outstanding
        BY <2>1, <3>2 DEF Outstanding
      <4>2. wg' > Outstanding'
        BY <1>1, <3>1, <4>1, NothingComes DEF Balance
      <4> QED BY <4>2, Balanced
    <3>3. CASE asked' = Append(asked, [k |-> "song", s |-> s])
      <4> DEFINE r == [k |-> "song", s |-> s]
      <4>1. r \in Demand /\ r.k = "song" /\ r.s = s
        BY DEF Demand
      <4> HIDE DEF r
      <4>2. Len(asked') = Len(asked) + 1 /\ Coming(asked', s) /\ \A t \in Songs : Coming(asked, t) => Coming(asked', t)
        <5>1. asked' = Append(asked, r)
          BY <3>3 DEF r
        <5> QED BY <1>1, <4>1, <5>1, ComingAppend
      <4>3. Outstanding' = Outstanding + 1
        BY <1>1, <2>1, <4>2 DEF Outstanding
      <4>4. \A t \in Songs : Accounted(t) => Accounted(t)'
        BY <2>1, <4>2 DEF Accounted, Local
      <4> QED BY <1>1, <3>1, <4>3, <4>4, Balanced, NothingComes
    <3> QED BY <3>1, <3>2, <3>3
  <2> QED BY <2>2, <2>3
<1> QED BY <1>3, <1>4, <1>5, <1>6, <1>7, <1>8, <1>9

\* The errors of the read loop.
LEMMA LostBalance ==
  ASSUME TypeOK, TypeOK', Balance, mode = "download", Lost \/ RequestFails \/ CopyFails \/ TakeSong
  PROVE  Balance'
<1>1. /\ wire \in Seq(Cell) /\ wg \in Int
      /\ Len(asked) \in Nat /\ Len(jobs) \in Nat /\ Headers(wire) \in Nat
      /\ asked # <<>> => Len(asked) > 0
      /\ jobs # <<>> => Len(jobs) > 0
  BY LenProperties, CountBasics, EmptySeq DEF TypeOK, FlowOK, StoreOK
<1>2. \A s \in Songs : ~Coming(<<>>, s)
  BY DEF Coming
<1>3. CASE Lost \/ RequestFails
  <2>1. /\ Drop /\ UNCHANGED <<lib, local, swaps, failed>> /\ (wg' = wg \/ wg' = wg + 1 - 1)
    BY <1>3 DEF Lost, RequestFails, server, bounds, hist
  <2>2. wg' = wg
    BY <1>1, <2>1
  <2> QED BY <2>1, <2>2, DropBalanced
<1>4. CASE CopyFails
  <2>1. /\ Drop /\ UNCHANGED <<lib, local, swaps>> /\ failed' = failed \cup {copy.s} /\ wg' = wg - 1
        /\ pc = "copy" /\ wire = <<>>
    BY <1>4 DEF CopyFails, Done, server, bounds
  <2>2. Outstanding >= 1
    BY <2>1, NothingComes
  <2>3. ASSUME Outstanding = 1, NEW s \in Songs, Accounted(s)
        PROVE  Local(s) \/ lib[s] = 0 \/ swaps > 0 \/ s \in failed'
    <3>1. asked = <<>> /\ jobs = <<>>
      BY <1>1, <2>1, <2>3 DEF Outstanding
    <3> QED BY <1>2, <2>1, <2>3, <3>1 DEF Accounted
  <2> QED BY <2>1, <2>2, <2>3, DropBalanced
<1>5. CASE TakeSong
  <2>1. wire # <<>> /\ Head(wire).k = "song" /\ pc = "read" /\ UNCHANGED <<lib, local, swaps>>
    BY <1>5 DEF TakeSong, Next1, server
  <2>2. /\ Headers(Tail(wire)) = Headers(wire) - 1 /\ Tail(wire) \in Seq(Cell)
        /\ \A s \in Songs : Coming(wire, s) => Coming(Tail(wire), s) \/ Head(wire).s = s
    <3>1. Headers(Tail(wire)) = Headers(wire) - 1
      BY <1>1, <2>1, CountTail
    <3>2. \A s \in Songs : Coming(wire, s) => Coming(Tail(wire), s) \/ Head(wire).s = s
      BY <1>1, <2>1, ComingTail
    <3> QED BY <1>1, <2>1, <3>1, <3>2, HeadTailProperties
  \* The copy begins.
  <2>3. CASE Taken /\ pc' = "copy" /\ copy'.s = Head(wire).s /\ UNCHANGED <<asked, todo, wg, failed>>
    <3>1. wire' = Tail(wire) /\ jobs' = jobs
      BY <2>3 DEF Taken
    <3>2. Outstanding' = Outstanding
      BY <1>1, <2>1, <2>2, <2>3, <3>1 DEF Outstanding
    <3>3. \A s \in Songs : Accounted(s) => Accounted(s)'
      BY <2>1, <2>2, <2>3, <3>1 DEF Accounted, Local
    <3> QED BY <1>1, <2>3, <3>2, <3>3, Balanced, NothingComes
  \* It fails: its song is the only one that was coming, if nothing else is counted.
  <2>4. CASE Drop /\ wg' = wg - 1 /\ failed' = failed \cup {Head(wire).s}
    <3>1. Headers(Tail(wire)) \in Nat /\ (Headers(Tail(wire)) = 0 <=> Marks(Tail(wire)) = {})
      BY <2>2, CountBasics
    <3>2. Outstanding >= 1
      BY <1>1, <2>2, <3>1, NothingComes
    <3>3. ASSUME Outstanding = 1, NEW s \in Songs, Accounted(s)
          PROVE  Local(s) \/ lib[s] = 0 \/ swaps > 0 \/ s \in failed'
      <4>1. asked = <<>> /\ jobs = <<>> /\ Marks(Tail(wire)) = {}
        BY <1>1, <2>1, <2>2, <3>1, <3>3 DEF Outstanding
      <4>2. ~Coming(Tail(wire), s)
        BY <4>1 DEF Marks, Coming
      <4> QED BY <1>2, <2>1, <2>2, <2>4, <3>3, <4>1, <4>2 DEF Accounted
    <3> QED BY <2>1, <2>4, <3>2, <3>3, DropBalanced
  <2> QED BY <1>5, <2>3, <2>4 DEF TakeSong, Done
<1> QED BY <1>3, <1>4, <1>5

LEMMA CountKept ==
  ASSUME TypeOK, TypeOK', CountInv, [Next]_vars  PROVE CountInv'
<1>1. mode \in {"download", "node"} /\ main \in {"wait", "done"} /\ wg \in Int
  BY DEF TypeOK, PlayerOK, StoreOK
<1>2. CASE UNCHANGED vars
  BY <1>2 DEF vars, server, flow, reader, bounds, hist, CountInv, Deaf, Balance, Outstanding, Accounted, Local
<1>3. CASE Next /\ mode = "download"
  <2>1. Deaf /\ Balance /\ main = "wait" /\ mode' = mode
    <3>1. Going
      BY <1>3 DEF Next, Read, Serve, SendState, Write, Cut, Swap, Change, Return, RequestFails, Lost, TakeList,
                  EndList, TakeNone, TakeSong, Copy, EndCopy, CopyFails, TakeState, Request, Next1
    <3>2. mode' = mode
      BY <1>3 DEF Next, Read, Serve, SendState, Write, Cut, Swap, Change, Return, RequestFails, Lost, TakeList,
                  EndList, TakeNone, TakeSong, Copy, EndCopy, CopyFails, TakeState, Request
    <3> QED BY <1>3, <3>1, <3>2 DEF Going, CountInv
  <2>2. ~SendState /\ ~Change
    BY <1>3 DEF SendState, Change
  <2>3. ~TakeState
    <3>1. ASSUME wire # <<>>  PROVE Head(wire).k \notin {"now", "state"}
      <4>1. 1 \in 1..Len(wire) /\ Head(wire) = wire[1]
        BY <3>1, LenProperties, EmptySeq DEF TypeOK, FlowOK
      <4> QED BY <2>1, <4>1 DEF Deaf
    <3> QED BY <3>1 DEF TakeState, Next1
  <2>4. Balance'
    BY <1>3, <2>1, <2>2, <2>3, ServerBalance, ReadBalance, LostBalance DEF Next, Read
  <2>5. Deaf'
    BY <1>3, <2>1, DeafKept
  <2>6. main' = "wait" \/ (main' = "done" /\ wg' = 0)
    <3>1. CASE Return
      BY <3>1 DEF Return
    <3>2. CASE Serve \/ SendState \/ Write \/ Cut \/ Swap \/ Change \/ RequestFails
      BY <2>1, <3>2 DEF Serve, SendState, Write, Cut, Swap, Change, RequestFails
    <3>3. CASE Read
      BY <2>1, <3>3 DEF Read, Lost, TakeList, EndList, TakeNone, TakeSong, Copy, EndCopy, CopyFails, TakeState, Request
    <3> QED BY <1>3, <3>1, <3>2, <3>3 DEF Next
  <2> QED BY <1>3, <2>1, <2>4, <2>5, <2>6 DEF CountInv
<1>4. CASE Next /\ mode = "node"
  <2>1. main = "wait" /\ wg = 0
    BY <1>1, <1>4 DEF CountInv
  <2>2. ~Return
    BY <1>4 DEF Return
  <2>3. wg' = 0 /\ main' = main /\ mode' = mode
    <3>1. CASE Serve \/ SendState \/ Write \/ Cut \/ Swap \/ Change \/ RequestFails
      BY <2>1, <3>1 DEF Serve, SendState, Write, Cut, Swap, Change, RequestFails
    <3>2. CASE Read
      BY <1>4, <2>1, <3>2
      DEF Read, Lost, TakeList, EndList, TakeNone, TakeSong, Copy, EndCopy, CopyFails, TakeState, Request, Done, Add, Keep
    <3> QED BY <1>4, <2>2, <3>1, <3>2 DEF Next
  <2> QED BY <1>4, <2>1, <2>3 DEF CountInv
<1> QED BY <1>1, <1>2, <1>3, <1>4

-----------------------------------------------------------------------------
(* The theorems.                                                           *)

LEMMA InitHolds == Init => IInv
<1> SUFFICES ASSUME Init  PROVE IInv
  OBVIOUS
<1>1. /\ lib \in [Songs -> 0..MaxSize] /\ MaxSize \in Nat /\ NoSong \notin Songs
      /\ \A S : <<>> \in Seq(S)
  BY TransferAssumption, EmptySeq DEF Init
<1>2. Unknown \in Known /\ NoCopy \in [s : Songs \cup {NoSong}, left : Nat, got : Seq(Cell)]
  BY <1>1 DEF Unknown, Known, NoCopy
<1>3. asked \in Seq(Demand) /\ Len(asked) = IF mode = "download" THEN 1 ELSE 0
  <2>1. [k |-> "list"] \in Demand
    BY DEF Demand
  <2> QED BY <1>1, <2>1 DEF Init
<1>4. FlowOK /\ ReaderOK
  BY <1>1, <1>2, <1>3 DEF Init, FlowOK, ReaderOK
<1>5. PlayerOK
  BY <1>2 DEF Init, PlayerOK, Known, Unknown
<1>6. StoreOK
  BY <1>1 DEF Init, StoreOK
<1>7. WireInv /\ CopyInv /\ LocalIsWhole
  BY DEF Init, WireInv, CopyInv, LocalIsWhole, Local
<1>8. CountInv
  <2>1. Deaf
    BY DEF Init, Deaf
  <2>2. ASSUME mode = "download"  PROVE Balance
    <3>1. Outstanding = 1
      BY <1>3, <2>2, CountNone DEF Init, Outstanding
    <3>2. asked = <<[k |-> "list"]>>
      BY <2>2 DEF Init
    <3>3. \A s \in Songs : Coming(asked, s)
      BY <3>2 DEF Coming
    <3> QED BY <2>2, <3>1, <3>3 DEF Init, Balance, Accounted
  <2> QED BY <2>1, <2>2 DEF Init, CountInv
<1> QED BY <1>4, <1>5, <1>6, <1>7, <1>8 DEF IInv, TypeOK

LEMMA Inductive == IInv /\ [Next]_vars => IInv'
<1> SUFFICES ASSUME IInv, [Next]_vars  PROVE IInv'
  OBVIOUS
<1>1. TypeOK'
  BY TypeStep DEF IInv
<1>2. WireInv' /\ CopyInv' /\ LocalIsWhole'
  BY WireKept, CopyKept, LocalKept DEF IInv
<1>3. CountInv'
  BY <1>1, CountKept DEF IInv
<1> QED BY <1>1, <1>2, <1>3 DEF IInv

LEMMA IInvHolds == Spec => []IInv
<1> QED BY InitHolds, Inductive, PTL DEF Spec

\* The variables keep their types: what is written on a connection, read,
\* copied and played (data/node.go, download.go, node/node.go).
THEOREM TypesKept == Spec => []TypeOK
<1>1. IInv => TypeOK
  BY DEF IInv
<1> QED BY <1>1, IInvHolds, PTL

\* A file under a song's name is one version of that song from end to end,
\* but for a song sent in a size that was not announced and a copy that ended
\* with the connection (HandleMusicNodeMessage of download.go, Binary and
\* BinarySongDataMessage of data/node.go).
THEOREM FilesAreWhole == Spec => []LocalIsWhole
<1>1. IInv => LocalIsWhole
  BY DEF IInv
<1> QED BY <1>1, IInvHolds, PTL

\* The WaitGroup never panics, and after Wait nothing is under way and no song
\* of the playlist was forgotten (Wait, DownloadSong, DownloadPlaylist and the
\* two handlers of download.go).
THEOREM WaitIsForAll == Spec => []WaitMeansAll
<1>1. IInv => WaitMeansAll
  <2> SUFFICES ASSUME IInv  PROVE WaitMeansAll
    OBVIOUS
  <2>1. TypeOK /\ CountInv /\ wg \in Int /\ mode \in {"download", "node"}
    BY DEF IInv, TypeOK, StoreOK, PlayerOK
  <2>2. Outstanding \in Nat /\ Outstanding >= IF pc = "read" THEN 0 ELSE 1
    BY <2>1, NothingComes
  <2>3. wg >= 0
    BY <2>1, <2>2 DEF CountInv, Balance
  <2>4. ASSUME main = "done"
        PROVE  /\ pc = "read" /\ asked = <<>> /\ jobs = <<>>
               /\ \A s \in Songs : Local(s) \/ lib[s] = 0 \/ swaps > 0 \/ s \in failed
    <3>1. Balance /\ wg = 0
      BY <2>1, <2>4 DEF CountInv
    <3>2. Outstanding = 0
      BY <2>2, <3>1 DEF Balance
    <3>3. pc = "read"
      BY <2>2, <3>2
    <3>4. asked = <<>> /\ jobs = <<>> /\ \A s \in Songs : ~Coming(asked, s) /\ ~Coming(jobs, s) /\ ~Coming(wire, s)
      BY <2>1, <3>2, NothingComes
    <3>5. \A s \in Songs : Accounted(s)
      BY <3>1, <3>2 DEF Balance
    <3> QED BY <3>3, <3>4, <3>5 DEF Accounted
  <2> QED BY <2>3, <2>4 DEF WaitMeansAll
<1> QED BY <1>1, IInvHolds, PTL
=============================================================================
