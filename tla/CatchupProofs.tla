--------------------------- MODULE CatchupProofs ----------------------------
(***************************************************************************)
(* SeesItsShare, OnlyNewestTwice and AuthorOrder of module Catchup, for    *)
(* any connections, names, messages and sizes of the history.              *)
(***************************************************************************)
EXTENDS Catchup, TLAPS, SequenceTheorems, WellFoundedInduction, FiniteSetTheorems

Sending  == {"bcast", "push"}
Replayed == {"asked", "reset"}

Pairs == Nat \X Nat

Logged == [from : Names, bot : BOOLEAN, msg : Message, by : Callers]

TypeOK ==
  /\ up \subseteq Conns
  /\ log \in Seq(Logged) /\ Len(log) <= MaxLog
  /\ pc \in [Callers -> {"new", "idle", "gone", "off", "bot"} \cup Sending \cup Replayed]
  /\ doing \in [Callers -> Nat] /\ step \in [Callers -> Nat]
  /\ todo \in [Callers -> SUBSET Conns]
  /\ snap \in [Conns -> Seq(Pairs)] /\ view \in [Conns -> Seq(Pairs)]
  /\ replays \in Nat
  /\ low \in [Conns -> Nat] /\ top \in [Conns -> Nat]
  /\ during \in [Conns -> SUBSET Pairs] /\ between \in [Conns -> SUBSET Pairs]

\* A handler that broadcasts has a message and an entry of it, the others have
\* none; a bot's goroutine starts when its command has been sent to all.
PlaceAt(p) ==
  /\ pc[p] \in Sending => doing[p] \in 1..Len(log) /\ step[p] \in DOMAIN BatchOf(doing[p])
  /\ pc[p] \notin Sending => doing[p] = 0
  /\ pc[p] # "push" => todo[p] = {}
  /\ \A c \in todo[p] : c \in up /\ IsFor(doing[p], step[p], c)

UpAt(c) == pc[c] \notin {"off", "bot"} /\ (c \in up <=> pc[c] \notin {"new", "gone"})

TaskAt(i) ==
  /\ pc[i] \in {"off", "bot"} \cup Sending
  /\ pc[i] # "off" => i <= Len(log) /\ \A p \in Callers : doing[p] # i

PlaceInv == (\A p \in Callers : PlaceAt(p)) /\ (\A c \in Conns : UpAt(c)) /\ (\A i \in Tasks : TaskAt(i))

\* What a handler is at is the newest message of its author.
AuthorInv ==
  \A p \in Callers : pc[p] \in Sending =>
    /\ log[doing[p]].by = p
    /\ \A j \in doing[p] + 1 .. Len(log) : log[j].by # p

Before(x, y) == x[1] < y[1] \/ (x[1] = y[1] /\ x[2] < y[2])

InOrder(s) == \A k, l \in DOMAIN s : k < l => Before(s[k], s[l])

\* x is an entry for name n of one of the messages from lo to hi.
IsOf(x, lo, hi, n) ==
  /\ x[1] \in lo..hi
  /\ x[2] \in DOMAIN BatchOf(x[1]) /\ CheckName(BatchOf(x[1])[x[2]], n)

\* x is an entry for c's name.
Mine(x, c) == IsOf(x, 1, Len(log), Name[c])

\* A replay that is under way has read all entries for c in its range, in order.
SnapAt(c) ==
  /\ top[c] <= Len(log)
  /\ pc[c] \in Replayed =>
       /\ low[c] # 0
       /\ \A x \in Pairs : x \in Range(snap[c]) <=> IsOf(x, low[c], top[c], Name[c])
       /\ InOrder(snap[c])

ViewAt(c) == \A x \in Range(view[c]) : Mine(x, c)

\* Between its reset and the replayed part c shows only what is in between.
BetweenAt(c) == pc[c] = "reset" => Range(view[c]) \subseteq between[c]

ShowInv == \A c \in Conns : SnapAt(c) /\ ViewAt(c) /\ BetweenAt(c)

\* What has been sent since the replay read the log is in the view, or gone
\* with the reset.
LossAt(c) ==
  /\ pc[c] = "new" => low[c] = 0
  /\ c \in up /\ low[c] # 0 =>
       \A i \in low[c]..Len(log) : \A e \in DOMAIN BatchOf(i) : IsFor(i, e, c) /\ ~Due(i, e, c) =>
         /\ i <= top[c] /\ pc[c] \notin Replayed => <<i, e>> \in Range(view[c])
         /\ i > top[c] => <<i, e>> \in during[c] \cup (IF pc[c] = "asked" THEN {} ELSE Range(view[c]))

LossInv == \A c \in Conns : LossAt(c)

Newest(i, t) == \A j \in i + 1 .. t : log[j].by # log[i].by

DueFor(c)    == {x \in Pairs : Due(x[1], x[2], c)}
NewestFor(c) == {x \in Pairs : Newest(x[1], top[c])}

\* What v shows and is yet to be sent (due) was replayed; what it shows twice
\* had yet to be sent when the replay read the log up to t.
Twice(v, t, phase, due, newest) ==
  /\ \A k \in DOMAIN v : v[k] \in due =>
       phase # "reset" /\ v[k][1] <= t /\ \A l \in DOMAIN v : v[l] = v[k] => l = k
  /\ phase = "reset" => \A k \in DOMAIN v : v[k][1] <= t => v[k] \in newest
  /\ \A k, l \in DOMAIN v : k # l /\ v[k] = v[l] =>
       /\ phase # "reset" /\ v[k][1] <= t /\ v[k] \in newest
       /\ \A m \in DOMAIN v : v[m] = v[k] => m \in {k, l}

TwiceAt(c) == Twice(view[c], top[c], pc[c], DueFor(c), NewestFor(c))

TwiceInv == \A c \in Conns : pc[c] # "asked" => TwiceAt(c)

IInv == TypeOK /\ PlaceInv /\ AuthorInv /\ ShowInv /\ LossInv /\ TwiceInv /\ AuthorOrder
-----------------------------------------------------------------------------
(* Recursion over the numbers.                                             *)

LEMMA LeastOf ==
  ASSUME NEW S \in SUBSET Nat, S # {}
  PROVE  \E n \in S : \A m \in S : n <= m
<1> DEFINE R == {x \in Nat \X Nat : x[1] < x[2]}
<1>1. IsWellFoundedOn(R, Nat)
  BY NatLessThanWellFounded DEF OpToRel
<1>2. \E n \in S : \A m \in S : ~ (<<m, n>> \in R)
  <2> HIDE DEF R
  <2> QED BY <1>1, WFMin
<1>3. PICK n \in S : \A m \in S : ~ (<<m, n>> \in R)
  BY <1>2
<1>4. ASSUME NEW m \in S, ~(n <= m)  PROVE FALSE
  <2>1. <<m, n>> \in Nat \X Nat /\ m < n
    BY <1>4
  <2> QED BY <1>3, <2>1
<1> QED BY <1>4

LEMMA Induction ==
  ASSUME NEW S, 0 \in S, \A n \in Nat : n \in S => n + 1 \in S
  PROVE  \A n \in Nat : n \in S
<1> SUFFICES ASSUME Nat \ S # {} PROVE FALSE
  OBVIOUS
<1>1. PICK n \in Nat \ S : \A m \in Nat \ S : n <= m
  BY LeastOf
<1>2. n # 0 /\ n - 1 \in Nat
  BY <1>1
<1> QED BY <1>1, <1>2

\* There is a function that puts one piece after the other, from lo on.
LEMMA Recursion ==
  ASSUME NEW lo \in Nat \ {0}, NEW piece
  PROVE  \E f : f = [i \in Nat |-> IF i < lo THEN <<>> ELSE f[i - 1] \o piece[i]]
<1> DEFINE Next1(g, i) == IF i < lo THEN <<>> ELSE g[i - 1] \o piece[i]
           IsPart(g, k) == g = [i \in 0..k |-> Next1(g, i)]
           Parts == {k \in Nat : \E g : IsPart(g, k)}
           Alike == {m \in Nat : \A g, h : \A j, k \in Nat :
                       IsPart(g, j) /\ IsPart(h, k) /\ m <= j /\ m <= k => g[m] = h[m]}
<1>0. ASSUME NEW g, NEW k \in Nat, IsPart(g, k), NEW i \in 0..k
      PROVE  g[i] = Next1(g, i)
  <2> HIDE DEF Next1
  <2> QED BY <1>0
<1>1. \A k \in Nat : k \in Parts
  <2>1. 0 \in Parts
    <3> DEFINE g == [i \in 0..0 |-> <<>>]
    <3>1. IsPart(g, 0)
      OBVIOUS
    <3> HIDE DEF g
    <3> QED BY <3>1
  <2>2. ASSUME NEW k \in Nat, k \in Parts  PROVE k + 1 \in Parts
    <3>1. PICK g : IsPart(g, k)
      BY <2>2
    <3> DEFINE h == [i \in 0..(k + 1) |-> IF i = k + 1 THEN Next1(g, i) ELSE g[i]]
    <3>2. \A i \in 0..(k + 1) : h[i] = Next1(h, i)
      <4>1. \A i \in 0..k : h[i] = g[i]
        OBVIOUS
      <4>2. \A i \in 0..(k + 1) : i < lo \/ i - 1 \in 0..k
        OBVIOUS
      <4>3. \A i \in 0..(k + 1) : Next1(h, i) = Next1(g, i)
        BY <4>1, <4>2
      <4>4. \A i \in 0..k : g[i] = Next1(g, i)
        BY <3>1
      <4> QED BY <4>3, <4>4
    <3>3. IsPart(h, k + 1)
      BY <3>2
    <3> HIDE DEF h
    <3> QED BY <3>3
  <2> HIDE DEF Parts
  <2> QED BY <2>1, <2>2, Induction
<1>2. \A m \in Nat : m \in Alike
  <2>1. 0 \in Alike
    <3>1. ASSUME NEW g, NEW j \in Nat, IsPart(g, j)  PROVE g[0] = <<>>
      BY <1>0, <3>1
    <3> HIDE DEF IsPart
    <3> QED BY <3>1
  <2>2. ASSUME NEW m \in Nat, m \in Alike  PROVE m + 1 \in Alike
    <3> SUFFICES ASSUME NEW g, NEW h, NEW j \in Nat, NEW k \in Nat,
                        IsPart(g, j), IsPart(h, k), m + 1 <= j, m + 1 <= k
                 PROVE  g[m + 1] = h[m + 1]
      <4> HIDE DEF IsPart
      <4> QED OBVIOUS
    <3>1. g[m + 1] = Next1(g, m + 1) /\ h[m + 1] = Next1(h, m + 1)
      <4> HIDE DEF IsPart, Next1
      <4> QED BY <1>0
    <3>2. g[m] = h[m]
      <4> HIDE DEF IsPart
      <4> QED BY <2>2
    <3>3. (m + 1) - 1 = m
      OBVIOUS
    <3> QED BY <3>1, <3>2, <3>3
  <2> HIDE DEF Alike
  <2> QED BY <2>1, <2>2, Induction
<1> DEFINE Part(k) == CHOOSE g : IsPart(g, k)
           f == [i \in Nat |-> Part(i)[i]]
<1>3. \A k \in Nat : IsPart(Part(k), k)
  BY <1>1
<1>4. \A i \in Nat : f[i] = Next1(f, i)
  <2> TAKE i \in Nat
  <2>1. f[i] = Next1(Part(i), i)
    <3>1. Part(i)[i] = Next1(Part(i), i)
      <4> HIDE DEF Part, IsPart, Next1
      <4> QED BY <1>0, <1>3
    <3> HIDE DEF Part, Next1
    <3> QED BY <3>1
  <2>2. CASE i < lo
    BY <2>1, <2>2
  <2>3. CASE ~(i < lo)
    <3>1. i - 1 \in Nat
      BY <2>3
    <3>2. Part(i)[i - 1] = Part(i - 1)[i - 1]
      <4> HIDE DEF Part, IsPart
      <4> QED BY <1>2, <1>3, <3>1
    <3>3. Part(i)[i - 1] = f[i - 1]
      <4> HIDE DEF Part
      <4> QED BY <3>1, <3>2
    <3> HIDE DEF f, Part
    <3> QED BY <2>1, <2>3, <3>3
  <2> QED BY <2>2, <2>3
<1>5. f = [i \in Nat |-> Next1(f, i)]
  <2> HIDE DEF Next1, Part
  <2> QED BY <1>4
<1> HIDE DEF f
<1> QED BY <1>5
-----------------------------------------------------------------------------
(* The entries of a message and of a replay.                               *)

\* A message has one entry or two, for the same names live and replayed.
LEMMA BatchShape ==
  ASSUME NEW notify, NEW from, NEW bot, NEW m
  PROVE  /\ DOMAIN Batch(notify, from, bot, m) \in {1..1, 1..2}
         /\ DOMAIN Batch(notify, from, bot, m) = DOMAIN Batch({}, from, bot, m)
         /\ \A e \in DOMAIN Batch(notify, from, bot, m) : \A n :
              CheckName(Batch(notify, from, bot, m)[e], n) <=> CheckName(Batch({}, from, bot, m)[e], n)
<1>1. DOMAIN Filters(from, m) \in {1..1, 1..2}
  BY DEF Filters
<1>2. \A w : DOMAIN Batch(w, from, bot, m) = DOMAIN Filters(from, m)
  BY DEF Batch
<1>3. \A w : \A e \in DOMAIN Filters(from, m) :
        /\ Batch(w, from, bot, m)[e].to = Filters(from, m)[e].to
        /\ Batch(w, from, bot, m)[e].notTo = Filters(from, m)[e].notTo
  BY DEF Batch
<1> QED BY <1>1, <1>2, <1>3 DEF CheckName

LEMMA JoinInOrder ==
  ASSUME NEW s \in Seq(Pairs), NEW t \in Seq(Pairs), InOrder(s), InOrder(t),
         \A x \in Range(s), y \in Range(t) : Before(x, y)
  PROVE  s \o t \in Seq(Pairs) /\ InOrder(s \o t) /\ Range(s \o t) = Range(s) \cup Range(t)
<1>1. /\ Len(s) \in Nat /\ Len(t) \in Nat /\ DOMAIN s = 1..Len(s) /\ DOMAIN t = 1..Len(t)
      /\ s \o t \in Seq(Pairs) /\ DOMAIN (s \o t) = 1..(Len(s) + Len(t))
      /\ \A k \in 1..(Len(s) + Len(t)) : (s \o t)[k] = IF k <= Len(s) THEN s[k] ELSE t[k - Len(s)]
  BY ConcatProperties, LenProperties
<1>2. ASSUME NEW k \in 1..(Len(s) + Len(t)), NEW l \in 1..(Len(s) + Len(t)), k < l
      PROVE  Before((s \o t)[k], (s \o t)[l])
  <2>1. CASE l <= Len(s)
    <3>1. k \in DOMAIN s /\ l \in DOMAIN s /\ k <= Len(s)
      BY <1>1, <1>2, <2>1
    <3> QED BY <1>1, <1>2, <2>1, <3>1 DEF InOrder
  <2>2. CASE ~(k <= Len(s))
    <3>1. /\ k - Len(s) \in DOMAIN t /\ l - Len(s) \in DOMAIN t /\ k - Len(s) < l - Len(s)
          /\ ~(l <= Len(s))
      BY <1>1, <1>2, <2>2
    <3> QED BY <1>1, <2>2, <3>1 DEF InOrder
  <2>3. CASE k <= Len(s) /\ ~(l <= Len(s))
    <3>1. k \in DOMAIN s /\ l - Len(s) \in DOMAIN t
      BY <1>1, <1>2, <2>3
    <3>2. s[k] \in Range(s) /\ t[l - Len(s)] \in Range(t)
      BY <3>1 DEF Range
    <3> QED BY <1>1, <2>3, <3>2
  <2> QED BY <1>1, <2>1, <2>2, <2>3
<1>3. InOrder(s \o t)
  BY <1>1, <1>2 DEF InOrder
<1> QED BY <1>1, <1>3, RangeConcatenation

LEMMA SeenIs ==
  ASSUME NEW i \in Nat, NEW n
  PROVE  /\ Seen(i, n) \in Seq(Pairs)
         /\ \A x \in Pairs : x \in Range(Seen(i, n)) <=> IsOf(x, i, i, n)
         /\ InOrder(Seen(i, n))
<1> DEFINE es == Batch({"never"}, log[i].from, log[i].bot, log[i].msg)
           Wanted(e) == e \in DOMAIN es /\ CheckName(es[e], n)
           Pick(e) == IF Wanted(e) THEN << <<i, e>> >> ELSE <<>>
<1>1. Seen(i, n) = Pick(1) \o Pick(2)
  BY DEF Seen
<1>2. /\ DOMAIN es \in {1..1, 1..2} /\ DOMAIN es = DOMAIN BatchOf(i)
      /\ \A e \in DOMAIN es : CheckName(es[e], n) <=> CheckName(BatchOf(i)[e], n)
  BY BatchShape DEF BatchOf
<1>3. \A x \in Pairs : IsOf(x, i, i, n) <=> x[1] = i /\ Wanted(x[2])
  BY <1>2 DEF IsOf, Pairs
<1> HIDE DEF es
<1>4. \A e : Wanted(e) => e \in {1, 2}
  BY <1>2
<1> HIDE DEF Wanted
<1>5. \A e \in {1, 2} : /\ Pick(e) \in Seq(Pairs) /\ InOrder(Pick(e))
                        /\ Range(Pick(e)) = IF Wanted(e) THEN { <<i, e>> } ELSE {}
  <2> TAKE e \in {1, 2}
  <2>1. <<i, e>> \in Pairs
    BY DEF Pairs
  <2>2. CASE Wanted(e)
    <3> DEFINE s == << <<i, e>> >>
    <3>1. s \in Seq(Pairs) /\ Len(s) = 1 /\ DOMAIN s = 1..1 /\ s[1] = <<i, e>>
      BY <2>1
    <3>2. Pick(e) = s
      BY <2>2
    <3> HIDE DEF s, Pick
    <3>3. \A k \in DOMAIN s : k = 1
      BY <3>1
    <3>4. InOrder(s)
      BY <3>3 DEF InOrder
    <3>5. Range(s) = { <<i, e>> }
      <4>1. 1 \in DOMAIN s
        BY <3>1
      <4>2. \A x : x \in Range(s) <=> x = s[1]
        BY <3>3, <4>1 DEF Range
      <4> QED BY <3>1, <4>2
    <3> QED BY <2>2, <3>1, <3>2, <3>4, <3>5
  <2>3. CASE ~Wanted(e)
    <3>1. Pick(e) = <<>>
      BY <2>3
    <3>2. DOMAIN <<>> = {} /\ <<>> \in Seq(Pairs)
      OBVIOUS
    <3> HIDE DEF Pick
    <3> QED BY <2>3, <3>1, <3>2 DEF InOrder, Range
  <2> QED BY <2>2, <2>3
<1> HIDE DEF Pick
<1>6. \A x \in Range(Pick(1)), y \in Range(Pick(2)) : Before(x, y)
  BY <1>5 DEF Before
<1>7. /\ Seen(i, n) \in Seq(Pairs) /\ InOrder(Seen(i, n))
      /\ Range(Seen(i, n)) = Range(Pick(1)) \cup Range(Pick(2))
  BY <1>1, <1>5, <1>6, JoinInOrder
<1>8. \A x \in Pairs : x \in Range(Seen(i, n)) <=> x[1] = i /\ Wanted(x[2])
  <2> TAKE x \in Pairs
  <2>1. x = <<x[1], x[2]>>
    BY DEF Pairs
  <2>2. x \in Range(Seen(i, n)) <=> \E e \in {1, 2} : Wanted(e) /\ x = <<i, e>>
    BY <1>5, <1>7
  <2> QED BY <1>4, <2>1, <2>2
<1> QED BY <1>3, <1>7, <1>8

LEMMA ReplayIs ==
  ASSUME NEW lo \in Nat \ {0}, NEW n, Len(log) \in Nat
  PROVE  /\ Replay(lo, n) \in Seq(Pairs)
         /\ \A x \in Pairs : x \in Range(Replay(lo, n)) <=> IsOf(x, lo, Len(log), n)
         /\ InOrder(Replay(lo, n))
<1> DEFINE Upto(f) == f = [i \in Nat |-> IF i < lo THEN <<>> ELSE f[i - 1] \o Seen(i, n)]
           piece == [i \in Nat |-> Seen(i, n)]
           upto == CHOOSE f : Upto(f)
<1>1. \E f : Upto(f)
  <2>1. PICK f : f = [i \in Nat |-> IF i < lo THEN <<>> ELSE f[i - 1] \o piece[i]]
    <3> HIDE DEF piece
    <3> QED BY Recursion
  <2>2. Upto(f)
    BY <2>1
  <2> HIDE DEF Upto
  <2> QED BY <2>2
<1>2. Upto(upto)
  <2> HIDE DEF Upto
  <2> QED BY <1>1
<1>3. Replay(lo, n) = upto[Len(log)]
  BY DEF Replay
<1>4. \A i \in Nat : upto[i] = IF i < lo THEN <<>> ELSE upto[i - 1] \o Seen(i, n)
  <2> HIDE DEF upto
  <2> QED BY <1>2
<1> HIDE DEF upto
<1> DEFINE Good == {i \in Nat : /\ upto[i] \in Seq(Pairs)
                                /\ \A x \in Pairs : x \in Range(upto[i]) <=> IsOf(x, lo, i, n)
                                /\ InOrder(upto[i])}
<1>5. ASSUME NEW i \in Nat, i < lo  PROVE i \in Good
  <2>1. upto[i] = <<>> /\ <<>> \in Seq(Pairs) /\ DOMAIN <<>> = {}
    BY <1>4, <1>5
  <2>2. \A x \in Pairs : ~IsOf(x, lo, i, n)
    BY <1>5 DEF IsOf, Pairs
  <2> QED BY <2>1, <2>2 DEF InOrder, Range
<1>6. 0 \in Good
  BY <1>5
<1>7. ASSUME NEW i \in Nat, i \in Good  PROVE i + 1 \in Good
  <2>1. CASE i + 1 < lo
    BY <1>5, <2>1
  <2>2. CASE ~(i + 1 < lo)
    <3>1. upto[i + 1] = upto[i] \o Seen(i + 1, n)
      <4>1. i + 1 \in Nat /\ (i + 1) - 1 = i
        OBVIOUS
      <4> QED BY <1>4, <2>2, <4>1
    <3>2. /\ upto[i] \in Seq(Pairs) /\ InOrder(upto[i])
          /\ \A x \in Pairs : x \in Range(upto[i]) <=> IsOf(x, lo, i, n)
      BY <1>7
    <3>3. /\ Seen(i + 1, n) \in Seq(Pairs) /\ InOrder(Seen(i + 1, n))
          /\ \A x \in Pairs : x \in Range(Seen(i + 1, n)) <=> IsOf(x, i + 1, i + 1, n)
      BY SeenIs
    <3>4. \A x \in Range(upto[i]), y \in Range(Seen(i + 1, n)) : Before(x, y)
      <4> TAKE x \in Range(upto[i]), y \in Range(Seen(i + 1, n))
      <4>1. x \in Pairs /\ y \in Pairs
        BY <3>2, <3>3, RangeOfSeq
      <4>2. x[1] \in lo..i /\ y[1] \in (i + 1)..(i + 1)
        BY <3>2, <3>3, <4>1 DEF IsOf
      <4> QED BY <4>2 DEF Before
    <3>5. /\ upto[i + 1] \in Seq(Pairs) /\ InOrder(upto[i + 1])
          /\ Range(upto[i + 1]) = Range(upto[i]) \cup Range(Seen(i + 1, n))
      BY <3>1, <3>2, <3>3, <3>4, JoinInOrder
    <3>6. \A x \in Pairs : IsOf(x, lo, i + 1, n) <=> IsOf(x, lo, i, n) \/ IsOf(x, i + 1, i + 1, n)
      BY <2>2 DEF IsOf, Pairs
    <3> QED BY <3>2, <3>3, <3>5, <3>6
  <2> QED BY <2>1, <2>2
<1>8. Len(log) \in Good
  <2> HIDE DEF Good
  <2> QED BY <1>6, <1>7, Induction
<1> QED BY <1>3, <1>8
-----------------------------------------------------------------------------
(* Types and places.                                                       *)

\* p logs a message, a client's or a bot's.
Posts(p) ==
  /\ (p \in Conns /\ pc[p] = "idle") \/ (p \in Tasks /\ pc[p] = "bot")
  /\ \E name \in Names, bot \in BOOLEAN, m \in Message : AddLog(p, name, bot, m)

\* p pushes its entry for c.
PushesFor(p, c) ==
  LET e == <<doing[p], step[p]>> IN
  /\ pc[p] = "push" /\ c \in todo[p]
  /\ todo' = [todo EXCEPT ![p] = @ \ {c}]
  /\ view' = [view EXCEPT ![c] = Append(@, e)]
  /\ during' = [during EXCEPT ![c] = IF pc[c] = "asked" THEN @ \cup {e} ELSE @]
  /\ between' = [between EXCEPT ![c] = IF pc[c] = "reset" THEN @ \cup {e} ELSE @]
  /\ UNCHANGED <<up, log, pc, doing, step, snap, replays, low, top>>

LEMMA Apart == Conns \cap Tasks = {} /\ Tasks \subseteq Nat /\ Callers = Conns \cup Tasks
  BY CatchupAssumption DEF Tasks, Callers

LEMMA AnswerIsMessage ==
  ASSUME NEW m \in Message, NEW n \in Names
  PROVE  [lead |-> "", at |-> n, mentions |-> m.mentions] \in Message
BY DEF Message

LEMMA Steps ==
  ASSUME TypeOK, PlaceInv, Next
  PROVE  \/ \E c \in Conns : Join(c) \/ Leave(c) \/ Ask(c) \/ Reset(c) \/ SendReplay(c)
         \/ \E p \in Callers : Posts(p) \/ Broadcast(p) \/ EndBroadcast(p) \/ \E c \in Conns : PushesFor(p, c)
         \/ \E i \in Tasks : NoAnswer(i)
         \/ UNCHANGED vars
<1>1. CASE \E c \in Conns : \E m \in Says : Say(c, m)
  <2>1. PICK c \in Conns, m \in Says : Say(c, m)
    BY <1>1
  <2>2. m \in Message /\ Name[c] \in Names /\ FALSE \in BOOLEAN /\ c \in Callers
    BY CatchupAssumption, Apart
  <2>3. Posts(c)
    BY <2>1, <2>2 DEF Say, Posts
  <2> QED BY <2>2, <2>3
<1>2. CASE \E i \in Tasks : \E m \in Replies, b \in BotNames : Answer(i, m, b)
  <2>1. PICK i \in Tasks, m \in Replies, b \in BotNames : Answer(i, m, b)
    BY <1>2
  <2>2. m \in Message /\ b \in Names /\ TRUE \in BOOLEAN /\ i \in Callers
    BY CatchupAssumption, Apart
  <2>3. pc[i] = "bot" /\ i \in 1..Len(log)
    <3>1. pc[i] = "bot" /\ i <= Len(log)
      BY <2>1 DEF Answer, PlaceInv, TaskAt
    <3>2. i \in 1..MaxLog /\ Len(log) \in Nat /\ MaxLog \in Nat
      BY LenProperties, CatchupAssumption DEF Tasks, TypeOK
    <3> QED BY <3>1, <3>2
  <2>4. log[i].from \in Names
    <3>1. log[i] \in Logged
      BY <2>3, ElementOfSeq DEF TypeOK
    <3> QED BY <3>1 DEF Logged
  <2> DEFINE a == IF IsSilent(log[i].msg) THEN [lead |-> "", at |-> log[i].from, mentions |-> m.mentions] ELSE m
  <2>5. a \in Message
    BY <2>2, <2>4, AnswerIsMessage
  <2>6. AddLog(i, b, TRUE, a)
    BY <2>1 DEF Answer
  <2> HIDE DEF a
  <2>7. Posts(i)
    BY <2>2, <2>3, <2>5, <2>6 DEF Posts
  <2> QED BY <2>2, <2>7
<1>3. CASE \E p \in Callers : Push(p)
  <2>1. PICK p \in Callers : Push(p)
    BY <1>3
  <2>2. todo[p] \subseteq Conns
    BY DEF TypeOK
  <2>3. PICK c \in todo[p] : PushesFor(p, c)
    BY <2>1 DEF Push, PushesFor
  <2> QED BY <2>2, <2>3
<1> QED BY <1>1, <1>2, <1>3 DEF Next, HandleStep, ReplayStep, Terminating

LEMMA PostsTypes ==
  ASSUME TypeOK, NEW p \in Callers, Posts(p)
  PROVE  /\ log' \in Seq(Logged) /\ Len(log) < MaxLog /\ Len(log') = Len(log) + 1
         /\ \A i \in 1..Len(log) : log'[i] = log[i]
         /\ log'[Len(log) + 1].by = p
         /\ doing' = [doing EXCEPT ![p] = Len(log) + 1]
         /\ step' = [step EXCEPT ![p] = 1]
         /\ pc' = [pc EXCEPT ![p] = "bcast"]
         /\ UNCHANGED <<up, todo, view, replayVars>>
<1>1. PICK name \in Names, bot \in BOOLEAN, m \in Message : AddLog(p, name, bot, m)
  BY DEF Posts
<1> DEFINE item == LogItem(name, bot, m, p)
<1>2. item \in Logged /\ item.by = p
  BY DEF LogItem, Logged
<1> HIDE DEF item
<1>3. /\ log' = Append(log, item) /\ Len(log) < MaxLog
      /\ doing' = [doing EXCEPT ![p] = Len(log) + 1]
      /\ step' = [step EXCEPT ![p] = 1]
      /\ pc' = [pc EXCEPT ![p] = "bcast"]
      /\ UNCHANGED <<up, todo, view, replayVars>>
  BY <1>1 DEF AddLog, item
<1>4. log \in Seq(Logged)
  BY DEF TypeOK
<1> QED BY <1>2, <1>3, <1>4, AppendProperties

LEMMA FirstIs == Len(log) \in Nat => First(Amount) \in Nat \ {0}
<1>1. MaxMessages \in Nat \ {0} /\ Amount \in Nat \ {0}
  BY CatchupAssumption
<1> QED BY <1>1 DEF First, Least

LEMMA TypeKept ==
  ASSUME TypeOK, PlaceInv, Next
  PROVE  TypeOK'
<1>0. Len(log) \in Nat /\ Callers = Conns \cup Tasks /\ MaxLog \in Nat
  BY LenProperties, Apart, CatchupAssumption DEF TypeOK
<1>1. ASSUME NEW c \in Conns, Join(c) \/ Leave(c)
      PROVE  TypeOK'
  BY <1>0, <1>1 DEF Join, Leave, TypeOK, taskVars, replayVars
<1>2. ASSUME NEW c \in Conns, Ask(c)
      PROVE  TypeOK'
  <2>1. Replay(First(Amount), Name[c]) \in Seq(Pairs)
    BY <1>0, FirstIs, ReplayIs
  <2>2. First(Amount) \in Nat
    BY <1>0, FirstIs
  <2>3. /\ pc' = [pc EXCEPT ![c] = "asked"] /\ replays' = replays + 1
        /\ snap' = [snap EXCEPT ![c] = Replay(First(Amount), Name[c])]
        /\ low' = [low EXCEPT ![c] = First(Amount)] /\ top' = [top EXCEPT ![c] = Len(log)]
        /\ during' = [during EXCEPT ![c] = {}] /\ between' = [between EXCEPT ![c] = {}]
        /\ UNCHANGED <<up, log, doing, step, todo, view>>
    BY <1>2 DEF Ask, taskVars
  <2> DEFINE r == Replay(First(Amount), Name[c])
             lo == First(Amount)
  <2> HIDE DEF r, lo
  <2>4. r \in Seq(Pairs) /\ lo \in Nat /\ low' = [low EXCEPT ![c] = lo] /\ snap' = [snap EXCEPT ![c] = r]
    BY <2>1, <2>2, <2>3 DEF r, lo
  <2>5. low' \in [Conns -> Nat] /\ snap' \in [Conns -> Seq(Pairs)]
    BY <2>4 DEF TypeOK
  <2> QED BY <1>0, <2>3, <2>5 DEF TypeOK, Replayed
<1>3. ASSUME NEW c \in Conns, Reset(c)
      PROVE  TypeOK'
  <2>1. <<>> \in Seq(Pairs)
    OBVIOUS
  <2> QED BY <1>0, <1>3, <2>1 DEF Reset, TypeOK, taskVars, replayVars, Replayed
<1>4. ASSUME NEW c \in Conns, SendReplay(c)
      PROVE  TypeOK'
  <2>1. <<>> \in Seq(Pairs)
    OBVIOUS
  <2>2. view[c] \o snap[c] \in Seq(Pairs)
    BY ConcatProperties DEF TypeOK
  <2> QED BY <1>0, <1>4, <2>1, <2>2 DEF SendReplay, TypeOK, taskVars
<1>5. ASSUME NEW p \in Callers, Posts(p)
      PROVE  TypeOK'
  <2>1. /\ log' \in Seq(Logged) /\ Len(log') <= MaxLog
        /\ doing' \in [Callers -> Nat] /\ step' \in [Callers -> Nat]
    <3>1. /\ log' \in Seq(Logged) /\ Len(log) < MaxLog /\ Len(log') = Len(log) + 1
          /\ doing' = [doing EXCEPT ![p] = Len(log) + 1] /\ step' = [step EXCEPT ![p] = 1]
      BY <1>5, PostsTypes
    <3>2. doing \in [Callers -> Nat] /\ step \in [Callers -> Nat]
      BY DEF TypeOK
    <3> QED BY <1>0, <3>1, <3>2
  <2>2. pc' \in [Callers -> {"new", "idle", "gone", "off", "bot"} \cup Sending \cup Replayed]
    BY <1>5, PostsTypes DEF TypeOK, Sending
  <2>3. UNCHANGED <<up, todo, view, replayVars>>
    BY <1>5, PostsTypes
  <2> QED BY <2>1, <2>2, <2>3 DEF TypeOK, replayVars
<1>6. ASSUME NEW p \in Callers, Broadcast(p)
      PROVE  TypeOK'
  BY <1>0, <1>6 DEF Broadcast, TypeOK, Sending, replayVars
<1>7. ASSUME NEW p \in Callers, NEW c \in Conns, PushesFor(p, c)
      PROVE  TypeOK'
  <2>1. <<doing[p], step[p]>> \in Pairs
    BY DEF TypeOK, Pairs
  <2>2. Append(view[c], <<doing[p], step[p]>>) \in Seq(Pairs)
    BY <2>1, AppendProperties DEF TypeOK
  <2> QED BY <1>0, <1>7, <2>1, <2>2 DEF PushesFor, TypeOK
<1>8. ASSUME NEW p \in Callers, EndBroadcast(p)
      PROVE  TypeOK'
  <2>1. doing' \in [Callers -> Nat] /\ step' \in [Callers -> Nat]
    <3>1. UNCHANGED doing \/ doing' = [doing EXCEPT ![p] = 0]
      BY <1>8 DEF EndBroadcast
    <3>2. step' = [step EXCEPT ![p] = @ + 1] \/ step' = [step EXCEPT ![p] = 0]
      BY <1>8 DEF EndBroadcast
    <3>3. doing \in [Callers -> Nat] /\ step \in [Callers -> Nat]
      BY DEF TypeOK
    <3>4. step[p] + 1 \in Nat
      BY <3>3
    <3> QED BY <3>1, <3>2, <3>3, <3>4
  <2>2. pc' \in [Callers -> {"new", "idle", "gone", "off", "bot"} \cup Sending \cup Replayed]
    <3>1. CASE step[p] < Len(BatchOf(doing[p]))
      BY <1>8, <3>1 DEF EndBroadcast, TypeOK, Sending
    <3>2. CASE ~(step[p] < Len(BatchOf(doing[p])))
      <4>1. pc' = [q \in Callers |->
                     CASE q = p -> Home(p)
                       [] q # p /\ q = doing[p] /\ IsToBot(log[doing[p]].msg) -> "bot"
                       [] OTHER -> pc[q]]
        BY <1>8, <3>2 DEF EndBroadcast
      <4>2. \A q \in Callers : pc'[q] \in {"idle", "off", "bot", pc[q]}
        BY <4>1 DEF Home
      <4> QED BY <4>1, <4>2 DEF TypeOK
    <3> QED BY <3>1, <3>2
  <2> QED BY <1>0, <1>8, <2>1, <2>2 DEF EndBroadcast, TypeOK, replayVars
<1>9. ASSUME NEW i \in Tasks, NoAnswer(i)
      PROVE  TypeOK'
  BY <1>0, <1>9 DEF NoAnswer, TypeOK, taskVars, replayVars
<1>10. CASE UNCHANGED vars
  BY <1>10 DEF vars, taskVars, replayVars, TypeOK
<1> QED BY <1>1, <1>2, <1>3, <1>4, <1>5, <1>6, <1>7, <1>8, <1>9, <1>10, Steps

\* What is logged stays, and so does who it is for.
LEMMA LogGrows ==
  ASSUME TypeOK, PlaceInv, Next
  PROVE  /\ Len(log) \in Nat /\ Len(log') \in Nat /\ Len(log) <= Len(log')
         /\ \A i \in 1..Len(log) :
              /\ log'[i] = log[i] /\ BatchOf(i)' = BatchOf(i)
              /\ \A e, c : IsFor(i, e, c)' <=> IsFor(i, e, c)
<1>1. Len(log) \in Nat
  BY LenProperties DEF TypeOK
<1>2. /\ Len(log') \in Nat /\ Len(log) <= Len(log')
      /\ \A i \in 1..Len(log) : log'[i] = log[i]
  <2>1. CASE \E p \in Callers : Posts(p)
    BY <1>1, <2>1, PostsTypes
  <2>2. CASE log' = log
    BY <1>1, <2>2
  <2>3. (\E p \in Callers : Posts(p)) \/ log' = log
    BY Steps DEF Join, Leave, Ask, Reset, SendReplay, Broadcast, EndBroadcast, PushesFor, NoAnswer, vars
  <2> QED BY <2>1, <2>2, <2>3
<1>3. ASSUME NEW i \in 1..Len(log)  PROVE BatchOf(i)' = BatchOf(i)
  BY <1>2 DEF BatchOf
<1> QED BY <1>1, <1>2, <1>3 DEF IsFor

LEMMA BatchIs ==
  ASSUME NEW i
  PROVE  1 \in DOMAIN BatchOf(i) /\ DOMAIN BatchOf(i) \in {1..1, 1..2} /\ Len(BatchOf(i)) \in {1, 2}
         /\ DOMAIN BatchOf(i) = 1..Len(BatchOf(i))
<1>1. DOMAIN BatchOf(i) \in {1..1, 1..2}
  BY BatchShape DEF BatchOf
<1>2. BatchOf(i) = [e \in DOMAIN BatchOf(i) |-> BatchOf(i)[e]]
  BY DEF BatchOf, Batch
<1> DEFINE b == BatchOf(i)
<1> HIDE DEF b
<1>3. b = [e \in DOMAIN b |-> b[e]] /\ DOMAIN b \in {1..1, 1..2}
  BY <1>1, <1>2 DEF b
<1>4. Len(b) \in {1, 2} /\ DOMAIN b = 1..Len(b)
  <2>1. PICK n \in {1, 2} : DOMAIN b = 1..n
    BY <1>3
  <2>2. b \in Seq({b[e] : e \in 1..n})
    BY <1>3, <2>1
  <2>3. Len(b) = n
    BY <2>1, <2>2, LenProperties
  <2> QED BY <2>1, <2>3
<1>5. 1 \in DOMAIN b
  BY <1>3
<1> QED BY <1>3, <1>4, <1>5 DEF b

LEMMA AuthorKept ==
  ASSUME TypeOK, PlaceInv, AuthorInv, Next
  PROVE  AuthorInv'
<1>0. Len(log) \in Nat
  BY LenProperties DEF TypeOK
<1>1. ASSUME NEW p \in Callers, Posts(p)
      PROVE  AuthorInv'
  <2>1. /\ Len(log') = Len(log) + 1 /\ log'[Len(log) + 1].by = p
        /\ \A i \in 1..Len(log) : log'[i] = log[i]
        /\ doing' = [doing EXCEPT ![p] = Len(log) + 1] /\ pc' = [pc EXCEPT ![p] = "bcast"]
    BY <1>1, PostsTypes
  <2>2. ASSUME NEW q \in Callers, pc'[q] \in Sending
        PROVE  /\ log'[doing'[q]].by = q
               /\ \A j \in doing'[q] + 1 .. Len(log') : log'[j].by # q
    <3>1. CASE q = p
      <4>1. doing'[q] = Len(log) + 1
        BY <2>1, <3>1 DEF TypeOK
      <4>2. doing'[q] + 1 .. Len(log') = {}
        BY <1>0, <2>1, <4>1
      <4> QED BY <2>1, <3>1, <4>1, <4>2
    <3>2. CASE q # p
      <4>1. pc[q] \in Sending /\ doing'[q] = doing[q]
        BY <2>1, <2>2, <3>2 DEF TypeOK
      <4>2. doing[q] \in 1..Len(log) /\ log[doing[q]].by = q
            /\ \A j \in doing[q] + 1 .. Len(log) : log[j].by # q
        BY <4>1 DEF PlaceInv, PlaceAt, AuthorInv
      <4>3. \A j \in doing[q] + 1 .. Len(log') : j = Len(log) + 1 \/ (j \in doing[q] + 1 .. Len(log) /\ j \in 1..Len(log))
        BY <1>0, <2>1, <4>2
      <4> QED BY <2>1, <3>2, <4>1, <4>2, <4>3
    <3> QED BY <3>1, <3>2
  <2> QED BY <2>2 DEF AuthorInv
<1>2. CASE /\ log' = log
           /\ \A q \in Callers : pc'[q] \in Sending => pc[q] \in Sending /\ doing'[q] = doing[q]
  BY <1>2 DEF AuthorInv
<1>3. ASSUME NEW c \in Conns, Join(c) \/ Leave(c) \/ Ask(c) \/ Reset(c) \/ SendReplay(c)
      PROVE  AuthorInv'
  BY <1>2, <1>3 DEF Join, Leave, Ask, Reset, SendReplay, Sending, taskVars, TypeOK
<1>4. ASSUME NEW p \in Callers, Broadcast(p) \/ \E c \in Conns : PushesFor(p, c)
      PROVE  AuthorInv'
  BY <1>2, <1>4 DEF Broadcast, PushesFor, Sending, TypeOK
<1>5. ASSUME NEW p \in Callers, EndBroadcast(p)
      PROVE  AuthorInv'
  <2>1. CASE step[p] < Len(BatchOf(doing[p]))
    BY <1>2, <1>5, <2>1 DEF EndBroadcast, Sending, TypeOK
  <2>2. CASE ~(step[p] < Len(BatchOf(doing[p])))
    <3>1. /\ log' = log /\ doing' = [doing EXCEPT ![p] = 0]
          /\ pc' = [q \in Callers |->
                      CASE q = p -> Home(p)
                        [] q # p /\ q = doing[p] /\ IsToBot(log[doing[p]].msg) -> "bot"
                        [] OTHER -> pc[q]]
      BY <1>5, <2>2 DEF EndBroadcast
    <3>2. \A q \in Callers : pc'[q] \in Sending => q # p /\ pc'[q] = pc[q]
      BY <3>1 DEF Sending, Home
    <3> QED BY <1>2, <3>1, <3>2 DEF TypeOK
  <2> QED BY <2>1, <2>2
<1>6. ASSUME NEW i \in Tasks, NoAnswer(i)
      PROVE  AuthorInv'
  BY <1>2, <1>6 DEF NoAnswer, Sending, taskVars, TypeOK
<1>7. CASE UNCHANGED vars
  BY <1>2, <1>7 DEF vars, taskVars
<1> QED BY <1>1, <1>3, <1>4, <1>5, <1>6, <1>7, Steps

LEMMA PlaceKept ==
  ASSUME TypeOK, PlaceInv, AuthorInv, Next
  PROVE  PlaceInv'
<1>0. /\ Len(log) \in Nat /\ Callers = Conns \cup Tasks /\ Conns \cap Tasks = {}
      /\ Tasks \subseteq Nat \ {0} /\ \A i \in 1..Len(log) : i \in Tasks
  BY LenProperties, Apart, CatchupAssumption DEF TypeOK, Tasks
<1>1. /\ \A p \in Callers : PlaceAt(p)
      /\ \A c \in Conns : UpAt(c)
      /\ \A i \in Tasks : TaskAt(i)
  BY DEF PlaceInv
<1>2. ASSUME NEW c \in Conns, Join(c) \/ Leave(c)
      PROVE  PlaceInv'
  <2>1. /\ UNCHANGED <<log, doing, step, todo>> /\ pc[c] \notin Sending /\ pc'[c] \in {"idle", "gone"}
        /\ \A p \in Callers : p # c => pc'[p] = pc[p]
        /\ \A p \in Callers : todo[p] = {}
    BY <1>0, <1>1, <1>2 DEF Join, Leave, taskVars, NoReaders, PlaceAt, TypeOK, Sending
  <2>2. ASSUME NEW p \in Callers  PROVE PlaceAt(p)'
    BY <1>1, <2>1 DEF PlaceAt, Sending, BatchOf
  <2>3. ASSUME NEW d \in Conns  PROVE UpAt(d)'
    BY <1>0, <1>1, <1>2, <2>1 DEF UpAt, Join, Leave, TypeOK
  <2>4. ASSUME NEW i \in Tasks  PROVE TaskAt(i)'
    BY <1>0, <1>1, <2>1 DEF TaskAt
  <2> QED BY <2>2, <2>3, <2>4 DEF PlaceInv
<1>3. ASSUME NEW c \in Conns, Ask(c) \/ Reset(c) \/ SendReplay(c)
      PROVE  PlaceInv'
  <2>1. /\ UNCHANGED <<up, log, doing, step, todo>> /\ pc[c] \in {"idle"} \cup Replayed
        /\ pc'[c] \in {"idle"} \cup Replayed /\ \A p \in Callers : p # c => pc'[p] = pc[p]
    BY <1>0, <1>3 DEF Ask, Reset, SendReplay, taskVars, Replayed, TypeOK
  <2>2. ASSUME NEW p \in Callers  PROVE PlaceAt(p)'
    BY <1>1, <2>1 DEF PlaceAt, Sending, Replayed, BatchOf, IsFor
  <2>3. ASSUME NEW d \in Conns  PROVE UpAt(d)'
    BY <1>0, <1>1, <2>1 DEF UpAt, Replayed
  <2>4. ASSUME NEW i \in Tasks  PROVE TaskAt(i)'
    BY <1>0, <1>1, <2>1 DEF TaskAt
  <2> QED BY <2>2, <2>3, <2>4 DEF PlaceInv
<1>4. ASSUME NEW p \in Callers, Posts(p)
      PROVE  PlaceInv'
  <2>1. /\ Len(log') = Len(log) + 1
        /\ doing' = [doing EXCEPT ![p] = Len(log) + 1] /\ step' = [step EXCEPT ![p] = 1]
        /\ pc' = [pc EXCEPT ![p] = "bcast"]
        /\ UNCHANGED <<up, todo>>
    BY <1>4, PostsTypes
  <2>2. pc[p] \notin Sending /\ (p \in Conns => pc[p] = "idle") /\ (p \in Tasks => pc[p] = "bot")
    BY <1>0, <1>4 DEF Posts, Sending
  <2>3. /\ doing'[p] = Len(log) + 1 /\ step'[p] = 1 /\ pc'[p] = "bcast"
        /\ \A q \in Callers : q # p => doing'[q] = doing[q] /\ step'[q] = step[q] /\ pc'[q] = pc[q]
    BY <2>1 DEF TypeOK
  <2>4. ASSUME NEW q \in Callers  PROVE PlaceAt(q)'
    <3>1. CASE q = p
      <4>1. 1 \in DOMAIN Batch({}, log'[doing'[q]].from, log'[doing'[q]].bot, log'[doing'[q]].msg)
        BY BatchShape
      <4>2. todo'[q] = {}
        BY <1>1, <2>1, <2>2, <3>1 DEF PlaceAt, Sending
      <4>3. doing'[q] \in 1..Len(log')
        BY <1>0, <2>1, <2>3, <3>1
      <4>4. step'[q] \in DOMAIN BatchOf(doing[q])'
        BY <2>3, <3>1, <4>1 DEF BatchOf
      <4> QED BY <2>3, <3>1, <4>2, <4>3, <4>4 DEF PlaceAt, Sending
    <3>2. CASE q # p
      <4>1. doing'[q] = doing[q] /\ step'[q] = step[q] /\ pc'[q] = pc[q] /\ todo'[q] = todo[q] /\ up' = up
        BY <2>1, <2>3, <3>2
      <4>2. CASE pc[q] \notin Sending
        <5>1. doing[q] = 0 /\ todo[q] = {}
          BY <1>1, <4>2 DEF PlaceAt, Sending
        <5> QED BY <4>1, <4>2, <5>1 DEF PlaceAt, Sending
      <4>3. CASE pc[q] \in Sending
        <5>1. doing[q] \in 1..Len(log) /\ doing[q] \in 1..Len(log')
          BY <1>0, <1>1, <2>1, <4>3 DEF PlaceAt
        <5>2. /\ BatchOf(doing[q])' = BatchOf(doing[q])
              /\ \A e, c : IsFor(doing[q], e, c)' <=> IsFor(doing[q], e, c)
          BY <4>1, <5>1, LogGrows
        <5> QED BY <1>1, <4>1, <4>3, <5>1, <5>2 DEF PlaceAt
      <4> QED BY <4>2, <4>3
    <3> QED BY <3>1, <3>2
  <2>5. ASSUME NEW d \in Conns  PROVE UpAt(d)'
    BY <1>0, <1>1, <2>1, <2>2, <2>3 DEF UpAt
  <2>6. ASSUME NEW i \in Tasks  PROVE TaskAt(i)'
    <3>1. CASE i = p
      BY <1>0, <1>1, <2>1, <2>2, <2>3, <3>1 DEF TaskAt, Sending
    <3>2. CASE i # p
      BY <1>0, <1>1, <2>1, <2>3, <3>2 DEF TaskAt
    <3> QED BY <3>1, <3>2
  <2> QED BY <2>4, <2>5, <2>6 DEF PlaceInv
<1>5. ASSUME NEW p \in Callers, Broadcast(p)
      PROVE  PlaceInv'
  <2>1. /\ UNCHANGED <<up, log, doing, step>> /\ pc[p] = "bcast" /\ pc'[p] = "push"
        /\ \A q \in Callers : q # p => pc'[q] = pc[q] /\ todo'[q] = todo[q]
        /\ \A c \in todo'[p] : c \in up /\ IsFor(doing[p], step[p], c)
    BY <1>5 DEF Broadcast, TypeOK, IsFor
  <2>2. ASSUME NEW q \in Callers  PROVE PlaceAt(q)'
    BY <1>1, <2>1 DEF PlaceAt, Sending, BatchOf, IsFor
  <2>3. ASSUME NEW d \in Conns  PROVE UpAt(d)'
    BY <1>0, <1>1, <2>1 DEF UpAt
  <2>4. ASSUME NEW i \in Tasks  PROVE TaskAt(i)'
    BY <1>0, <1>1, <2>1 DEF TaskAt, Sending
  <2> QED BY <2>2, <2>3, <2>4 DEF PlaceInv
<1>6. ASSUME NEW p \in Callers, NEW c \in Conns, PushesFor(p, c)
      PROVE  PlaceInv'
  <2>1. /\ UNCHANGED <<up, log, doing, step, pc>> /\ pc[p] = "push"
        /\ \A q \in Callers : todo'[q] \subseteq todo[q]
    BY <1>6 DEF PushesFor, TypeOK
  <2>2. ASSUME NEW q \in Callers  PROVE PlaceAt(q)'
    BY <1>1, <2>1 DEF PlaceAt, BatchOf, IsFor
  <2>3. ASSUME NEW d \in Conns  PROVE UpAt(d)'
    BY <1>1, <2>1 DEF UpAt
  <2>4. ASSUME NEW i \in Tasks  PROVE TaskAt(i)'
    BY <1>1, <2>1 DEF TaskAt
  <2> QED BY <2>2, <2>3, <2>4 DEF PlaceInv
<1>7. ASSUME NEW p \in Callers, EndBroadcast(p)
      PROVE  PlaceInv'
  <2>1. /\ pc[p] = "push" /\ todo[p] = {} /\ UNCHANGED <<up, log, todo>>
    BY <1>7 DEF EndBroadcast
  <2>2. doing[p] \in 1..Len(log) /\ step[p] \in DOMAIN BatchOf(doing[p]) /\ doing[p] \in Tasks
    BY <1>0, <1>1, <2>1 DEF PlaceAt, Sending
  <2>3. CASE step[p] < Len(BatchOf(doing[p]))
    <3>1. /\ step'[p] = step[p] + 1 /\ pc'[p] = "bcast" /\ doing' = doing
          /\ \A q \in Callers : q # p => pc'[q] = pc[q] /\ step'[q] = step[q]
      BY <1>7, <2>3 DEF EndBroadcast, TypeOK
    <3>2. step'[p] \in DOMAIN BatchOf(doing[p])
      BY <2>2, <2>3, <3>1, BatchIs
    <3>3. ASSUME NEW q \in Callers  PROVE PlaceAt(q)'
      BY <1>1, <2>1, <2>2, <3>1, <3>2 DEF PlaceAt, Sending, BatchOf, IsFor
    <3>4. ASSUME NEW d \in Conns  PROVE UpAt(d)'
      BY <1>0, <1>1, <2>1, <3>1 DEF UpAt
    <3>5. ASSUME NEW i \in Tasks  PROVE TaskAt(i)'
      BY <1>0, <1>1, <2>1, <3>1 DEF TaskAt, Sending
    <3> QED BY <3>3, <3>4, <3>5 DEF PlaceInv
  <2>4. CASE ~(step[p] < Len(BatchOf(doing[p])))
    <3>1. /\ doing'[p] = 0 /\ pc'[p] = Home(p)
          /\ \A q \in Callers : q # p => doing'[q] = doing[q] /\ step'[q] = step[q]
          /\ \A q \in Callers : q # p => pc'[q] = pc[q] \/ (q = doing[p] /\ pc'[q] = "bot")
      BY <1>7, <2>4 DEF EndBroadcast, TypeOK
    <3>2. pc[doing[p]] = "off" /\ doing[p] # p
      BY <1>0, <1>1, <2>1, <2>2 DEF TaskAt
    <3>3. \A q \in Callers : q # p => doing[q] # doing[p]
      BY <1>0, <1>1, <2>1, <2>2 DEF PlaceAt, AuthorInv, Sending
    <3>4. ASSUME NEW q \in Callers  PROVE PlaceAt(q)'
      <4>1. CASE q = p
        BY <2>1, <3>1, <4>1 DEF PlaceAt, Sending, Home
      <4>2. CASE q # p /\ pc'[q] = pc[q]
        BY <1>1, <2>1, <3>1, <4>2 DEF PlaceAt, BatchOf, IsFor
      <4>3. CASE q # p /\ q = doing[p] /\ pc'[q] = "bot"
        BY <1>1, <2>1, <3>1, <3>2, <4>3 DEF PlaceAt, Sending
      <4> QED BY <3>1, <4>1, <4>2, <4>3
    <3>5. ASSUME NEW d \in Conns  PROVE UpAt(d)'
      BY <1>0, <1>1, <2>1, <2>2, <3>1 DEF UpAt, Home
    <3>6. ASSUME NEW i \in Tasks  PROVE TaskAt(i)'
      <4>1. CASE i = p
        BY <1>0, <3>1, <4>1 DEF TaskAt, Home
      <4>2. CASE i # p /\ pc'[i] = pc[i]
        BY <1>0, <1>1, <2>1, <3>1, <4>2 DEF TaskAt
      <4>3. CASE i # p /\ i = doing[p] /\ pc'[i] = "bot"
        BY <1>0, <2>1, <2>2, <3>1, <3>3, <4>3 DEF TaskAt
      <4> QED BY <1>0, <3>1, <4>1, <4>2, <4>3
    <3> QED BY <3>4, <3>5, <3>6 DEF PlaceInv
  <2> QED BY <2>3, <2>4
<1>8. ASSUME NEW i \in Tasks, NoAnswer(i)
      PROVE  PlaceInv'
  <2>1. /\ UNCHANGED <<up, log, doing, step, todo>> /\ pc[i] = "bot" /\ pc'[i] = "off"
        /\ \A q \in Callers : q # i => pc'[q] = pc[q]
    BY <1>0, <1>8 DEF NoAnswer, taskVars, TypeOK
  <2>2. ASSUME NEW q \in Callers  PROVE PlaceAt(q)'
    BY <1>1, <2>1 DEF PlaceAt, Sending, BatchOf, IsFor
  <2>3. ASSUME NEW d \in Conns  PROVE UpAt(d)'
    BY <1>0, <1>1, <2>1 DEF UpAt
  <2>4. ASSUME NEW j \in Tasks  PROVE TaskAt(j)'
    BY <1>0, <1>1, <2>1 DEF TaskAt
  <2> QED BY <2>2, <2>3, <2>4 DEF PlaceInv
<1>9. CASE UNCHANGED vars
  BY <1>1, <1>9 DEF vars, taskVars, PlaceInv, PlaceAt, UpAt, TaskAt, BatchOf, IsFor
<1> QED BY <1>2, <1>3, <1>4, <1>5, <1>6, <1>7, <1>8, <1>9, Steps
-----------------------------------------------------------------------------
(* What a step may do to the view of c, and to what is due for it.         *)

Quiet(c) ==
  /\ view'[c] = view[c] /\ snap'[c] = snap[c] /\ low'[c] = low[c] /\ top'[c] = top[c]
  /\ during'[c] = during[c] /\ between'[c] = between[c]
  /\ pc'[c] = pc[c] \/ {pc[c], pc'[c]} \cap Replayed = {}
  /\ pc'[c] = "new" => pc[c] = "new"
  /\ c \in up' => c \in up \/ pc[c] = "new"

LEMMA AtTask ==
  ASSUME TypeOK, PlaceInv, NEW p \in Callers, pc[p] \in Sending
  PROVE  doing[p] \in Tasks
<1>1. doing[p] \in 1..Len(log) /\ Len(log) <= MaxLog
  BY DEF PlaceInv, PlaceAt, TypeOK
<1>2. Len(log) \in Nat /\ MaxLog \in Nat
  BY LenProperties, CatchupAssumption DEF TypeOK
<1> QED BY <1>1, <1>2 DEF Tasks

LEMMA Effects ==
  ASSUME TypeOK, PlaceInv, Next, NEW c \in Conns
  PROVE  Ask(c) \/ Reset(c) \/ SendReplay(c) \/ Quiet(c) \/ \E p \in Callers : PushesFor(p, c)
<1>0. c \in Callers /\ Conns \subseteq Callers
  BY Apart
<1>1. ASSUME NEW d \in Conns, Join(d) \/ Leave(d)
      PROVE  Quiet(c)
  BY <1>0, <1>1 DEF Join, Leave, Quiet, Replayed, replayVars, TypeOK
<1>2. ASSUME NEW d \in Conns, d # c, Ask(d) \/ Reset(d) \/ SendReplay(d)
      PROVE  Quiet(c)
  BY <1>0, <1>2 DEF Ask, Reset, SendReplay, Quiet, replayVars, TypeOK
<1>3. ASSUME NEW p \in Callers, Posts(p)
      PROVE  Quiet(c)
  <2>1. UNCHANGED <<up, view, replayVars>> /\ pc' = [pc EXCEPT ![p] = "bcast"]
    BY <1>3, PostsTypes
  <2>2. p = c => pc[c] = "idle"
    BY <1>3, Apart DEF Posts
  <2> QED BY <1>0, <2>1, <2>2 DEF Quiet, Replayed, replayVars, TypeOK
<1>4. ASSUME NEW p \in Callers, Broadcast(p)
      PROVE  Quiet(c)
  BY <1>0, <1>4 DEF Broadcast, Quiet, Replayed, replayVars, TypeOK
<1>5. ASSUME NEW p \in Callers, NEW d \in Conns, d # c, PushesFor(p, d)
      PROVE  Quiet(c)
  BY <1>5 DEF PushesFor, Quiet, TypeOK
<1>6. ASSUME NEW p \in Callers, EndBroadcast(p)
      PROVE  Quiet(c)
  <2>1. doing[p] \in Tasks /\ pc[p] = "push"
    BY <1>6, AtTask DEF EndBroadcast, Sending
  <2>2. pc'[c] = pc[c] \/ (c = p /\ pc'[c] \in {"bcast", "idle"})
    BY <1>0, <1>6, <2>1, Apart DEF EndBroadcast, Home, TypeOK
  <2> QED BY <1>6, <2>1, <2>2 DEF EndBroadcast, Quiet, Replayed, replayVars
<1>7. ASSUME NEW i \in Tasks, NoAnswer(i)
      PROVE  Quiet(c)
  <2>1. i # c
    BY Apart
  <2> QED BY <1>0, <1>7, <2>1 DEF NoAnswer, Quiet, replayVars, TypeOK
<1>8. CASE UNCHANGED vars
  BY <1>8 DEF vars, replayVars, Quiet
<1> QED BY <1>1, <1>2, <1>3, <1>4, <1>5, <1>6, <1>7, <1>8, Steps

\* What a handler p has to push of message i for c.
DueBy(p, i, e, c) ==
  doing[p] = i /\ (step[p] < e \/ (step[p] = e /\ (pc[p] = "bcast" \/ c \in todo[p])))

LEMMA DueIs == \A i, e, c : Due(i, e, c) <=> \E p \in Callers : DueBy(p, i, e, c)
  BY DEF Due, DueBy

\* Who does nothing to a handler.
LEMMA SameHandler ==
  ASSUME NEW p \in Callers, doing'[p] = doing[p], step'[p] = step[p], todo'[p] = todo[p],
         pc'[p] = "bcast" <=> pc[p] = "bcast"
  PROVE  \A i, e, c : DueBy(p, i, e, c)' <=> DueBy(p, i, e, c)
BY DEF DueBy

\* Each handler goes on with the entries of its message, or takes a new one;
\* it has an entry behind it when everybody in question has it.
LEMMA DueSteps ==
  ASSUME TypeOK, PlaceInv, Next, NEW p \in Callers, NEW i \in 1..Len(log), NEW e \in Nat, NEW c \in Conns
  PROVE  /\ DueBy(p, i, e, c)' => DueBy(p, i, e, c)
         /\ DueBy(p, i, e, c) /\ c \in up /\ e \in DOMAIN BatchOf(i) /\ IsFor(i, e, c)
              => \/ DueBy(p, i, e, c)'
                 \/ PushesFor(p, c) /\ doing[p] = i /\ step[p] = e
<1>0. /\ Len(log) \in Nat /\ i # 0 /\ c \in Callers /\ PlaceAt(p) /\ step[p] \in Nat
      /\ Callers = Conns \cup Tasks /\ Conns \cap Tasks = {}
  <2>1. Len(log) \in Nat
    BY LenProperties DEF TypeOK
  <2> QED BY <2>1, Apart DEF TypeOK, PlaceInv
<1> DEFINE Still == /\ doing'[p] = doing[p] /\ step'[p] = step[p] /\ todo'[p] = todo[p]
                    /\ pc'[p] = "bcast" <=> pc[p] = "bcast"
<1>1. Still => (DueBy(p, i, e, c)' <=> DueBy(p, i, e, c))
  BY SameHandler
<1>2. CASE \E d \in Conns : Join(d) \/ Leave(d) \/ Ask(d) \/ Reset(d) \/ SendReplay(d)
  <2>1. Still
    BY <1>0, <1>2 DEF Join, Leave, Ask, Reset, SendReplay, taskVars, TypeOK
  <2> QED BY <1>1, <2>1
<1>3. ASSUME NEW q \in Callers, Posts(q)
      PROVE  /\ DueBy(p, i, e, c)' => DueBy(p, i, e, c)
             /\ DueBy(p, i, e, c) => DueBy(p, i, e, c)'
  <2>1. /\ doing' = [doing EXCEPT ![q] = Len(log) + 1] /\ step' = [step EXCEPT ![q] = 1]
        /\ pc' = [pc EXCEPT ![q] = "bcast"] /\ todo' = todo
    BY <1>3, PostsTypes
  <2>2. CASE q # p
    <3>1. Still
      BY <2>1, <2>2 DEF TypeOK
    <3> QED BY <1>1, <3>1
  <2>3. CASE q = p
    <3>1. doing[p] = 0
      BY <1>0, <1>3, <2>3 DEF Posts, PlaceAt, Sending
    <3>2. doing'[p] = Len(log) + 1
      BY <2>1, <2>3 DEF TypeOK
    <3> QED BY <1>0, <3>1, <3>2 DEF DueBy
  <2> QED BY <2>2, <2>3
<1>4. ASSUME NEW q \in Callers, Broadcast(q)
      PROVE  /\ DueBy(p, i, e, c)' => DueBy(p, i, e, c)
             /\ DueBy(p, i, e, c) /\ c \in up /\ IsFor(i, e, c) => DueBy(p, i, e, c)'
  <2>1. CASE q # p
    <3>1. Still
      BY <1>4, <2>1 DEF Broadcast, TypeOK
    <3> QED BY <1>1, <3>1
  <2>2. CASE q = p
    <3>1. /\ pc[p] = "bcast" /\ pc'[p] = "push" /\ doing'[p] = doing[p] /\ step'[p] = step[p]
          /\ todo'[p] = {d \in up : IsFor(doing[p], step[p], d)}
      BY <1>4, <2>2 DEF Broadcast, TypeOK, IsFor
    <3> QED BY <3>1 DEF DueBy
  <2> QED BY <2>1, <2>2
<1>5. ASSUME NEW q \in Callers, NEW d \in Conns, PushesFor(q, d)
      PROVE  /\ DueBy(p, i, e, c)' => DueBy(p, i, e, c)
             /\ DueBy(p, i, e, c) => \/ DueBy(p, i, e, c)'
                                     \/ PushesFor(p, c) /\ doing[p] = i /\ step[p] = e
  <2>1. CASE q # p
    <3>1. Still
      BY <1>5, <2>1 DEF PushesFor, TypeOK
    <3> QED BY <1>1, <3>1
  <2>2. CASE q = p
    <3>1. /\ pc[p] = "push" /\ pc'[p] = "push" /\ doing'[p] = doing[p] /\ step'[p] = step[p]
          /\ todo'[p] = todo[p] \ {d}
      BY <1>5, <2>2 DEF PushesFor, TypeOK
    <3>2. DueBy(p, i, e, c)' => DueBy(p, i, e, c)
      BY <3>1 DEF DueBy
    <3>3. ASSUME DueBy(p, i, e, c), ~DueBy(p, i, e, c)'
          PROVE  c = d /\ doing[p] = i /\ step[p] = e
      BY <3>1, <3>3 DEF DueBy
    <3> QED BY <1>5, <2>2, <3>2, <3>3
  <2> QED BY <2>1, <2>2
<1>6. ASSUME NEW q \in Callers, EndBroadcast(q)
      PROVE  /\ DueBy(p, i, e, c)' => DueBy(p, i, e, c)
             /\ DueBy(p, i, e, c) /\ e \in DOMAIN BatchOf(i) => DueBy(p, i, e, c)'
  <2>1. CASE q # p
    <3>1. /\ doing'[p] = doing[p] /\ step'[p] = step[p] /\ todo'[p] = todo[p]
          /\ pc'[p] = "bcast" => pc[p] = "bcast"
      BY <1>6, <2>1 DEF EndBroadcast, TypeOK
    <3>2. pc[p] = "bcast" /\ doing[p] = i => pc'[p] = "bcast"
      <4>1. SUFFICES ASSUME pc[p] = "bcast", doing[p] = i PROVE pc'[p] = "bcast"
        OBVIOUS
      <4>2. doing[q] \in Tasks /\ doing[q] # p
        <5>1. doing[q] \in Tasks
          BY <1>6, AtTask DEF EndBroadcast, Sending
        <5>2. pc[p] # "off"
          BY <4>1
        <5> QED BY <5>1, <5>2 DEF PlaceInv, TaskAt
      <4> QED BY <1>6, <2>1, <4>1, <4>2 DEF EndBroadcast, TypeOK
    <3> QED BY <3>1, <3>2 DEF DueBy
  <2>2. CASE q = p
    <3>1. pc[p] = "push" /\ todo[p] = {} /\ todo'[p] = {}
      BY <1>6, <2>2 DEF EndBroadcast
    <3>2. CASE step[p] < Len(BatchOf(doing[p]))
      <4>1. step'[p] = step[p] + 1 /\ pc'[p] = "bcast" /\ doing'[p] = doing[p]
        BY <1>6, <2>2, <3>2 DEF EndBroadcast, TypeOK
      <4> QED BY <1>0, <3>1, <4>1 DEF DueBy
    <3>3. CASE ~(step[p] < Len(BatchOf(doing[p])))
      <4>1. doing'[p] = 0
        BY <1>6, <2>2, <3>3 DEF EndBroadcast, TypeOK
      <4>2. ASSUME DueBy(p, i, e, c), e \in DOMAIN BatchOf(i)  PROVE FALSE
        <5>1. doing[p] = i /\ step[p] < e
          BY <3>1, <4>2 DEF DueBy
        <5>2. e <= Len(BatchOf(i)) /\ Len(BatchOf(i)) \in Nat
          BY <4>2, BatchIs
        <5> QED BY <1>0, <3>3, <5>1, <5>2
      <4> QED BY <1>0, <4>1, <4>2 DEF DueBy
    <3> QED BY <3>2, <3>3
  <2> QED BY <2>1, <2>2
<1>7. CASE \E j \in Tasks : NoAnswer(j)
  <2>1. Still
    BY <1>0, <1>7 DEF NoAnswer, taskVars, TypeOK
  <2> QED BY <1>1, <2>1
<1>8. CASE UNCHANGED vars
  <2>1. Still
    BY <1>8 DEF vars, taskVars
  <2> QED BY <1>1, <2>1
<1> QED BY <1>2, <1>3, <1>4, <1>5, <1>6, <1>7, <1>8, Steps
-----------------------------------------------------------------------------
(* What is shown.                                                          *)

LEMMA RangeOfAppend ==
  ASSUME NEW S, NEW s \in Seq(S), NEW e \in S
  PROVE  Range(Append(s, e)) = Range(s) \cup {e}
<1>1. /\ Len(s) \in Nat /\ DOMAIN s = 1..Len(s) /\ DOMAIN Append(s, e) = 1..(Len(s) + 1)
      /\ Append(s, e)[Len(s) + 1] = e /\ \A i \in 1..Len(s) : Append(s, e)[i] = s[i]
  BY AppendProperties, LenProperties
<1>2. 1..(Len(s) + 1) = 1..Len(s) \cup {Len(s) + 1}
  BY <1>1
<1> QED BY <1>1, <1>2 DEF Range

\* What is for c stays so.
LEMMA IsOfKept ==
  ASSUME TypeOK, PlaceInv, Next, NEW x \in Pairs, NEW lo \in Nat \ {0}, NEW hi \in Nat, NEW n, hi <= Len(log)
  PROVE  IsOf(x, lo, hi, n)' <=> IsOf(x, lo, hi, n)
<1>1. x[1] \in lo..hi => x[1] \in 1..Len(log)
  BY LenProperties DEF Pairs, TypeOK
<1>2. x[1] \in 1..Len(log) => BatchOf(x[1])' = BatchOf(x[1])
  BY LogGrows
<1> QED BY <1>1, <1>2 DEF IsOf

LEMMA MineKept ==
  ASSUME TypeOK, PlaceInv, Next, NEW x \in Pairs, NEW c \in Conns, Mine(x, c)
  PROVE  Mine(x, c)'
<1>1. Len(log) \in Nat /\ Len(log') \in Nat /\ Len(log) <= Len(log')
  BY LogGrows
<1>2. IsOf(x, 1, Len(log), Name[c])
  BY DEF Mine
<1>3. x[1] \in 1..Len(log) /\ BatchOf(x[1])' = BatchOf(x[1])
  BY <1>2, LogGrows DEF IsOf
<1>4. x[1] \in 1..Len(log')
  BY <1>1, <1>3
<1> QED BY <1>2, <1>3, <1>4 DEF Mine, IsOf

\* The sequences of c's state, and what is for it of a replay.
LEMMA ShowTypes ==
  ASSUME TypeOK, ShowInv, NEW c \in Conns
  PROVE  /\ view[c] \in Seq(Pairs) /\ snap[c] \in Seq(Pairs) /\ c \in Callers
         /\ low[c] \in Nat /\ top[c] \in Nat /\ Len(log) \in Nat /\ top[c] <= Len(log)
         /\ SnapAt(c) /\ ViewAt(c) /\ BetweenAt(c)
         /\ \A x \in Range(view[c]) : x \in Pairs
         /\ \A x \in Range(snap[c]) : x \in Pairs
         /\ pc[c] \in Replayed => \A x \in Range(snap[c]) : Mine(x, c) /\ x[1] <= top[c]
<1>1. /\ view[c] \in Seq(Pairs) /\ snap[c] \in Seq(Pairs) /\ c \in Callers
      /\ low[c] \in Nat /\ top[c] \in Nat /\ Len(log) \in Nat
      /\ SnapAt(c) /\ ViewAt(c) /\ BetweenAt(c)
  BY LenProperties, Apart DEF TypeOK, ShowInv
<1>2. \A x \in Range(view[c]) \cup Range(snap[c]) : x \in Pairs
  BY <1>1, RangeOfSeq
<1>3. ASSUME pc[c] \in Replayed, NEW x \in Range(snap[c])  PROVE Mine(x, c) /\ x[1] <= top[c]
  <2>1. x \in Pairs /\ IsOf(x, low[c], top[c], Name[c]) /\ low[c] # 0 /\ top[c] <= Len(log)
    BY <1>1, <1>2, <1>3 DEF SnapAt
  <2>2. x[1] \in 1..Len(log) /\ x[1] <= top[c]
    BY <1>1, <2>1 DEF IsOf, Pairs
  <2> QED BY <2>1, <2>2 DEF Mine, IsOf
<1> QED BY <1>1, <1>2, <1>3 DEF SnapAt

LEMMA ShowKept ==
  ASSUME TypeOK, PlaceInv, ShowInv, Next
  PROVE  ShowInv'
<1> SUFFICES ASSUME NEW c \in Conns  PROVE SnapAt(c)' /\ ViewAt(c)' /\ BetweenAt(c)'
  BY DEF ShowInv
<1>0. /\ Len(log) \in Nat /\ Len(log') \in Nat /\ Len(log) <= Len(log')
      /\ view[c] \in Seq(Pairs) /\ snap[c] \in Seq(Pairs) /\ c \in Callers
      /\ low[c] \in Nat /\ top[c] \in Nat /\ top[c] <= Len(log)
      /\ SnapAt(c) /\ ViewAt(c) /\ BetweenAt(c)
      /\ \A x \in Range(view[c]) : x \in Pairs /\ Mine(x, c)
  BY LogGrows, ShowTypes DEF ViewAt
<1>1. ASSUME pc'[c] \in Replayed => pc[c] \in Replayed /\ snap'[c] = snap[c],
             low'[c] = low[c], top'[c] = top[c]
      PROVE  SnapAt(c)'
  <2>1. top'[c] <= Len(log')
    BY <1>0, <1>1
  <2>2. ASSUME pc'[c] \in Replayed
        PROVE  /\ low'[c] # 0 /\ InOrder(snap'[c])
               /\ \A x \in Pairs : x \in Range(snap'[c]) <=> IsOf(x, low[c], top[c], Name[c])'
    <3>1. /\ low[c] # 0 /\ InOrder(snap[c])
          /\ \A x \in Pairs : x \in Range(snap[c]) <=> IsOf(x, low[c], top[c], Name[c])
      BY <1>0, <1>1, <2>2 DEF SnapAt
    <3>2. ASSUME NEW lo \in Nat \ {0}, NEW hi \in Nat, lo = low[c], hi = top[c], NEW x \in Pairs
          PROVE  x \in Range(snap'[c]) <=> IsOf(x, low[c], top[c], Name[c])'
      <4>1. x \in Range(snap[c]) <=> IsOf(x, lo, hi, Name[c])
        BY <3>1, <3>2
      <4>2. IsOf(x, lo, hi, Name[c])' <=> IsOf(x, lo, hi, Name[c])
        BY <1>0, <3>2, IsOfKept
      <4>3. IsOf(x, low[c], top[c], Name[c])' <=> IsOf(x, lo, hi, Name[c])'
        BY <1>1, <3>2 DEF IsOf, BatchOf
      <4> QED BY <1>1, <2>2, <4>1, <4>2, <4>3
    <3> QED BY <1>0, <1>1, <2>2, <3>1, <3>2
  <2> QED BY <2>1, <2>2 DEF SnapAt
<1>2. ASSUME \A x \in Range(view'[c]) : x \in Pairs /\ Mine(x, c)
      PROVE  ViewAt(c)'
  BY <1>2, MineKept DEF ViewAt
<1>3. CASE Ask(c)
  <2>1. /\ log' = log /\ view' = view /\ pc'[c] = "asked"
        /\ snap'[c] = Replay(First(Amount), Name[c]) /\ low'[c] = First(Amount) /\ top'[c] = Len(log)
    BY <1>0, <1>3 DEF Ask, TypeOK
  <2>2. First(Amount) \in Nat \ {0}
    BY <1>0, FirstIs
  <2> DEFINE lo == First(Amount)
  <2> HIDE DEF lo
  <2>3. /\ \A x \in Pairs : x \in Range(snap'[c]) <=> IsOf(x, lo, Len(log), Name[c])
        /\ InOrder(snap'[c])
    BY <1>0, <2>1, <2>2, ReplayIs DEF lo
  <2>4. SnapAt(c)'
    BY <1>0, <2>1, <2>2, <2>3 DEF SnapAt, IsOf, BatchOf, lo
  <2>5. ViewAt(c)'
    BY <1>0, <1>2, <2>1
  <2> QED BY <2>1, <2>4, <2>5 DEF BetweenAt
<1>4. CASE Reset(c)
  <2>1. /\ view'[c] = <<>> /\ snap' = snap /\ low' = low /\ top' = top /\ pc[c] = "asked"
    BY <1>4 DEF Reset, replayVars, TypeOK
  <2>2. Range(view'[c]) = {}
    BY <2>1 DEF Range
  <2>3. SnapAt(c)'
    BY <1>1, <2>1 DEF Replayed
  <2> QED BY <1>2, <2>2, <2>3 DEF BetweenAt
<1>5. CASE SendReplay(c)
  <2>1. /\ view'[c] = view[c] \o snap[c] /\ low' = low /\ top' = top /\ pc[c] = "reset" /\ pc'[c] = "idle"
    BY <1>0, <1>5 DEF SendReplay, TypeOK
  <2>2. Range(view'[c]) = Range(view[c]) \cup Range(snap[c])
    BY <1>0, <2>1, RangeConcatenation
  <2>3. \A x \in Range(snap[c]) : x \in Pairs /\ Mine(x, c)
    BY <2>1, ShowTypes DEF Replayed
  <2>4. SnapAt(c)'
    BY <1>1, <2>1 DEF Replayed
  <2>5. ViewAt(c)'
    BY <1>0, <1>2, <2>2, <2>3
  <2> QED BY <2>1, <2>4, <2>5 DEF BetweenAt
<1>6. CASE Quiet(c)
  <2>1. SnapAt(c)'
    BY <1>1, <1>6 DEF Quiet, Replayed
  <2>2. ViewAt(c)'
    BY <1>0, <1>2, <1>6 DEF Quiet
  <2> QED BY <1>0, <1>6, <2>1, <2>2 DEF Quiet, BetweenAt, Replayed
<1>7. ASSUME NEW p \in Callers, PushesFor(p, c)
      PROVE  SnapAt(c)' /\ ViewAt(c)' /\ BetweenAt(c)'
  <2> DEFINE e == <<doing[p], step[p]>>
  <2>1. e \in Pairs
    BY DEF TypeOK, Pairs
  <2>2. Mine(e, c)
    <3>1. doing[p] \in 1..Len(log) /\ step[p] \in DOMAIN BatchOf(doing[p]) /\ IsFor(doing[p], step[p], c)
      BY <1>7 DEF PushesFor, PlaceInv, PlaceAt, Sending
    <3> QED BY <3>1 DEF Mine, IsOf, IsFor
  <2>3. /\ view'[c] = Append(view[c], e) /\ UNCHANGED <<snap, low, top, pc>>
        /\ between'[c] = IF pc[c] = "reset" THEN between[c] \cup {e} ELSE between[c]
    BY <1>7 DEF PushesFor, TypeOK
  <2> HIDE DEF e
  <2>4. Range(view'[c]) = Range(view[c]) \cup {e}
    BY <1>0, <2>1, <2>3, RangeOfAppend
  <2>5. SnapAt(c)'
    BY <1>1, <2>3
  <2>6. ViewAt(c)'
    BY <1>0, <1>2, <2>1, <2>2, <2>4
  <2> QED BY <1>0, <2>3, <2>4, <2>5, <2>6 DEF BetweenAt
<1> QED BY <1>3, <1>4, <1>5, <1>6, <1>7, Effects

LEMMA LossKept ==
  ASSUME TypeOK, PlaceInv, ShowInv, LossInv, Next
  PROVE  LossInv'
<1> SUFFICES ASSUME NEW c \in Conns  PROVE LossAt(c)'
  BY DEF LossInv
<1>0. /\ Len(log) \in Nat /\ Len(log') \in Nat /\ Len(log) <= Len(log')
      /\ view[c] \in Seq(Pairs) /\ snap[c] \in Seq(Pairs) /\ c \in Callers
      /\ low[c] \in Nat /\ top[c] \in Nat /\ low'[c] \in Nat /\ top'[c] \in Nat /\ top[c] <= Len(log)
      /\ SnapAt(c) /\ LossAt(c)
  BY LogGrows, ShowTypes, TypeKept DEF TypeOK, LossInv
<1>1. pc'[c] = "new" => low'[c] = 0
  <2>1. CASE Quiet(c)
    BY <1>0, <2>1 DEF Quiet, LossAt
  <2>2. CASE Ask(c) \/ Reset(c) \/ SendReplay(c)
    BY <1>0, <2>2 DEF Ask, Reset, SendReplay, TypeOK
  <2>3. CASE \E p \in Callers : PushesFor(p, c)
    BY <1>0, <2>3 DEF PushesFor, LossAt
  <2> QED BY <2>1, <2>2, <2>3, Effects
<1>2. SUFFICES ASSUME c \in up', low'[c] # 0, NEW i \in Nat, NEW e \in Nat,
                      i \in low'[c]..Len(log'), e \in DOMAIN BatchOf(i)', IsFor(i, e, c)', ~Due(i, e, c)'
               PROVE  /\ i <= top'[c] /\ pc'[c] \notin Replayed => <<i, e>> \in Range(view'[c])
                      /\ i > top'[c] => <<i, e>> \in during'[c] \cup (IF pc'[c] = "asked" THEN {} ELSE Range(view'[c]))
  <2>1. \A i \in low'[c]..Len(log') : i \in Nat /\ \A e \in DOMAIN BatchOf(i)' : e \in Nat
    <3> TAKE i \in low'[c]..Len(log')
    <3>1. DOMAIN Batch({}, log'[i].from, log'[i].bot, log'[i].msg) \in {1..1, 1..2}
      BY BatchShape
    <3> QED BY <1>0, <3>1 DEF BatchOf
  <2> QED BY <1>1, <2>1 DEF LossAt
<1>3. i <= Len(log)
  <2>1. SUFFICES ASSUME i > Len(log)  PROVE FALSE
    BY <1>0
  <2>2. PICK p \in Callers : Posts(p)
    <3>1. (\E p \in Callers : Posts(p)) \/ log' = log
      BY Steps DEF Join, Leave, Ask, Reset, SendReplay, Broadcast, EndBroadcast, PushesFor, NoAnswer, vars
    <3> QED BY <1>0, <1>2, <2>1, <3>1
  <2>3. /\ Len(log') = Len(log) + 1 /\ doing'[p] = Len(log) + 1 /\ step'[p] = 1 /\ pc'[p] = "bcast"
    BY <2>2, PostsTypes DEF TypeOK
  <2>4. i = Len(log) + 1
    BY <1>0, <1>2, <2>1, <2>3
  <2>5. e >= 1
    <3>1. DOMAIN Batch({}, log'[i].from, log'[i].bot, log'[i].msg) \in {1..1, 1..2}
      BY BatchShape
    <3> QED BY <1>2, <3>1 DEF BatchOf
  <2>6. Due(i, e, c)'
    BY <2>3, <2>4, <2>5 DEF Due
  <2> QED BY <1>2, <2>6
<1>4. CASE Ask(c)
  BY <1>0, <1>3, <1>4 DEF Ask, TypeOK, Replayed
<1>5. CASE ~Ask(c)
  <2>1. /\ low'[c] = low[c] /\ top'[c] = top[c] /\ c \in up
    <3>1. CASE Quiet(c)
      BY <1>0, <1>2, <3>1 DEF Quiet, LossAt
    <3>2. CASE Reset(c) \/ SendReplay(c) \/ \E p \in Callers : PushesFor(p, c)
      BY <1>2, <3>2 DEF Reset, SendReplay, PushesFor, replayVars
    <3> QED BY <1>5, <3>1, <3>2, Effects
  <2>2. i \in 1..Len(log) /\ i \in low[c]..Len(log) /\ e \in DOMAIN BatchOf(i) /\ IsFor(i, e, c)
    <3>1. i \in 1..Len(log) /\ i \in low[c]..Len(log)
      BY <1>0, <1>2, <1>3, <2>1
    <3> QED BY <1>2, <3>1, LogGrows
  <2>3. CASE Due(i, e, c)
    <3>1. PICK p \in Callers : DueBy(p, i, e, c)
      BY <2>3, DueIs
    <3>2. ~DueBy(p, i, e, c)'
      BY <1>2 DEF Due, DueBy
    <3>3. PushesFor(p, c) /\ doing[p] = i /\ step[p] = e
      BY <2>1, <2>2, <3>1, <3>2, DueSteps
    <3>4. /\ view'[c] = Append(view[c], <<i, e>>) /\ pc' = pc
          /\ during'[c] = IF pc[c] = "asked" THEN during[c] \cup {<<i, e>>} ELSE during[c]
      BY <3>3 DEF PushesFor, TypeOK
    <3>5. <<i, e>> \in Range(view'[c])
      <4> DEFINE x == <<i, e>>
      <4>1. x \in Pairs
        BY DEF Pairs
      <4>2. view'[c] = Append(view[c], x)
        BY <3>4
      <4> HIDE DEF x
      <4>3. x \in Range(view'[c])
        BY <1>0, <4>1, <4>2, RangeOfAppend
      <4> QED BY <4>3 DEF x
    <3> QED BY <3>4, <3>5
  <2>4. CASE ~Due(i, e, c)
    <3>0. /\ i <= top[c] /\ pc[c] \notin Replayed => <<i, e>> \in Range(view[c])
          /\ i > top[c] => <<i, e>> \in during[c] \cup (IF pc[c] = "asked" THEN {} ELSE Range(view[c]))
      BY <1>0, <1>2, <2>1, <2>2, <2>4 DEF LossAt
    <3>1. CASE Reset(c)
      BY <1>0, <2>1, <3>0, <3>1 DEF Reset, TypeOK, Replayed, replayVars
    <3>2. CASE SendReplay(c)
      <4>1. /\ view'[c] = view[c] \o snap[c] /\ pc[c] = "reset" /\ pc'[c] = "idle" /\ during' = during
        BY <1>0, <3>2 DEF SendReplay, TypeOK
      <4>2. Range(view'[c]) = Range(view[c]) \cup Range(snap[c])
        BY <1>0, <4>1, RangeConcatenation
      <4>3. <<i, e>> \in Pairs
        BY DEF Pairs
      <4>4. i <= top[c] => IsOf(<<i, e>>, low[c], top[c], Name[c])
        BY <1>0, <2>2 DEF IsOf, IsFor
      <4>5. i <= top[c] => <<i, e>> \in Range(snap[c])
        BY <1>0, <4>1, <4>3, <4>4 DEF SnapAt, Replayed
      <4> QED BY <1>0, <2>1, <3>0, <4>1, <4>2, <4>5
    <3>3. CASE Quiet(c)
      BY <2>1, <3>0, <3>3 DEF Quiet, Replayed
    <3>4. ASSUME NEW p \in Callers, PushesFor(p, c)
          PROVE  /\ i <= top'[c] /\ pc'[c] \notin Replayed => <<i, e>> \in Range(view'[c])
                 /\ i > top'[c] => <<i, e>> \in during'[c] \cup (IF pc'[c] = "asked" THEN {} ELSE Range(view'[c]))
      <4> DEFINE x == <<doing[p], step[p]>>
      <4>1. x \in Pairs
        BY DEF TypeOK, Pairs
      <4>2. view'[c] = Append(view[c], x) /\ pc' = pc /\ during[c] \subseteq during'[c]
        BY <3>4 DEF PushesFor, TypeOK
      <4> HIDE DEF x
      <4>3. Range(view[c]) \subseteq Range(view'[c])
        BY <1>0, <4>1, <4>2, RangeOfAppend
      <4> QED BY <2>1, <3>0, <4>2, <4>3
    <3> QED BY <1>5, <3>1, <3>2, <3>3, <3>4, Effects
  <2> QED BY <2>3, <2>4
<1> QED BY <1>4, <1>5

\* What is due after a step was due before it; the newest messages of an
\* author up to t stay so.
LEMMA DueAndNewest ==
  ASSUME TypeOK, PlaceInv, Next, NEW c \in Conns
  PROVE  /\ \A x \in Pairs : Mine(x, c) /\ Due(x[1], x[2], c)' => Due(x[1], x[2], c)
         /\ \A x \in Pairs, t \in Nat : Mine(x, c) /\ t <= Len(log) /\ Newest(x[1], t) => Newest(x[1], t)'
<1>1. ASSUME NEW x \in Pairs, Mine(x, c), Due(x[1], x[2], c)'  PROVE Due(x[1], x[2], c)
  <2>1. x[1] \in 1..Len(log) /\ x[2] \in Nat
    BY <1>1 DEF Mine, IsOf, Pairs
  <2>2. PICK p \in Callers : DueBy(p, x[1], x[2], c)'
    BY <1>1 DEF Due, DueBy
  <2>3. DueBy(p, x[1], x[2], c)
    BY <2>1, <2>2, DueSteps
  <2> QED BY <2>3, DueIs
<1>2. ASSUME NEW x \in Pairs, NEW t \in Nat, Mine(x, c), t <= Len(log), Newest(x[1], t)
      PROVE  Newest(x[1], t)'
  <2>1. x[1] \in 1..Len(log) /\ Len(log) \in Nat
    BY <1>2, LogGrows DEF Mine, IsOf
  <2>2. \A j \in x[1] + 1 .. t : j \in 1..Len(log)
    BY <1>2, <2>1
  <2> QED BY <1>2, <2>1, <2>2, LogGrows DEF Newest
<1> QED BY <1>1, <1>2

\* What a handler pushes for c was due for c and is so no more, and it is of
\* the newest message of its author.
LEMMA PushedOnce ==
  ASSUME TypeOK, PlaceInv, AuthorInv, Next, NEW p \in Callers, NEW c \in Conns, PushesFor(p, c)
  PROVE  /\ doing[p] \in 1..Len(log) /\ step[p] \in Nat
         /\ Due(doing[p], step[p], c) /\ ~Due(doing[p], step[p], c)'
         /\ log[doing[p]].by = p /\ \A j \in doing[p] + 1 .. Len(log) : log[j].by # p
<1>1. /\ doing[p] \in 1..Len(log) /\ step[p] \in Nat /\ pc[p] = "push" /\ c \in todo[p]
      /\ log[doing[p]].by = p /\ \A j \in doing[p] + 1 .. Len(log) : log[j].by # p
  BY DEF PushesFor, TypeOK, PlaceInv, PlaceAt, AuthorInv, Sending
<1>2. Due(doing[p], step[p], c)
  BY <1>1 DEF Due
<1>3. ASSUME NEW q \in Callers, DueBy(q, doing[p], step[p], c)'  PROVE FALSE
  <2>1. doing'[q] = doing[p] /\ doing' = doing /\ step' = step /\ pc' = pc
    BY <1>3 DEF DueBy, PushesFor
  <2>2. q = p
    <3>1. doing[q] \in 1..Len(log) /\ doing[q] = doing[p]
      BY <1>1, <2>1
    <3>2. pc[q] \in Sending
      BY <3>1 DEF PlaceInv, PlaceAt
    <3> QED BY <1>1, <3>1, <3>2 DEF AuthorInv
  <2>3. c \notin todo'[p]
    BY DEF PushesFor, TypeOK
  <2> QED BY <1>1, <1>3, <2>1, <2>2, <2>3 DEF DueBy
<1> QED BY <1>1, <1>2, <1>3 DEF Due, DueBy

LEMMA InOrderOnce ==
  ASSUME NEW s \in Seq(Pairs), InOrder(s), NEW k \in DOMAIN s, NEW l \in DOMAIN s, s[k] = s[l]
  PROVE  k = l
<1>1. /\ DOMAIN s \subseteq Nat /\ s[k] \in Pairs
  BY LenProperties, ElementOfSeq
<1>2. ~Before(s[k], s[k])
  BY <1>1 DEF Before, Pairs
<1>3. ~(k < l) /\ ~(l < k)
  BY <1>2 DEF InOrder
<1> QED BY <1>1, <1>3

\* The replay joins what came in between.
LEMMA TwiceWithReplay ==
  ASSUME NEW v \in Seq(Pairs), NEW s \in Seq(Pairs), NEW t, NEW due, NEW newest, NEW due1, NEW newest1,
         Twice(v, t, "reset", due, newest), InOrder(s), \A x \in Range(s) : x[1] <= t,
         \A x \in Range(v) \cup Range(s) : (x \in due1 => x \in due) /\ (x \in newest => x \in newest1)
  PROVE  Twice(v \o s, t, "idle", due1, newest1)
<1> DEFINE n == Len(v)
           w == v \o s
<1>0. /\ n \in Nat /\ Len(s) \in Nat /\ DOMAIN v = 1..n /\ DOMAIN s = 1..Len(s)
      /\ \A k \in DOMAIN v : v[k] \in Range(v)
      /\ \A k \in DOMAIN s : s[k] \in Range(s)
  BY LenProperties DEF Range
<1>1. /\ DOMAIN w = 1..(n + Len(s))
      /\ \A k \in DOMAIN w : w[k] = IF k <= n THEN v[k] ELSE s[k - n]
  BY <1>0, ConcatProperties
<1> HIDE DEF w, n
<1>2. \A k \in DOMAIN w : IF k <= n THEN k \in DOMAIN v /\ w[k] = v[k]
                                    ELSE k - n \in DOMAIN s /\ w[k] = s[k - n]
  BY <1>0, <1>1
<1>3. /\ \A k \in DOMAIN v : v[k] \notin due /\ (v[k][1] <= t => v[k] \in newest)
      /\ \A k, l \in DOMAIN v : v[k] = v[l] => k = l
  BY DEF Twice
<1>4. \A k, l \in DOMAIN w : w[k] = w[l] /\ (k <= n <=> l <= n) => k = l
  <2> SUFFICES ASSUME NEW k \in DOMAIN w, NEW l \in DOMAIN w, w[k] = w[l], k <= n <=> l <= n
               PROVE  k = l
    OBVIOUS
  <2>1. CASE k <= n
    BY <1>2, <1>3, <2>1
  <2>2. CASE ~(k <= n)
    <3>1. k - n = l - n
      BY <1>2, <2>2, InOrderOnce
    <3> QED BY <1>0, <1>1, <3>1
  <2> QED BY <2>1, <2>2
<1>5. \A k \in DOMAIN w :
        /\ k <= n => w[k] \notin due /\ (w[k][1] <= t => w[k] \in newest1)
        /\ ~(k <= n) => w[k][1] <= t
        /\ w[k] \in due1 => w[k] \in due
  BY <1>0, <1>2, <1>3
<1>6. ASSUME NEW k \in DOMAIN w, w[k] \in due1
      PROVE  w[k][1] <= t /\ \A l \in DOMAIN w : w[l] = w[k] => l = k
  <2>1. ~(k <= n) /\ w[k] \in due
    BY <1>5, <1>6
  <2>2. \A l \in DOMAIN w : w[l] = w[k] => ~(l <= n)
    BY <1>5, <2>1
  <2> QED BY <1>4, <1>5, <2>1, <2>2
<1>7. ASSUME NEW k \in DOMAIN w, NEW l \in DOMAIN w, k # l, w[k] = w[l]
      PROVE  /\ w[k][1] <= t /\ w[k] \in newest1
             /\ \A m \in DOMAIN w : w[m] = w[k] => m \in {k, l}
  <2>1. k <= n <=> ~(l <= n)
    BY <1>4, <1>7
  <2>2. w[k][1] <= t /\ w[k] \in newest1
    BY <1>5, <1>7, <2>1
  <2>3. ASSUME NEW m \in DOMAIN w, w[m] = w[k]  PROVE m \in {k, l}
    BY <1>4, <1>7, <2>1, <2>3
  <2> QED BY <2>2, <2>3
<1>8. Twice(w, t, "idle", due1, newest1)
  BY <1>6, <1>7 DEF Twice
<1> QED BY <1>8 DEF w

\* What was due is pushed.
LEMMA TwiceWithPush ==
  ASSUME NEW v \in Seq(Pairs), NEW x \in Pairs, NEW t, NEW phase, NEW due, NEW newest, NEW due1, NEW newest1,
         Twice(v, t, phase, due, newest), x \in due, x \notin due1, x \in newest1,
         \A y \in Range(v) : (y \in due1 => y \in due) /\ (y \in newest => y \in newest1)
  PROVE  Twice(Append(v, x), t, phase, due1, newest1)
<1> DEFINE n == Len(v)
           w == Append(v, x)
<1>0. /\ n \in Nat /\ DOMAIN v = 1..n /\ DOMAIN w = 1..(n + 1) /\ w[n + 1] = x
      /\ \A k \in 1..n : w[k] = v[k]
      /\ \A k \in DOMAIN v : v[k] \in Range(v)
  BY LenProperties, AppendProperties DEF Range
<1> HIDE DEF w, n
<1>1. /\ n + 1 \notin DOMAIN v
      /\ \A k \in DOMAIN v : k \in DOMAIN w /\ w[k] = v[k]
      /\ \A k \in DOMAIN w : k \in DOMAIN v \/ k = n + 1
  BY <1>0
<1>2. \A k \in DOMAIN v : (v[k] \in due1 => v[k] \in due) /\ (v[k] \in newest => v[k] \in newest1)
  BY <1>0
<1>3. ASSUME NEW k \in DOMAIN w, w[k] \in due1
      PROVE  phase # "reset" /\ w[k][1] <= t /\ \A l \in DOMAIN w : w[l] = w[k] => l = k
  <2>1. w[k] # x /\ k \in DOMAIN v /\ w[k] = v[k] /\ v[k] \in due
    BY <1>0, <1>1, <1>2, <1>3
  <2>2. \A l \in DOMAIN w : w[l] = w[k] => l \in DOMAIN v /\ w[l] = v[l]
    BY <1>0, <1>1, <2>1
  <2> QED BY <2>1, <2>2 DEF Twice
<1>4. ASSUME phase = "reset", NEW k \in DOMAIN w, w[k][1] <= t
      PROVE  w[k] \in newest1
  <2>1. CASE k \in DOMAIN v
    BY <1>1, <1>2, <1>4, <2>1 DEF Twice
  <2>2. CASE k = n + 1
    BY <1>0, <2>2
  <2> QED BY <1>1, <2>1, <2>2
<1>5. \A k \in DOMAIN v : v[k] = x => phase # "reset" /\ x[1] <= t /\ \A l \in DOMAIN v : v[l] = x => l = k
  BY DEF Twice
<1>6. ASSUME NEW k \in DOMAIN w, NEW l \in DOMAIN w, k # l, w[k] = w[l]
      PROVE  /\ phase # "reset" /\ w[k][1] <= t /\ w[k] \in newest1
             /\ \A m \in DOMAIN w : w[m] = w[k] => m \in {k, l}
  <2>1. CASE w[k] = x
    <3>1. PICK m \in DOMAIN v : m \in {k, l} /\ v[m] = x
      BY <1>1, <1>6, <2>1
    <3>2. phase # "reset" /\ x[1] <= t /\ \A j \in DOMAIN v : v[j] = x => j = m
      BY <1>5, <3>1
    <3>3. \A j \in DOMAIN w : w[j] = x => j \in {m, n + 1}
      BY <1>1, <3>2
    <3>4. (k = m /\ l = n + 1) \/ (k = n + 1 /\ l = m)
      BY <1>6, <2>1, <3>3
    <3> QED BY <2>1, <3>2, <3>3, <3>4
  <2>2. CASE w[k] # x
    <3>1. \A m \in DOMAIN w : w[m] = w[k] => m \in DOMAIN v /\ w[m] = v[m]
      BY <1>0, <1>1, <2>2
    <3>2. k \in DOMAIN v /\ l \in DOMAIN v /\ v[k] = v[l] /\ w[k] = v[k]
      BY <1>6, <3>1
    <3>3. /\ phase # "reset" /\ v[k][1] <= t /\ v[k] \in newest
          /\ \A m \in DOMAIN v : v[m] = v[k] => m \in {k, l}
      BY <1>6, <3>2 DEF Twice
    <3> QED BY <1>2, <3>1, <3>2, <3>3
  <2> QED BY <2>1, <2>2
<1>7. Twice(w, t, phase, due1, newest1)
  BY <1>3, <1>4, <1>6 DEF Twice
<1> QED BY <1>7 DEF w

LEMMA TwiceKept ==
  ASSUME TypeOK, PlaceInv, AuthorInv, ShowInv, TwiceInv, Next
  PROVE  TwiceInv'
<1> SUFFICES ASSUME NEW c \in Conns, pc'[c] # "asked"
             PROVE  Twice(view'[c], top'[c], pc'[c], DueFor(c)', NewestFor(c)')
  BY DEF TwiceInv, TwiceAt
<1>0. /\ view[c] \in Seq(Pairs) /\ snap[c] \in Seq(Pairs) /\ top[c] \in Nat /\ top[c] <= Len(log) /\ c \in Callers
      /\ \A x \in Range(view[c]) : x \in Pairs /\ Mine(x, c)
      /\ pc[c] \in Replayed => InOrder(snap[c]) /\ \A x \in Range(snap[c]) : x \in Pairs /\ Mine(x, c) /\ x[1] <= top[c]
  BY ShowTypes DEF ViewAt, SnapAt
<1>1. pc[c] # "asked" => Twice(view[c], top[c], pc[c], DueFor(c), NewestFor(c))
  BY DEF TwiceInv, TwiceAt
<1>2. ASSUME top'[c] = top[c], NEW x \in Pairs, Mine(x, c)
      PROVE  (x \in DueFor(c)' => x \in DueFor(c)) /\ (x \in NewestFor(c) => x \in NewestFor(c)')
  <2>1. Due(x[1], x[2], c)' => Due(x[1], x[2], c)
    BY <1>2, DueAndNewest
  <2>2. ASSUME NEW t \in Nat, t = top[c]  PROVE Newest(x[1], top[c]) => Newest(x[1], top[c])'
    <3>1. Newest(x[1], t) => Newest(x[1], t)'
      BY <1>0, <1>2, <2>2, DueAndNewest
    <3> QED BY <1>2, <2>2, <3>1 DEF Newest
  <2> QED BY <1>0, <2>1, <2>2 DEF DueFor, NewestFor
<1>3. ~Ask(c)
  BY <1>0 DEF Ask, TypeOK
<1>4. CASE Quiet(c)
  <2>1. /\ view'[c] = view[c] /\ top'[c] = top[c] /\ pc[c] # "asked" /\ (pc'[c] = "reset" <=> pc[c] = "reset")
    BY <1>4 DEF Quiet, Replayed
  <2>2. \A k \in DOMAIN view[c] : LET x == view[c][k] IN
          (x \in DueFor(c)' => x \in DueFor(c)) /\ (x \in NewestFor(c) => x \in NewestFor(c)')
    BY <1>0, <1>2, <2>1 DEF Range
  <2> QED BY <1>1, <2>1, <2>2 DEF Twice
<1>5. CASE Reset(c)
  <2>1. view'[c] = <<>>
    BY <1>5 DEF Reset, TypeOK
  <2>2. DOMAIN view'[c] = {}
    BY <2>1
  <2> QED BY <2>2 DEF Twice
<1>6. CASE SendReplay(c)
  <2>1. view'[c] = view[c] \o snap[c] /\ top'[c] = top[c] /\ pc[c] = "reset" /\ pc'[c] = "idle"
    BY <1>0, <1>6 DEF SendReplay, TypeOK
  <2>2. \A x \in Range(view[c]) \cup Range(snap[c]) :
          (x \in DueFor(c)' => x \in DueFor(c)) /\ (x \in NewestFor(c) => x \in NewestFor(c)')
    BY <1>0, <1>2, <2>1 DEF Replayed
  <2>3. InOrder(snap[c]) /\ \A x \in Range(snap[c]) : x[1] <= top[c]
    BY <1>0, <2>1 DEF Replayed
  <2>4. Twice(view[c], top[c], "reset", DueFor(c), NewestFor(c))
    BY <1>1, <2>1
  <2>5. Twice(view[c] \o snap[c], top[c], "idle", DueFor(c)', NewestFor(c)')
    BY <1>0, <2>2, <2>3, <2>4, TwiceWithReplay
  <2> QED BY <2>1, <2>5
<1>7. ASSUME NEW p \in Callers, PushesFor(p, c)
      PROVE  Twice(view'[c], top'[c], pc'[c], DueFor(c)', NewestFor(c)')
  <2> DEFINE x == <<doing[p], step[p]>>
  <2>1. view'[c] = Append(view[c], x) /\ top'[c] = top[c] /\ pc'[c] = pc[c] /\ log' = log
    BY <1>7 DEF PushesFor, TypeOK
  <2>2. x \in Pairs /\ x \in DueFor(c) /\ x \notin DueFor(c)' /\ x \in NewestFor(c)'
    <3>1. /\ doing[p] \in 1..Len(log) /\ step[p] \in Nat /\ log[doing[p]].by = p
          /\ \A j \in doing[p] + 1 .. Len(log) : log[j].by # p
      BY <1>7, PushedOnce
    <3>2. Due(doing[p], step[p], c) /\ ~Due(doing[p], step[p], c)' /\ doing' = doing /\ step' = step
      BY <1>7, PushedOnce DEF PushesFor
    <3>3. x \in Pairs
      BY <3>1 DEF Pairs
    <3>4. x \in DueFor(c)
      BY <3>2, <3>3 DEF DueFor
    <3>5. x \notin DueFor(c)'
      <4>1. ASSUME NEW i, NEW e, i = doing[p], e = step[p]  PROVE ~Due(i, e, c)'
        BY <3>2, <4>1 DEF Due
      <4>2. x[1] = doing[p] /\ x[2] = step[p]
        OBVIOUS
      <4> QED BY <4>1, <4>2 DEF DueFor
    <3>6. x \in NewestFor(c)'
      <4>1. \A j \in doing[p] + 1 .. top[c] : j \in doing[p] + 1 .. Len(log)
        BY <1>0, <3>1, LenProperties DEF TypeOK
      <4> QED BY <2>1, <3>1, <3>3, <4>1 DEF NewestFor, Newest
    <3> QED BY <3>3, <3>4, <3>5, <3>6
  <2> HIDE DEF x
  <2>3. \A y \in Range(view[c]) :
          (y \in DueFor(c)' => y \in DueFor(c)) /\ (y \in NewestFor(c) => y \in NewestFor(c)')
    BY <1>0, <1>2, <2>1
  <2>4. Twice(Append(view[c], x), top[c], pc[c], DueFor(c)', NewestFor(c)')
    BY <1>0, <1>1, <2>1, <2>2, <2>3, TwiceWithPush
  <2> QED BY <2>1, <2>4
<1> QED BY <1>3, <1>4, <1>5, <1>6, <1>7, Effects

\* The order of v, in which what came in between may stand out of place.
Ordered(v, l, mid) ==
  \A j, k \in DOMAIN v : j < k /\ v[j][1] > v[k][1] /\ l[v[j][1]].by = l[v[k][1]].by => v[j] \in mid

LEMMA OrderKept ==
  ASSUME TypeOK, PlaceInv, AuthorInv, ShowInv, AuthorOrder, Next
  PROVE  AuthorOrder'
<1> SUFFICES ASSUME NEW c \in Conns, pc'[c] # "asked"
             PROVE  Ordered(view'[c], log', between'[c])
  BY DEF AuthorOrder, Ordered
<1>0. /\ view[c] \in Seq(Pairs) /\ snap[c] \in Seq(Pairs) /\ c \in Callers /\ Len(log) \in Nat
      /\ \A x \in Range(view[c]) : x \in Pairs /\ Mine(x, c)
      /\ pc[c] \in Replayed => InOrder(snap[c]) /\ \A x \in Range(snap[c]) : x \in Pairs
      /\ pc[c] = "reset" => Range(view[c]) \subseteq between[c]
  BY ShowTypes DEF ViewAt, SnapAt, BetweenAt
<1>1. pc[c] # "asked" => Ordered(view[c], log, between[c])
  BY DEF AuthorOrder, Ordered
<1>2. \A k \in DOMAIN view[c] :
        /\ view[c][k] \in Range(view[c]) /\ view[c][k] \in Pairs
        /\ view[c][k][1] \in 1..Len(log) /\ log'[view[c][k][1]] = log[view[c][k][1]]
  <2>1. \A x \in Range(view[c]) : x[1] \in 1..Len(log) /\ log'[x[1]] = log[x[1]]
    BY <1>0, LogGrows DEF Mine, IsOf
  <2> QED BY <1>0, <2>1 DEF Range
<1>3. ~Ask(c)
  BY <1>0 DEF Ask, TypeOK
<1>4. CASE Quiet(c)
  <2>1. view'[c] = view[c] /\ between'[c] = between[c] /\ pc[c] # "asked"
    BY <1>4 DEF Quiet, Replayed
  <2> QED BY <1>1, <1>2, <2>1 DEF Ordered
<1>5. CASE Reset(c)
  <2>1. view'[c] = <<>>
    BY <1>5 DEF Reset, TypeOK
  <2>2. DOMAIN view'[c] = {}
    BY <2>1
  <2> QED BY <2>2 DEF Ordered
<1>6. CASE SendReplay(c)
  <2> DEFINE v == view[c]
             s == snap[c]
             n == Len(v)
             w == view'[c]
  <2>1. w = v \o s /\ between' = between /\ pc[c] = "reset" /\ log' = log
    BY <1>0, <1>6 DEF SendReplay, TypeOK
  <2>2. /\ v \in Seq(Pairs) /\ s \in Seq(Pairs) /\ InOrder(s)
        /\ \A k \in DOMAIN v : v[k] \in between[c]
        /\ \A k \in DOMAIN s : s[k] \in Pairs
    BY <1>0, <2>1, ElementOfSeq DEF Range, Replayed
  <2> HIDE DEF v, s, w
  <2>3. /\ n \in Nat /\ Len(s) \in Nat /\ DOMAIN v = 1..n /\ DOMAIN s = 1..Len(s)
        /\ DOMAIN w = 1..(n + Len(s))
        /\ \A k \in DOMAIN w : w[k] = IF k <= n THEN v[k] ELSE s[k - n]
    BY <2>1, <2>2, LenProperties, ConcatProperties
  <2> HIDE DEF n
  <2>4. ASSUME NEW j \in DOMAIN w, NEW k \in DOMAIN w, j < k, w[j][1] > w[k][1]
        PROVE  w[j] \in between[c]
    <3>1. CASE j <= n
      BY <2>2, <2>3, <3>1
    <3>2. CASE ~(j <= n)
      <4>1. /\ j - n \in DOMAIN s /\ k - n \in DOMAIN s /\ j - n < k - n
            /\ w[j] = s[j - n] /\ w[k] = s[k - n]
        BY <2>3, <2>4, <3>2
      <4>2. Before(w[j], w[k]) /\ w[j] \in Pairs /\ w[k] \in Pairs
        BY <2>2, <4>1 DEF InOrder
      <4> QED BY <2>4, <4>2 DEF Before, Pairs
    <3> QED BY <3>1, <3>2
  <2>5. Ordered(w, log', between'[c])
    BY <2>1, <2>4 DEF Ordered
  <2> QED BY <2>5 DEF w
<1>7. ASSUME NEW p \in Callers, PushesFor(p, c)
      PROVE  Ordered(view'[c], log', between'[c])
  <2> DEFINE x == <<doing[p], step[p]>>
             v == view[c]
             n == Len(v)
             w == view'[c]
  <2>1. /\ w = Append(v, x) /\ pc[c] # "asked" /\ log' = log /\ between[c] \subseteq between'[c]
    BY <1>7 DEF PushesFor, TypeOK
  <2>2. /\ x[1] \in 1..Len(log) /\ x \in Pairs
        /\ \A j \in x[1] + 1 .. Len(log) : log[j].by # log[x[1]].by
    BY <1>7, PushedOnce DEF Pairs
  <2>3. v \in Seq(Pairs) /\ Ordered(v, log, between[c]) /\ \A k \in DOMAIN v : v[k][1] \in 1..Len(log)
    BY <1>0, <1>1, <1>2, <2>1
  <2> HIDE DEF v, w, x
  <2>4. /\ n \in Nat /\ DOMAIN v = 1..n /\ DOMAIN w = 1..(n + 1) /\ w[n + 1] = x
        /\ \A k \in 1..n : w[k] = v[k]
    BY <2>1, <2>2, <2>3, LenProperties, AppendProperties
  <2> HIDE DEF n
  <2>5. ASSUME NEW j \in DOMAIN w, NEW k \in DOMAIN w, j < k, w[j][1] > w[k][1],
               log[w[j][1]].by = log[w[k][1]].by
        PROVE  w[j] \in between'[c]
    <3>1. j \in DOMAIN v /\ w[j] = v[j]
      BY <2>4, <2>5
    <3>2. CASE k \in DOMAIN v
      <4>1. w[k] = v[k]
        BY <2>4, <3>2
      <4> QED BY <2>1, <2>3, <2>5, <3>1, <3>2, <4>1 DEF Ordered
    <3>3. CASE k = n + 1
      <4>1. v[j][1] > x[1] /\ log[v[j][1]].by = log[x[1]].by /\ v[j][1] \in 1..Len(log)
        BY <2>3, <2>4, <2>5, <3>1, <3>3
      <4>2. v[j][1] \in x[1] + 1 .. Len(log)
        BY <1>0, <2>2, <4>1
      <4> QED BY <2>2, <4>1, <4>2
    <3> QED BY <2>4, <3>2, <3>3
  <2>6. Ordered(w, log', between'[c])
    BY <2>1, <2>5 DEF Ordered
  <2> QED BY <2>6 DEF w
<1> QED BY <1>3, <1>4, <1>5, <1>6, <1>7, Effects
-----------------------------------------------------------------------------
LEMMA InitOK == Init => IInv
<1> SUFFICES ASSUME Init  PROVE IInv
  OBVIOUS
<1>0. /\ Len(log) = 0 /\ <<>> \in Seq(Logged) /\ <<>> \in Seq(Pairs) /\ MaxLog \in Nat
      /\ \A c \in Conns : view[c] = <<>> /\ DOMAIN view[c] = {} /\ Range(view[c]) = {} /\ c \in Callers
      /\ Conns \cap Tasks = {}
  BY Apart, CatchupAssumption DEF Init, Range
<1>1. TypeOK
  BY <1>0 DEF Init, TypeOK
<1>2. PlaceInv
  BY <1>0 DEF Init, PlaceInv, PlaceAt, UpAt, TaskAt, Sending, Callers
<1>3. AuthorInv
  BY DEF Init, AuthorInv, Sending
<1>4. \A c \in Conns : pc[c] = "new" /\ low[c] = 0 /\ top[c] = 0 /\ c \notin up
  BY <1>0 DEF Init
<1>5. ShowInv
  BY <1>0, <1>4 DEF ShowInv, SnapAt, ViewAt, BetweenAt, Replayed
<1>6. LossInv
  BY <1>4 DEF LossInv, LossAt
<1>7. TwiceInv
  BY <1>0 DEF TwiceInv, TwiceAt, Twice
<1>8. AuthorOrder
  BY <1>0 DEF AuthorOrder
<1> QED BY <1>1, <1>2, <1>3, <1>5, <1>6, <1>7, <1>8 DEF IInv

LEMMA StepOK == IInv /\ [Next]_vars => IInv'
<1> SUFFICES ASSUME IInv, [Next]_vars  PROVE IInv'
  OBVIOUS
<1>1. CASE Next
  BY <1>1, TypeKept, PlaceKept, AuthorKept, ShowKept, LossKept, TwiceKept, OrderKept DEF IInv
<1>2. CASE UNCHANGED vars
  <2>1. TypeOK'
    BY <1>2 DEF IInv, TypeOK, vars, taskVars, replayVars
  <2>2. PlaceInv' /\ AuthorInv'
    BY <1>2 DEF IInv, PlaceInv, PlaceAt, UpAt, TaskAt, AuthorInv, vars, taskVars, replayVars, BatchOf, IsFor
  <2>3. ShowInv'
    BY <1>2 DEF IInv, ShowInv, SnapAt, ViewAt, BetweenAt, Mine, IsOf, vars, taskVars, replayVars, BatchOf
  <2>4. LossInv'
    BY <1>2 DEF IInv, LossInv, LossAt, Due, vars, taskVars, replayVars, BatchOf, IsFor
  <2>5. TwiceInv'
    BY <1>2 DEF IInv, TwiceInv, TwiceAt, DueFor, NewestFor, Newest, Due, vars, taskVars, replayVars
  <2>6. AuthorOrder'
    BY <1>2 DEF IInv, AuthorOrder, vars, taskVars, replayVars
  <2> QED BY <2>1, <2>2, <2>3, <2>4, <2>5, <2>6 DEF IInv
<1> QED BY <1>1, <1>2

LEMMA Invariant == Spec => []IInv
BY InitOK, StepOK, PTL DEF Spec

\* A client sees what is for its name, live and in a replay: all of it that its
\* last replay covers or that came later, but for what the replay's reset takes
\* away (Handle and batch of chat.go, handle of history.go, Run of client.go).
THEOREM AlwaysSeesItsShare == Spec => []SeesItsShare
<1>1. IInv => OnlyForMe
  BY DEF IInv, ShowInv, ViewAt, OnlyForMe, Mine, IsOf, IsFor
<1>2. IInv => OnlyWindowLost
  <2> SUFFICES ASSUME IInv, NEW c \in up, low[c] # 0, pc[c] \notin Replayed,
                      NEW i \in low[c]..Len(log), NEW e \in DOMAIN BatchOf(i), IsFor(i, e, c), ~Due(i, e, c)
               PROVE  <<i, e>> \in Range(view[c]) \cup (IF i > top[c] THEN during[c] ELSE {})
    BY DEF OnlyWindowLost, Replayed
  <2>1. c \in Conns /\ LossAt(c) /\ low[c] \in Nat /\ top[c] \in Nat /\ Len(log) \in Nat
    BY LenProperties DEF IInv, TypeOK, LossInv
  <2> QED BY <2>1 DEF LossAt, Replayed
<1>3. IInv => SeesItsShare
  BY <1>1, <1>2 DEF SeesItsShare
<1> QED BY <1>3, Invariant, PTL

\* What a client shows twice, live and replayed, is the newest message of its
\* author at the replay's read, and nothing is shown a third time (Handle logs
\* before it broadcasts, handle reads before it sends).
THEOREM OnlyTheNewestTwice == Spec => []OnlyNewestTwice
<1>1. ASSUME IInv, NEW c \in Conns, pc[c] # "asked", NEW x \in Range(view[c])
      PROVE  LET n == Cardinality({k \in DOMAIN view[c] : view[c][k] = x}) IN
             n = 1 \/ (n = 2 /\ x[1] <= top[c] /\ Newest(x[1], top[c]))
  <2> DEFINE S == {k \in DOMAIN view[c] : view[c][k] = x}
  <2>1. PICK k \in DOMAIN view[c] : view[c][k] = x
    BY <1>1 DEF Range
  <2>2. \A l \in DOMAIN view[c] : l # k /\ view[c][l] = x =>
          /\ x[1] <= top[c] /\ x \in NewestFor(c)
          /\ \A m \in DOMAIN view[c] : view[c][m] = x => m \in {k, l}
    BY <1>1, <2>1 DEF IInv, TwiceInv, TwiceAt, Twice
  <2>3. CASE \A l \in DOMAIN view[c] : view[c][l] = x => l = k
    <3>1. S = {k}
      BY <2>1, <2>3
    <3>2. Cardinality(S) = 1
      BY <3>1, FS_Singleton
    <3> QED BY <3>2
  <2>4. ASSUME NEW l \in DOMAIN view[c], l # k, view[c][l] = x
        PROVE  Cardinality(S) = 2 /\ x[1] <= top[c] /\ Newest(x[1], top[c])
    <3>1. S = {k} \cup {l}
      BY <2>1, <2>2, <2>4
    <3>2. IsFiniteSet({k}) /\ Cardinality({k}) = 1
      BY FS_Singleton
    <3>3. Cardinality(S) = 2
      <4>1. l \notin {k}
        BY <2>4
      <4>2. Cardinality({k} \cup {l}) = Cardinality({k}) + 1
        BY <3>2, <4>1, FS_AddElement
      <4> QED BY <3>1, <3>2, <4>2
    <3>4. x[1] <= top[c] /\ x \in NewestFor(c)
      BY <2>2, <2>4
    <3> QED BY <3>3, <3>4 DEF NewestFor
  <2> QED BY <2>3, <2>4
<1>2. IInv => OnlyNewestTwice
  BY <1>1 DEF OnlyNewestTwice, Newest
<1> QED BY <1>2, Invariant, PTL

\* A client shows the messages of one author in the order they were logged, but
\* for those that came between the reset and the replayed messages (the read
\* loop handles an author's messages one after the other).
THEOREM AlwaysInAuthorOrder == Spec => []AuthorOrder
<1>1. IInv => AuthorOrder
  BY DEF IInv
<1> QED BY <1>1, Invariant, PTL
=============================================================================
