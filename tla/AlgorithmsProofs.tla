-------------------------- MODULE AlgorithmsProofs --------------------------
(***************************************************************************)
(* The eight properties of module Algorithms, for every input that its     *)
(* assumptions allow. What a loop of the code or a fold of the model comes *)
(* to is a chain of its states, one per turn (Recursion, FoldIsThere), and *)
(* what a property says of the last follows by induction along the chain.  *)
(***************************************************************************)
EXTENDS Algorithms, SequenceTheorems, FiniteSetTheorems, WellFoundedInduction, TLAPS

-----------------------------------------------------------------------------
(* Functions, folds and sequences *)

LEMMA LeastOf ==
  ASSUME NEW S \in SUBSET Nat, S # {}
  PROVE  \E n \in S : \A m \in S : n <= m
<1> DEFINE R == {x \in Nat \X Nat : x[1] < x[2]}
<1>1. IsWellFoundedOn(R, Nat)
  BY NatLessThanWellFounded DEF OpToRel
<1>2. PICK n \in S : \A m \in S : ~ (<<m, n>> \in R)
  <2> HIDE DEF R
  <2> QED BY <1>1, WFMin
<1>3. ASSUME NEW m \in S, ~(n <= m)  PROVE FALSE
  <2>1. <<m, n>> \in Nat \X Nat /\ m < n
    BY <1>3
  <2> QED BY <1>2, <2>1
<1> QED BY <1>3

LEMMA Induction ==
  ASSUME NEW S, 0 \in S, \A n \in Nat : n \in S => n + 1 \in S
  PROVE  \A n \in Nat : n \in S
<1> SUFFICES ASSUME Nat \ S # {} PROVE FALSE
  OBVIOUS
<1>1. PICK n \in Nat \ S : \A m \in Nat \ S : n <= m
  BY LeastOf
<1>2. n # 0 /\ n - 1 \in Nat
  BY <1>1
<1> QED BY <1>1, <1>2

LEMMA MaxIs ==
  ASSUME NEW S \in SUBSET Int, NEW m \in S, \A x \in S : x <= m
  PROVE  Max(S) = m
<1> DEFINE P(x) == x \in S /\ \A y \in S : x >= y
<1>1. P(m)
  OBVIOUS
<1>2. Max(S) = CHOOSE x : P(x)
  BY DEF Max
<1>3. \A x : P(x) => x = m
  OBVIOUS
<1> HIDE DEF P
<1> QED BY <1>1, <1>2, <1>3

\* Recursive functions over numbers, a step at a time.
Grows(f, k, base, step) ==
  /\ f = [i \in 0..k |-> f[i]]
  /\ f[0] = base /\ \A i \in 1..k : f[i] = step[i][f[i - 1]]

LEMMA RecursionSteps ==
  ASSUME NEW S, NEW n \in Nat, NEW base \in S, NEW step \in [1..n -> [S -> S]],
         NEW k \in Nat, k + 1 <= n, NEW f, Grows(f, k, base, step), \A i \in 0..k : f[i] \in S
  PROVE  \E g : Grows(g, k + 1, base, step) /\ \A i \in 0..(k + 1) : g[i] \in S
<1> DEFINE g == [i \in 0..(k + 1) |-> IF i = k + 1 THEN step[k + 1][f[k]] ELSE f[i]]
<1>1. \A i \in 0..k : g[i] = f[i]
  OBVIOUS
<1>2. g[k + 1] = step[k + 1][f[k]]
  OBVIOUS
<1>3. step[k + 1][f[k]] \in S
  <2>1. k + 1 \in 1..n /\ k \in 0..k
    OBVIOUS
  <2>2. f[k] \in S /\ step[k + 1] \in [S -> S]
    BY <2>1
  <2> QED BY <2>2
<1>4. g = [i \in 0..(k + 1) |-> g[i]]
  OBVIOUS
<1> HIDE DEF g
<1>5. \A i \in 0..(k + 1) : i = k + 1 \/ i \in 0..k
  OBVIOUS
<1>6. \A i \in 0..(k + 1) : g[i] \in S
  BY <1>1, <1>2, <1>3, <1>5
<1>7. g[0] = base
  BY <1>1 DEF Grows
<1>8. ASSUME NEW i \in 1..(k + 1)  PROVE g[i] = step[i][g[i - 1]]
  <2>1. i - 1 \in 0..k /\ g[i - 1] = f[i - 1]
    BY <1>1
  <2>2. CASE i = k + 1
    BY <1>2, <2>1, <2>2
  <2>3. CASE i \in 1..k
    BY <1>1, <2>1, <2>3 DEF Grows
  <2> QED BY <2>2, <2>3
<1> QED BY <1>4, <1>6, <1>7, <1>8 DEF Grows

\* There is the recursive function.
LEMMA Recursion ==
  ASSUME NEW S, NEW n \in Nat, NEW base \in S, NEW step \in [1..n -> [S -> S]]
  PROVE  \E f : Grows(f, n, base, step) /\ \A i \in 0..n : f[i] \in S
<1> DEFINE Part(k) == \E f : Grows(f, k, base, step) /\ \A i \in 0..k : f[i] \in S
           Parts == {k \in Nat : k <= n => Part(k)}
<1>1. Part(0)
  <2> DEFINE f == [i \in 0..0 |-> base]
  <2>1. f = [i \in 0..0 |-> f[i]] /\ f[0] = base /\ \A i \in 0..0 : f[i] \in S
    OBVIOUS
  <2>2. \A i \in 1..0 : f[i] = step[i][f[i - 1]]
    OBVIOUS
  <2> HIDE DEF f
  <2> QED BY <2>1, <2>2 DEF Grows
<1>2. ASSUME NEW k \in Nat, Part(k), k + 1 <= n  PROVE Part(k + 1)
  BY <1>2, RecursionSteps
<1> HIDE DEF Part
<1>3. 0 \in Parts /\ \A k \in Nat : k \in Parts => k + 1 \in Parts
  BY <1>1, <1>2
<1>4. n \in Parts
  <2> HIDE DEF Parts
  <2> QED BY <1>3, Induction
<1>5. Part(n)
  BY <1>4
<1> QED BY <1>5 DEF Part

LEMMA MaxUpTo ==
  ASSUME NEW k \in Nat, NEW s \in SUBSET (1..(k + 1)), k + 1 \in s
  PROVE  Max(s) = k + 1
<1>1. s \in SUBSET Int /\ \A x \in s : x <= k + 1
  OBVIOUS
<1> QED BY <1>1, MaxIs

LEMMA MaxOf ==
  ASSUME NEW n \in Nat, NEW S \in SUBSET (0..n), S # {}
  PROVE  Max(S) \in S /\ \A x \in S : x <= Max(S)
<1> DEFINE T == {n - x : x \in S}
<1>1. T \in SUBSET Nat /\ T # {}
  <2>1. \A x \in S : n - x \in Nat
    OBVIOUS
  <2>2. \A t \in T : \E x \in S : t = n - x
    OBVIOUS
  <2>3. \A x \in S : n - x \in T
    OBVIOUS
  <2> HIDE DEF T
  <2> QED BY <2>1, <2>2, <2>3
<1>2. PICK t \in T : \A u \in T : t <= u
  <2> HIDE DEF T
  <2> QED BY <1>1, LeastOf
<1>3. PICK m \in S : t = n - m
  <2>1. \A u \in T : \E m \in S : u = n - m
    OBVIOUS
  <2> HIDE DEF T
  <2> QED BY <2>1
<1>4. ASSUME NEW x \in S  PROVE x <= m
  <2>1. n - m <= n - x
    BY <1>2, <1>3
  <2> QED BY <2>1
<1>5. Max(S) = m
  BY <1>4, MaxIs
<1> QED BY <1>4, <1>5

LEMMA MaxInside ==
  ASSUME NEW k \in Nat, NEW s \in SUBSET (1..k), s # {}
  PROVE  Max(s) \in s /\ \A x \in s : x <= Max(s)
<1>1. s \in SUBSET (0..k)
  OBVIOUS
<1> QED BY <1>1, MaxOf

\* A fold is a function of the sets of indices that takes the largest first.
FoldsBy(f, k, base, step) ==
  /\ f = [s \in SUBSET (1..k) |-> f[s]]
  /\ f[{}] = base
  /\ \A s \in SUBSET (1..k) : s # {} => f[s] = step[Max(s)][f[s \ {Max(s)}]]

LEMMA FoldSteps ==
  ASSUME NEW S, NEW n \in Nat, NEW base \in S, NEW step \in [1..n -> [S -> S]],
         NEW k \in Nat, k + 1 <= n, NEW f, FoldsBy(f, k, base, step), \A s \in SUBSET (1..k) : f[s] \in S
  PROVE  \E g : FoldsBy(g, k + 1, base, step) /\ \A s \in SUBSET (1..(k + 1)) : g[s] \in S
<1> DEFINE g == [s \in SUBSET (1..(k + 1)) |-> IF k + 1 \in s THEN step[k + 1][f[s \ {k + 1}]] ELSE f[s]]
<1>1. ASSUME NEW s \in SUBSET (1..k)  PROVE s \in SUBSET (1..(k + 1)) /\ g[s] = f[s] /\ k + 1 \notin s
  BY <1>1
<1>2. ASSUME NEW s \in SUBSET (1..(k + 1)), k + 1 \in s  PROVE g[s] = step[k + 1][f[s \ {k + 1}]]
  BY <1>2
<1>3. g = [s \in SUBSET (1..(k + 1)) |-> g[s]]
  OBVIOUS
<1> HIDE DEF g
<1>4. ASSUME NEW s \in SUBSET (1..(k + 1)), k + 1 \in s
      PROVE  /\ g[s] \in S
             /\ g[s] = step[Max(s)][g[s \ {Max(s)}]]
  <2>1. Max(s) = k + 1
    BY <1>4, MaxUpTo
  <2> DEFINE t == s \ {k + 1}
  <2>2. t \in SUBSET (1..k)
    OBVIOUS
  <2> HIDE DEF t
  <2>3. f[t] \in S /\ g[t] = f[t]
    BY <1>1, <2>2
  <2>4. k + 1 \in 1..n
    OBVIOUS
  <2>5. step[k + 1] \in [S -> S]
    BY <2>4
  <2>6. step[k + 1][f[t]] \in S
    BY <2>3, <2>5
  <2>7. g[s] = step[k + 1][f[t]]
    BY <1>2, <1>4 DEF t
  <2>8. s \ {Max(s)} = t
    BY <2>1 DEF t
  <2> QED BY <2>1, <2>3, <2>6, <2>7, <2>8
<1>5. ASSUME NEW s \in SUBSET (1..k), s # {}
      PROVE  g[s] = step[Max(s)][g[s \ {Max(s)}]]
  <2>1. s \ {Max(s)} \in SUBSET (1..k)
    OBVIOUS
  <2>2. g[s] = f[s] /\ g[s \ {Max(s)}] = f[s \ {Max(s)}]
    BY <1>1, <2>1
  <2> QED BY <1>5, <2>2 DEF FoldsBy
<1>6. \A s \in SUBSET (1..(k + 1)) : k + 1 \in s \/ s \in SUBSET (1..k)
  OBVIOUS
<1>7. \A s \in SUBSET (1..(k + 1)) : g[s] \in S
  BY <1>1, <1>4, <1>6
<1>8. g[{}] = base
  <2>1. {} \in SUBSET (1..k)
    OBVIOUS
  <2> QED BY <1>1, <2>1 DEF FoldsBy
<1>9. \A s \in SUBSET (1..(k + 1)) : s # {} => g[s] = step[Max(s)][g[s \ {Max(s)}]]
  BY <1>4, <1>5, <1>6
<1> QED BY <1>3, <1>7, <1>8, <1>9 DEF FoldsBy

\* There is the fold.
LEMMA FoldIsThere ==
  ASSUME NEW S, NEW n \in Nat, NEW base \in S, NEW step \in [1..n -> [S -> S]]
  PROVE  \E f : FoldsBy(f, n, base, step) /\ \A s \in SUBSET (1..n) : f[s] \in S
<1> DEFINE Part(k) == \E f : FoldsBy(f, k, base, step) /\ \A s \in SUBSET (1..k) : f[s] \in S
           Parts == {k \in Nat : k <= n => Part(k)}
<1>1. Part(0)
  <2> DEFINE f == [s \in SUBSET (1..0) |-> base]
  <2>1. f = [s \in SUBSET (1..0) |-> f[s]] /\ f[{}] = base /\ \A s \in SUBSET (1..0) : f[s] \in S
    OBVIOUS
  <2>2. \A s \in SUBSET (1..0) : s = {}
    OBVIOUS
  <2> HIDE DEF f
  <2> QED BY <2>1, <2>2 DEF FoldsBy
<1>2. ASSUME NEW k \in Nat, Part(k), k + 1 <= n  PROVE Part(k + 1)
  BY <1>2, FoldSteps
<1> HIDE DEF Part
<1>3. 0 \in Parts /\ \A k \in Nat : k \in Parts => k + 1 \in Parts
  BY <1>1, <1>2
<1>4. n \in Parts
  <2> HIDE DEF Parts
  <2> QED BY <1>3, Induction
<1>5. Part(n)
  BY <1>4
<1> QED BY <1>5 DEF Part

LEMMA UpToAll ==
  ASSUME NEW k \in Nat \ {0}
  PROVE  Max(1..k) = k /\ (1..k) \ {k} = 1..(k - 1)
<1>1. Max(1..k) = k
  <2>1. 1..k \in SUBSET Int /\ k \in 1..k /\ \A x \in 1..k : x <= k
    OBVIOUS
  <2> QED BY <2>1, MaxIs
<1> QED BY <1>1

LEMMA Monotone ==
  ASSUME NEW m \in Nat, NEW f \in [0..m -> Nat], \A j \in 1..m : f[j - 1] <= f[j]
  PROVE  \A i, j \in 0..m : i <= j => f[i] <= f[j]
<1> DEFINE P(d) == \A i \in 0..m : i + d <= m => f[i] <= f[i + d]
           S == {d \in Nat : P(d)}
<1>1. P(0)
  OBVIOUS
<1>2. ASSUME NEW d \in Nat, P(d)  PROVE P(d + 1)
  <2> TAKE i \in 0..m
  <2> HAVE i + (d + 1) <= m
  <2>1. i + d \in 0..m /\ i + (d + 1) \in 1..m /\ i + (d + 1) - 1 = i + d /\ i + (d + 1) \in 0..m
    OBVIOUS
  <2>2. f[i] <= f[i + d]
    BY <1>2, <2>1
  <2>3. f[i + d] <= f[i + (d + 1)]
    <3>1. f[i + (d + 1) - 1] <= f[i + (d + 1)]
      BY <2>1
    <3> QED BY <2>1, <3>1
  <2>4. f[i] \in Nat /\ f[i + d] \in Nat /\ f[i + (d + 1)] \in Nat
    BY <2>1
  <2> QED BY <2>2, <2>3, <2>4
<1> HIDE DEF P
<1>3. \A d \in Nat : d \in S
  <2>1. 0 \in S /\ \A d \in Nat : d \in S => d + 1 \in S
    BY <1>1, <1>2
  <2> HIDE DEF S
  <2> QED BY <2>1, Induction
<1>4. ASSUME NEW i \in 0..m, NEW j \in 0..m, i <= j  PROVE f[i] <= f[j]
  <2>1. j - i \in Nat /\ i + (j - i) = j
    BY <1>4
  <2>2. P(j - i)
    BY <1>3, <2>1
  <2> QED BY <2>1, <2>2 DEF P
<1> QED BY <1>4

LEMMA ConcatIs ==
  ASSUME NEW S, NEW s \in Seq(S), NEW t \in Seq(S)
  PROVE  /\ s \o t \in Seq(S) /\ Len(s \o t) = Len(s) + Len(t)
         /\ \A i \in 1..Len(s) : (s \o t)[i] = s[i]
         /\ \A i \in 1..Len(t) : (s \o t)[Len(s) + i] = t[i]
<1>1. /\ s \o t \in Seq(S) /\ Len(s \o t) = Len(s) + Len(t)
      /\ \A i \in 1..(Len(s) + Len(t)) : (s \o t)[i] = IF i <= Len(s) THEN s[i] ELSE t[i - Len(s)]
  BY ConcatProperties
<1>2. Len(s) \in Nat /\ Len(t) \in Nat
  OBVIOUS
<1> DEFINE u == s \o t
<1> HIDE DEF u
<1>3. \A i \in 1..Len(s) : u[i] = s[i]
  BY <1>1, <1>2 DEF u
<1>4. ASSUME NEW i \in 1..Len(t)  PROVE u[Len(s) + i] = t[i]
  <2>1. Len(s) + i \in 1..(Len(s) + Len(t)) /\ ~(Len(s) + i <= Len(s)) /\ (Len(s) + i) - Len(s) = i
    BY <1>2
  <2> QED BY <1>1, <2>1 DEF u
<1> QED BY <1>1, <1>3, <1>4 DEF u

Joined(S, u, s, t) ==
  /\ u \in Seq(S) /\ Len(u) = Len(s) + Len(t)
  /\ \A i \in 1..Len(s) : u[i] = s[i]
  /\ \A i \in 1..Len(t) : u[Len(s) + i] = t[i]

LEMMA Joins ==
  ASSUME NEW S, NEW s \in Seq(S), NEW t \in Seq(S)
  PROVE  Joined(S, s \o t, s, t)
BY ConcatIs DEF Joined

FourJoined(S, x, s, t, u, v, a, b, c, d) ==
  /\ x \in Seq(S) /\ Len(x) = a + b + c + d
  /\ \A i \in 1..a : x[i] = s[i]
  /\ \A i \in 1..b : x[a + i] = t[i]
  /\ \A i \in 1..c : x[a + b + i] = u[i]
  /\ \A i \in 1..d : x[a + b + c + i] = v[i]

LEMMA FourJoin ==
  ASSUME NEW S, NEW s \in Seq(S), NEW t \in Seq(S), NEW u \in Seq(S), NEW v \in Seq(S)
  PROVE  FourJoined(S, s \o t \o u \o v, s, t, u, v, Len(s), Len(t), Len(u), Len(v))
<1> DEFINE p == s \o t  q == p \o u  x == q \o v
           a == Len(s)  b == Len(t)  c == Len(u)  d == Len(v)
<1>0. a \in Nat /\ b \in Nat /\ c \in Nat /\ d \in Nat
  OBVIOUS
<1>1. Joined(S, p, s, t)
  BY Joins
<1>a. p \in Seq(S)
  BY <1>1 DEF Joined
<1> HIDE DEF p
<1>2. Joined(S, q, p, u)
  BY <1>a, Joins
<1>b. q \in Seq(S)
  BY <1>2 DEF Joined
<1> HIDE DEF q
<1>3. Joined(S, x, q, v)
  BY <1>b, Joins
<1> HIDE DEF x
<1>4. Len(p) = a + b /\ Len(q) = a + b + c
  BY <1>0, <1>1, <1>2 DEF Joined
<1>5. /\ x \in Seq(S) /\ Len(x) = a + b + c + d /\ (\A i \in 1..(a + b + c) : x[i] = q[i])
      /\ \A i \in 1..d : x[a + b + c + i] = v[i]
  BY <1>3, <1>4 DEF Joined
<1>6. (\A i \in 1..(a + b) : q[i] = p[i]) /\ \A i \in 1..c : q[a + b + i] = u[i]
  BY <1>2, <1>4 DEF Joined
<1>7. (\A i \in 1..a : p[i] = s[i]) /\ \A i \in 1..b : p[a + i] = t[i]
  BY <1>1 DEF Joined
<1> HIDE DEF a, b, c, d
<1>8. \A i \in 1..a : i \in 1..(a + b) /\ i \in 1..(a + b + c)
  BY <1>0
<1>9. \A i \in 1..b : a + i \in 1..(a + b) /\ a + i \in 1..(a + b + c)
  BY <1>0
<1>10. \A i \in 1..c : a + b + i \in 1..(a + b + c)
  BY <1>0
<1>11. FourJoined(S, x, s, t, u, v, a, b, c, d)
  BY <1>5, <1>6, <1>7, <1>8, <1>9, <1>10 DEF FourJoined
<1> QED BY <1>11 DEF p, q, x, a, b, c, d

\* The part of a sequence after k elements and up to m.
LEMMA PartIs ==
  ASSUME NEW S, NEW s \in Seq(S), NEW k \in 0..Len(s), NEW m \in k..Len(s)
  PROVE  /\ SubSeq(s, k + 1, m) \in Seq(S) /\ Len(SubSeq(s, k + 1, m)) = m - k
         /\ \A i \in 1..(m - k) : SubSeq(s, k + 1, m)[i] = s[k + i]
<1>1. k \in Nat /\ m \in Nat /\ k <= m /\ \A i \in (k + 1)..m : s[i] \in S
  <2>1. \A i \in (k + 1)..m : i \in 1..Len(s)
    OBVIOUS
  <2> QED BY <2>1
<1> DEFINE u == SubSeq(s, k + 1, m)
<1>2. /\ u \in Seq(S) /\ Len(u) = IF k + 1 <= m THEN m - (k + 1) + 1 ELSE 0
      /\ \A i \in 1..(m - (k + 1) + 1) : u[i] = s[(k + 1) + i - 1]
  BY <1>1, SubSeqProperties
<1> HIDE DEF u
<1>3. m - (k + 1) + 1 = m - k /\ \A i \in 1..(m - k) : (k + 1) + i - 1 = k + i
  BY <1>1
<1>4. Len(u) = m - k
  BY <1>1, <1>2
<1> QED BY <1>2, <1>3, <1>4 DEF u

LEMMA SameSeq ==
  ASSUME NEW S, NEW s \in Seq(S), NEW t \in Seq(S), Len(s) = Len(t), \A i \in 1..Len(s) : s[i] = t[i]
  PROVE  s = t
BY SeqEqual

\* A sequence cut in two.
LEMMA CutInTwo ==
  ASSUME NEW S, NEW s \in Seq(S), NEW k \in 0..Len(s)
  PROVE  SubSeq(s, 1, k) \o SubSeq(s, k + 1, Len(s)) = s
<1>1. SubSeq(s, 0 + 1, k) \in Seq(S) /\ Len(SubSeq(s, 0 + 1, k)) = k - 0
      /\ \A i \in 1..(k - 0) : SubSeq(s, 0 + 1, k)[i] = s[0 + i]
  <2>1. 0 \in 0..Len(s) /\ k \in 0..Len(s)
    OBVIOUS
  <2> QED BY <2>1, PartIs
<1> DEFINE u == SubSeq(s, 1, k)  v == SubSeq(s, k + 1, Len(s))
<1>2. u \in Seq(S) /\ Len(u) = k /\ \A i \in 1..k : u[i] = s[i]
  BY <1>1
<1>3. v \in Seq(S) /\ Len(v) = Len(s) - k /\ \A i \in 1..(Len(s) - k) : v[i] = s[k + i]
  <2>1. Len(s) \in k..Len(s)
    OBVIOUS
  <2> QED BY <2>1, PartIs
<1> HIDE DEF u, v
<1>4. /\ u \o v \in Seq(S) /\ Len(u \o v) = Len(s)
      /\ (\A i \in 1..k : (u \o v)[i] = u[i]) /\ \A i \in 1..(Len(s) - k) : (u \o v)[k + i] = v[i]
  <2>1. Len(u) + Len(v) = Len(s)
    BY <1>2, <1>3
  <2> QED BY <1>2, <1>3, <2>1, ConcatIs
<1> DEFINE w == u \o v
<1> HIDE DEF w
<1>5. ASSUME NEW i \in 1..Len(s)  PROVE w[i] = s[i]
  <2>1. CASE i <= k
    BY <1>2, <1>4, <2>1 DEF w
  <2>2. CASE i > k
    <3>1. i - k \in 1..(Len(s) - k) /\ k + (i - k) = i
      BY <2>2
    <3> QED BY <1>3, <1>4, <3>1 DEF w
  <2> QED BY <2>1, <2>2
<1>6. w = s
  <2>1. w \in Seq(S) /\ Len(w) = Len(s)
    BY <1>4 DEF w
  <2> QED BY <1>5, <2>1, SameSeq
<1> QED BY <1>6 DEF u, v, w

\* Along the initial segments a fold is a recursion.
LEMMA FoldSegments ==
  ASSUME NEW n \in Nat, NEW f, NEW base, NEW step, FoldsBy(f, n, base, step)
  PROVE  f[1..0] = base /\ \A i \in 1..n : f[1..i] = step[i][f[1..(i - 1)]]
<1>1. 1..0 = {}
  OBVIOUS
<1>2. ASSUME NEW i \in 1..n  PROVE f[1..i] = step[i][f[1..(i - 1)]]
  <2>1. Max(1..i) = i /\ (1..i) \ {i} = 1..(i - 1)
    BY UpToAll
  <2>2. 1..i \in SUBSET (1..n) /\ 1..i # {}
    OBVIOUS
  <2> QED BY <2>1, <2>2 DEF FoldsBy
<1> QED BY <1>1, <1>2 DEF FoldsBy

-----------------------------------------------------------------------------
(* The input line *)

\* What a broken message is made of.
Chars == Characters \cup {V!Space, V!Hyphen}

LEMMA CharsToo == \A t \in Seq(Characters) : t \in Seq(Chars)
BY DEF Chars

\* The columns of a text, character by character.
Columns(c, text) ==
  /\ c[0] = 0
  /\ \A i \in 1..Len(text) : c[i] = c[i - 1] + text[i].cols

LEMMA WidthChain ==
  ASSUME NEW text \in Seq(Chars)
  PROVE  \E c : Columns(c, text) /\ V!width(text) = c[Len(text)]
<1> DEFINE n == Len(text)
           step == [i \in 1..n |-> [x \in Nat |-> x + text[i].cols]]
           P(g) == g = [s \in SUBSET DOMAIN text |-> IF s = {} THEN 0 ELSE g[s \ {Max(s)}] + text[Max(s)].cols]
<1>1. n \in Nat /\ DOMAIN text = 1..n
  OBVIOUS
<1>2. \A i \in 1..n : text[i].cols \in Nat
  BY DEF Chars, Characters, V!Space, V!Hyphen, V!Char
<1>3. step \in [1..n -> [Nat -> Nat]]
  BY <1>2
<1>4. PICK f : FoldsBy(f, n, 0, step) /\ \A s \in SUBSET (1..n) : f[s] \in Nat
  <2> HIDE DEF n, step
  <2> QED BY <1>1, <1>3, FoldIsThere
<1>5. P(f)
  <2>1. ASSUME NEW s \in SUBSET (1..n), s # {}
        PROVE  f[s] = f[s \ {Max(s)}] + text[Max(s)].cols
    <3>1. Max(s) \in 1..n
      <4> HIDE DEF n
      <4> QED BY <1>1, <2>1, MaxInside
    <3>2. f[s \ {Max(s)}] \in Nat
      BY <1>4
    <3>3. f[s] = step[Max(s)][f[s \ {Max(s)}]]
      <4> HIDE DEF n, step
      <4> QED BY <1>4, <2>1 DEF FoldsBy
    <3> QED BY <3>1, <3>2, <3>3
  <2>2. f = [s \in SUBSET (1..n) |-> f[s]] /\ f[{}] = 0
    BY <1>4 DEF FoldsBy
  <2>3. \A s \in SUBSET (1..n) : f[s] = IF s = {} THEN 0 ELSE f[s \ {Max(s)}] + text[Max(s)].cols
    BY <2>1, <2>2
  <2> HIDE DEF n
  <2> QED BY <1>1, <2>2, <2>3
<1> DEFINE g == CHOOSE g : P(g)
<1>6. V!width(text) = g[DOMAIN text]
  BY DEF V!width, V!FoldLeft, V!MapThenFoldSet, V!Max, Max
<1>7. P(g)
  <2> HIDE DEF P
  <2> QED BY <1>5
<1> HIDE DEF g
<1> DEFINE c == [i \in 0..n |-> g[1..i]]
<1>8. Columns(c, text)
  <2>1. c[0] = 0
    <3>1. 1..0 = {}
      OBVIOUS
    <3> QED BY <1>1, <1>7, <3>1
  <2>2. ASSUME NEW i \in 1..n  PROVE c[i] = c[i - 1] + text[i].cols
    <3>1. Max(1..i) = i /\ (1..i) \ {i} = 1..(i - 1) /\ 1..i # {}
      BY UpToAll
    <3>2. g[1..i] = g[(1..i) \ {Max(1..i)}] + text[Max(1..i)].cols
      <4>1. 1..i \in SUBSET DOMAIN text
        BY <1>1
      <4> QED BY <1>7, <3>1, <4>1
    <3>3. i \in 0..n /\ i - 1 \in 0..n
      BY <1>1
    <3>4. c[i] = g[1..i] /\ c[i - 1] = g[1..(i - 1)]
      BY <3>3
    <3> HIDE DEF c
    <3> QED BY <3>1, <3>2, <3>4
  <2> QED BY <2>1, <2>2 DEF Columns
<1>9. V!width(text) = c[n]
  BY <1>1, <1>6
<1> QED BY <1>8, <1>9

LEMMA ColumnsType ==
  ASSUME NEW text \in Seq(Characters), NEW c, Columns(c, text)
  PROVE  \A i \in 0..Len(text) : c[i] \in Nat
<1> DEFINE P(i) == i <= Len(text) => c[i] \in Nat
           S == {i \in Nat : P(i)}
<1>1. P(0)
  BY DEF Columns
<1>2. ASSUME NEW i \in Nat, P(i)  PROVE P(i + 1)
  <2> HAVE i + 1 <= Len(text)
  <2>1. i + 1 \in 1..Len(text)
    OBVIOUS
  <2>2. text[i + 1].cols \in Nat
    BY <2>1 DEF Characters
  <2>3. c[i + 1] = c[(i + 1) - 1] + text[i + 1].cols
    BY <2>1 DEF Columns
  <2>4. (i + 1) - 1 = i
    OBVIOUS
  <2> QED BY <1>2, <2>1, <2>2, <2>3, <2>4
<1> HIDE DEF P
<1>3. \A n \in Nat : n \in S
  <2>1. 0 \in S /\ \A i \in Nat : i \in S => i + 1 \in S
    BY <1>1, <1>2
  <2> HIDE DEF S
  <2> QED BY <2>1, Induction
<1> QED BY <1>3 DEF P

\* How columns grow.
LEMMA ColumnsGrow ==
  ASSUME NEW text \in Seq(Characters), NEW c, Columns(c, text)
  PROVE  /\ \A i \in 1..Len(text) : c[i - 1] < c[i] /\ c[i] <= c[i - 1] + 2
         /\ \A i, j \in 0..Len(text) : i <= j => c[i] <= c[j]
<1> DEFINE n == Len(text)
<1>1. ASSUME NEW i \in 1..n  PROVE c[i - 1] < c[i] /\ c[i] <= c[i - 1] + 2
  <2>1. text[i].cols \in 1..2
    BY DEF Characters
  <2>2. c[i] = c[i - 1] + text[i].cols
    BY DEF Columns
  <2>3. c[i - 1] \in Nat
    <3>1. i - 1 \in 0..Len(text)
      OBVIOUS
    <3> QED BY <3>1, ColumnsType
  <2> QED BY <2>1, <2>2, <2>3
<1> DEFINE P(d) == \A i \in 0..n : i + d <= n => c[i] <= c[i + d]
           S == {d \in Nat : P(d)}
<1>2. \A i \in 0..n : c[i] \in Nat
  BY ColumnsType
<1>3. P(0)
  BY <1>2
<1>4. ASSUME NEW d \in Nat, P(d)  PROVE P(d + 1)
  <2> TAKE i \in 0..n
  <2> HAVE i + (d + 1) <= n
  <2>1. i + d \in 0..n /\ i + (d + 1) \in 1..n /\ i + (d + 1) - 1 = i + d /\ i + (d + 1) \in 0..n
    OBVIOUS
  <2>2. c[i] <= c[i + d] /\ c[i + d] < c[i + (d + 1)]
    <3>1. c[i + (d + 1) - 1] < c[i + (d + 1)]
      BY <1>1, <2>1
    <3> QED BY <1>4, <2>1, <3>1
  <2> QED BY <1>2, <2>1, <2>2
<1> HIDE DEF P
<1>5. \A d \in Nat : d \in S
  <2>1. 0 \in S /\ \A d \in Nat : d \in S => d + 1 \in S
    BY <1>3, <1>4
  <2> HIDE DEF S
  <2> QED BY <2>1, Induction
<1>6. ASSUME NEW i \in 0..n, NEW j \in 0..n, i <= j  PROVE c[i] <= c[j]
  <2>1. j - i \in Nat /\ i + (j - i) = j
    BY <1>6
  <2>2. P(j - i)
    BY <1>5, <2>1
  <2> QED BY <2>1, <2>2 DEF P
<1> QED BY <1>1, <1>6

\* The width of a part of a text.
LEMMA WidthOfPart ==
  ASSUME NEW text \in Seq(Characters), NEW c, Columns(c, text),
         NEW k \in 0..Len(text), NEW m \in k..Len(text)
  PROVE  V!width(SubSeq(text, k + 1, m)) = c[m] - c[k]
<1> DEFINE t == SubSeq(text, k + 1, m)
<1>1. t \in Seq(Characters) /\ Len(t) = m - k /\ \A i \in 1..(m - k) : t[i] = text[k + i]
  OBVIOUS
<1> HIDE DEF t
<1>2. PICK d : Columns(d, t) /\ V!width(t) = d[Len(t)]
  BY <1>1, CharsToo, WidthChain
<1> DEFINE P(i) == i <= m - k => d[i] = c[k + i] - c[k]
           S == {i \in Nat : P(i)}
<1>3. \A i \in 0..Len(text) : c[i] \in Nat
  BY ColumnsType
<1>4. P(0)
  BY <1>2, <1>3 DEF Columns
<1>5. ASSUME NEW i \in Nat, P(i)  PROVE P(i + 1)
  <2> HAVE i + 1 <= m - k
  <2>1. i + 1 \in 1..(m - k) /\ (i + 1) - 1 = i /\ k + (i + 1) \in 1..Len(text) /\ k + (i + 1) - 1 = k + i
    OBVIOUS
  <2>2. d[i + 1] = d[i] + t[i + 1].cols
    BY <1>1, <1>2, <2>1 DEF Columns
  <2>3. c[k + (i + 1)] = c[k + i] + text[k + (i + 1)].cols
    BY <2>1 DEF Columns
  <2>4. t[i + 1] = text[k + (i + 1)]
    BY <1>1, <2>1
  <2>5. text[k + (i + 1)].cols \in Nat
    BY <2>1 DEF Characters
  <2>6. c[k + i] \in Nat /\ c[k] \in Nat
    BY <1>3
  <2>7. d[i] = c[k + i] - c[k]
    BY <1>5
  <2>8. d[i + 1] = (c[k + i] - c[k]) + text[k + (i + 1)].cols
    BY <2>2, <2>4, <2>7
  <2> HIDE DEF P
  <2> QED BY <2>3, <2>5, <2>6, <2>8
<1> HIDE DEF P
<1>6. \A i \in Nat : i \in S
  <2>1. 0 \in S /\ \A i \in Nat : i \in S => i + 1 \in S
    BY <1>4, <1>5
  <2> HIDE DEF S
  <2> QED BY <2>1, Induction
<1>7. P(m - k)
  BY <1>6
<1> QED BY <1>1, <1>2, <1>7 DEF P, t

\* What the input line shows, by its columns.
LEMMA InputShown ==
  ASSUME NEW text \in Seq(Characters), NEW cursor \in 0..Len(text), NEW max \in Nat \ {0, 1}
  PROVE  LET v == V!Shown(text, cursor, max) IN
         /\ v.cursor = V!width(v.before)
         /\ v.cursor <= max /\ V!width(v.text) <= max
         /\ IsPrefix(v.before, v.text)
<1> DEFINE n == Len(text)
<1>1. PICK c : Columns(c, text) /\ V!width(text) = c[n]
  BY CharsToo, WidthChain
<1>2. /\ \A i \in 0..n : c[i] \in Nat
      /\ \A i \in 1..n : c[i - 1] < c[i] /\ c[i] <= c[i - 1] + 2
      /\ \A i, j \in 0..n : i <= j => c[i] <= c[j]
  BY <1>1, ColumnsType, ColumnsGrow
<1>3. ASSUME NEW k \in 0..n, NEW m \in k..n  PROVE V!width(SubSeq(text, k + 1, m)) = c[m] - c[k]
  BY <1>1, WidthOfPart
<1>4. c[0] = 0
  BY <1>1 DEF Columns
<1>5. ASSUME NEW k \in 0..n  PROVE V!width(SubSeq(text, 1, k)) = c[k]
  <2>1. V!width(SubSeq(text, 0 + 1, k)) = c[k] - c[0]
    BY <1>3
  <2> QED BY <1>2, <1>4, <2>1
<1> DEFINE col  == V!width(SubSeq(text, 1, cursor))
           off  == IF col > max THEN col - max ELSE 0
           from == {i \in 1..n : V!width(SubSeq(text, 1, i - 1)) >= off}
           past == {i \in 1..n : V!width(SubSeq(text, 1, i)) > max + off}
           lo   == IF from = {} THEN n + 1 ELSE CHOOSE i \in from : \A j \in from : i <= j
           hi   == IF past = {} THEN n ELSE (CHOOSE i \in past : \A j \in past : i <= j) - 1
           cur  == (IF col > max THEN max ELSE col) +
                   (IF from = {} THEN 0 ELSE off - V!width(SubSeq(text, 1, lo - 1)))
           v    == V!Shown(text, cursor, max)
<1>6. v = [text |-> SubSeq(text, lo, hi), before |-> SubSeq(text, lo, cursor), cursor |-> cur]
  BY DEF V!Shown
<1>7. col = c[cursor]
  BY <1>5
<1>8. col \in Nat /\ off \in Nat /\ col <= max + off
  BY <1>2, <1>7
<1>9. n \in Nat
  OBVIOUS
<1>10. from = {i \in 1..n : c[i - 1] >= off}
  <2>1. \A i \in 1..n : i - 1 \in 0..n
    BY <1>9
  <2> HIDE DEF n, col, off
  <2> QED BY <1>5, <2>1
<1>11. past = {i \in 1..n : c[i] > max + off}
  <2>1. \A i \in 1..n : i \in 0..n
    BY <1>9
  <2> HIDE DEF n, col, off
  <2> QED BY <1>5, <2>1
<1>12. /\ lo \in 1..(cursor + 1) /\ c[lo - 1] >= off
       /\ cur = c[cursor] - c[lo - 1]
  <2>1. CASE from = {}
    <3>1. n = 0
      <4>1. CASE off = 0
        <5>1. ~(n >= 1)
          <6>1. n >= 1 => 1 \in from
            <7> HIDE DEF from
            <7> QED BY <1>4, <1>9, <1>10, <4>1
          <6> HIDE DEF from
          <6> QED BY <2>1, <6>1
        <5> QED BY <1>9, <5>1
      <4>2. CASE off # 0
        <5>1. col = max + off /\ col > 0
          BY <1>8, <4>2
        <5>2. cursor \in 1..n
          BY <1>4, <1>7, <1>9, <5>1
        <5>3. c[cursor - 1] >= off
          <6>1. c[cursor] <= c[cursor - 1] + 2 /\ cursor - 1 \in 0..n
            BY <1>2, <1>9, <5>2
          <6>2. c[cursor - 1] \in Nat
            BY <1>2, <6>1
          <6> HIDE DEF off, col
          <6> QED BY <1>7, <1>8, <5>1, <6>1, <6>2
        <5>4. cursor \in from
          <6> HIDE DEF from
          <6> QED BY <1>10, <5>2, <5>3
        <5> QED BY <2>1, <5>4
      <4> QED BY <4>1, <4>2
    <3>2. cursor = 0 /\ lo = 1 /\ col = 0
      BY <1>4, <1>7, <2>1, <3>1
    <3> QED BY <1>4, <2>1, <3>2
  <2>2. CASE from # {}
    <3>1. from \in SUBSET Nat
      OBVIOUS
    <3>2. PICK i \in from : \A j \in from : i <= j
      <4> HIDE DEF from
      <4> QED BY <2>2, <3>1, LeastOf
    <3>3. lo \in from /\ \A j \in from : lo <= j
      <4> HIDE DEF from
      <4> QED BY <2>2, <3>2
    <3>4. lo \in 1..n /\ c[lo - 1] >= off
      <4> HIDE DEF from, lo
      <4> QED BY <1>10, <3>3
    <3>5. lo <= cursor + 1
      <4>1. CASE off = 0
        <5>1. 1 \in from
          <6>1. 1 \in 1..n
            BY <1>9, <3>4
          <6> HIDE DEF from
          <6> QED BY <1>4, <1>10, <4>1, <6>1
        <5>2. lo <= 1
          <6> HIDE DEF lo, from
          <6> QED BY <3>3, <5>1
        <5> HIDE DEF lo
        <5> QED BY <3>4, <5>2
      <4>2. CASE off # 0
        <5>1. col = max + off /\ col > 0
          BY <1>8, <4>2
        <5>2. cursor \in 1..n
          BY <1>4, <1>7, <1>9, <5>1
        <5>3. c[cursor - 1] >= off
          <6>1. c[cursor] <= c[cursor - 1] + 2 /\ cursor - 1 \in 0..n
            BY <1>2, <1>9, <5>2
          <6>2. c[cursor - 1] \in Nat
            BY <1>2, <6>1
          <6> HIDE DEF off, col
          <6> QED BY <1>7, <1>8, <5>1, <6>1, <6>2
        <5>4. cursor \in from
          <6> HIDE DEF from
          <6> QED BY <1>10, <5>2, <5>3
        <5>5. lo <= cursor
          <6> HIDE DEF lo, from
          <6> QED BY <3>3, <5>4
        <5> HIDE DEF lo
        <5> QED BY <3>4, <5>5
      <4> QED BY <4>1, <4>2
    <3>6. cur = c[cursor] - c[lo - 1]
      <4>1. V!width(SubSeq(text, 1, lo - 1)) = c[lo - 1]
        <5>1. lo - 1 \in 0..n
          <6> HIDE DEF lo
          <6> QED BY <1>9, <3>4
        <5> HIDE DEF lo
        <5> QED BY <1>5, <5>1
      <4>2. c[lo - 1] \in Nat
        <5> HIDE DEF lo
        <5> QED BY <1>2, <1>9, <3>4
      <4>3. cur = (IF col > max THEN max ELSE col) + (off - c[lo - 1])
        BY <2>2, <4>1
      <4>4. (IF col > max THEN max ELSE col) + off = col
        BY <1>8
      <4>5. (IF col > max THEN max ELSE col) \in Nat
        BY <1>8
      <4> HIDE DEF lo, cur
      <4> QED BY <1>7, <1>8, <4>2, <4>3, <4>4, <4>5
    <3> HIDE DEF lo, cur
    <3> QED BY <3>4, <3>5, <3>6
  <2> QED BY <2>1, <2>2
<1>13. hi \in cursor..n /\ c[hi] <= max + off
  <2>1. CASE past = {}
    <3>1. hi = n
      BY <2>1
    <3>2. ~(c[n] > max + off)
      <4>1. CASE n = 0
        BY <1>4, <1>8, <4>1
      <4>2. CASE n # 0
        <5>1. n \in 1..n
          BY <1>9, <4>2
        <5> HIDE DEF past
        <5> QED BY <1>11, <2>1, <5>1
      <4> QED BY <4>1, <4>2
    <3> HIDE DEF hi
    <3> QED BY <1>2, <1>8, <1>9, <3>1, <3>2
  <2>2. CASE past # {}
    <3>1. past \in SUBSET Nat
      OBVIOUS
    <3> DEFINE p == CHOOSE i \in past : \A j \in past : i <= j
    <3>2. PICK i \in past : \A j \in past : i <= j
      <4> HIDE DEF past
      <4> QED BY <2>2, <3>1, LeastOf
    <3>3. p \in past /\ \A j \in past : p <= j
      <4> HIDE DEF past
      <4> QED BY <3>2
    <3>4. hi = p - 1
      BY <2>2
    <3> HIDE DEF p, hi
    <3>5. p \in 1..n /\ c[p] > max + off
      <4> HIDE DEF past
      <4> QED BY <1>11, <3>3
    <3>6. p > cursor
      <4>1. p <= cursor => c[p] <= c[cursor]
        BY <1>2, <1>9, <3>5
      <4>2. c[p] \in Nat
        BY <1>2, <1>9, <3>5
      <4> HIDE DEF off, col
      <4> QED BY <1>7, <1>8, <1>9, <3>5, <4>1, <4>2
    <3>7. ~(c[p - 1] > max + off)
      <4>1. CASE p = 1
        BY <1>4, <1>8, <4>1
      <4>2. CASE p # 1
        <5>1. p - 1 \in 1..n /\ ~(p <= p - 1)
          BY <1>9, <3>5, <4>2
        <5> HIDE DEF past
        <5> QED BY <1>11, <3>3, <5>1
      <4> QED BY <4>1, <4>2
    <3>8. c[p - 1] \in Nat
      BY <1>2, <1>9, <3>5
    <3> HIDE DEF off, col
    <3> QED BY <1>8, <1>9, <3>4, <3>5, <3>6, <3>7, <3>8
  <2> QED BY <2>1, <2>2
<1> HIDE DEF lo, hi, cur, from, past, off, col, v
<1>14. lo - 1 \in 0..n /\ cursor \in (lo - 1)..n /\ hi \in (lo - 1)..n /\ (lo - 1) + 1 = lo
  BY <1>9, <1>12, <1>13
<1>15. V!width(SubSeq(text, lo, cursor)) = c[cursor] - c[lo - 1] /\ V!width(SubSeq(text, lo, hi)) = c[hi] - c[lo - 1]
  BY <1>3, <1>14
<1>16. IsPrefix(SubSeq(text, lo, cursor), SubSeq(text, lo, hi))
  BY <1>12, <1>13, <1>14 DEF IsPrefix
<1>17. c[cursor] \in Nat /\ c[hi] \in Nat /\ c[lo - 1] \in Nat
  BY <1>2, <1>14
<1>18. v.cursor = cur /\ v.before = SubSeq(text, lo, cursor) /\ v.text = SubSeq(text, lo, hi)
  BY <1>6
<1>19. cur = V!width(v.before) /\ IsPrefix(v.before, v.text)
  BY <1>12, <1>15, <1>16, <1>18
<1>20. cur <= max /\ V!width(v.text) <= max
  <2>1. cur = c[cursor] - c[lo - 1] /\ V!width(v.text) = c[hi] - c[lo - 1]
    BY <1>12, <1>15, <1>18
  <2>2. c[cursor] <= max + off /\ c[hi] <= max + off /\ c[lo - 1] >= off
    BY <1>7, <1>8, <1>12, <1>13
  <2> QED BY <1>8, <1>17, <2>1, <2>2
<1> QED BY <1>18, <1>19, <1>20 DEF v

\* CursorInView for every input: with room for two columns, what Flush of
\* term.go shows of the input line fits, and has the cursor where it is drawn.
THEOREM TheCursorIsInView == Spec => []CursorInView
<1>1. Init => CursorInView
  <2> SUFFICES ASSUME Init, case.kind = "input"  PROVE CursorInView
    BY DEF CursorInView
  <2>1. case \in Inputs
    BY WrapsAssumption, StreamsAssumption, HandoversAssumption, ShakesAssumption,
       CompletionsAssumption, GamesAssumption DEF Init, ChatCases
  <2>2. case.text \in Seq(Characters) /\ case.cursor \in 0..Len(case.text) /\ case.max \in Nat \ {0, 1}
    BY <2>1, InputsAssumption
  <2> QED BY <2>2, InputShown DEF CursorInView
<1>2. CursorInView /\ [Next]_case => CursorInView'
  BY DEF Next, CursorInView
<1> QED BY <1>1, <1>2, PTL DEF Spec

-----------------------------------------------------------------------------
(* Lines *)

\* The width of a text and one character more.
LEMMA WidthOfMore ==
  ASSUME NEW text \in Seq(Chars), NEW x \in Chars
  PROVE  /\ V!width(text) \in Nat
         /\ V!width(Append(text, x)) = V!width(text) + x.cols
<1> DEFINE n == Len(text)  more == Append(text, x)
<1>1. n \in Nat /\ more \in Seq(Chars) /\ Len(more) = n + 1 /\ more[n + 1] = x /\ \A i \in 1..n : more[i] = text[i]
  OBVIOUS
<1>2. PICK c : Columns(c, text) /\ V!width(text) = c[n]
  BY WidthChain
<1> HIDE DEF more
<1>3. PICK d : Columns(d, more) /\ V!width(more) = d[n + 1]
  BY <1>1, WidthChain
<1>4. \A y \in Chars : y.cols \in Nat
  BY DEF Chars, Characters, V!Space, V!Hyphen, V!Char
<1> DEFINE P(i) == i <= n => c[i] \in Nat /\ d[i] = c[i]
           S == {i \in Nat : P(i)}
<1>5. P(0)
  BY <1>2, <1>3 DEF Columns
<1>6. ASSUME NEW i \in Nat, P(i)  PROVE P(i + 1)
  <2> HAVE i + 1 <= n
  <2>1. i + 1 \in 1..n /\ (i + 1) - 1 = i /\ i + 1 \in 1..(n + 1)
    BY <1>1
  <2>2. c[i + 1] = c[i] + text[i + 1].cols /\ d[i + 1] = d[i] + more[i + 1].cols
    BY <1>1, <1>2, <1>3, <2>1 DEF Columns
  <2>3. text[i + 1].cols \in Nat /\ more[i + 1] = text[i + 1]
    BY <1>1, <1>4, <2>1
  <2> QED BY <1>6, <2>2, <2>3
<1> HIDE DEF P
<1>7. n \in S
  <2>1. 0 \in S /\ \A i \in Nat : i \in S => i + 1 \in S
    BY <1>5, <1>6
  <2> HIDE DEF S
  <2> QED BY <1>1, <2>1, Induction
<1>8. c[n] \in Nat /\ d[n] = c[n]
  BY <1>1, <1>7 DEF P
<1>9. d[n + 1] = d[n] + x.cols
  <2>1. n + 1 \in 1..(n + 1) /\ (n + 1) - 1 = n
    BY <1>1
  <2> QED BY <1>1, <1>3, <2>1 DEF Columns
<1> QED BY <1>2, <1>3, <1>8, <1>9 DEF more

\* A text of single bytes has as many bytes and columns as characters.
LEMMA SingleBytes ==
  ASSUME NEW text \in Seq(Characters), \A i \in DOMAIN text : text[i].bytes = 1
  PROVE  V!ByteLen(text) = Len(text) /\ V!width(text) = Len(text)
<1> DEFINE n == Len(text)
           step == [i \in 1..n |-> [x \in Nat |-> x + text[i].bytes]]
           P(g) == g = [s \in SUBSET DOMAIN text |-> IF s = {} THEN 0 ELSE g[s \ {Max(s)}] + text[Max(s)].bytes]
           g == CHOOSE g : P(g)
<1>1. n \in Nat /\ DOMAIN text = 1..n /\ \A i \in 1..n : text[i].bytes = 1 /\ text[i].cols = 1
  BY DEF Characters
<1>2. step \in [1..n -> [Nat -> Nat]]
  BY <1>1
<1>3. PICK f : FoldsBy(f, n, 0, step) /\ \A s \in SUBSET (1..n) : f[s] \in Nat
  <2>1. 0 \in Nat
    OBVIOUS
  <2> HIDE DEF n, step
  <2> QED BY <1>1, <1>2, <2>1, FoldIsThere
<1>4. P(f)
  <2>1. ASSUME NEW s \in SUBSET (1..n), s # {}
        PROVE  f[s] = f[s \ {Max(s)}] + text[Max(s)].bytes
    <3>1. Max(s) \in 1..n
      <4> HIDE DEF n
      <4> QED BY <1>1, <2>1, MaxInside
    <3>2. f[s \ {Max(s)}] \in Nat
      BY <1>3
    <3>3. f[s] = step[Max(s)][f[s \ {Max(s)}]]
      <4> HIDE DEF n, step
      <4> QED BY <1>3, <2>1 DEF FoldsBy
    <3> QED BY <3>1, <3>2, <3>3
  <2>2. f = [s \in SUBSET (1..n) |-> f[s]] /\ f[{}] = 0
    BY <1>3 DEF FoldsBy
  <2>3. \A s \in SUBSET (1..n) : f[s] = IF s = {} THEN 0 ELSE f[s \ {Max(s)}] + text[Max(s)].bytes
    BY <2>1, <2>2
  <2> HIDE DEF n
  <2> QED BY <1>1, <2>2, <2>3
<1>5. V!ByteLen(text) = g[DOMAIN text]
  BY DEF V!ByteLen, V!FoldLeft, V!MapThenFoldSet, V!Max, Max
<1>6. P(g)
  <2> HIDE DEF P
  <2> QED BY <1>4
<1> HIDE DEF g
<1>7. PICK c : Columns(c, text) /\ V!width(text) = c[n]
  BY CharsToo, WidthChain
<1> DEFINE Q(i) == i <= n => g[1..i] = i /\ c[i] = i
           S == {i \in Nat : Q(i)}
<1>8. Q(0)
  <2>1. 1..0 = {}
    OBVIOUS
  <2> QED BY <1>1, <1>6, <1>7, <2>1 DEF Columns
<1>9. ASSUME NEW i \in Nat, Q(i)  PROVE Q(i + 1)
  <2> HAVE i + 1 <= n
  <2>1. i + 1 \in 1..n /\ (i + 1) - 1 = i
    BY <1>1
  <2>2. Max(1..(i + 1)) = i + 1 /\ (1..(i + 1)) \ {i + 1} = 1..i /\ 1..(i + 1) # {}
    <3>1. i + 1 \in Nat \ {0} /\ (i + 1) - 1 = i
      OBVIOUS
    <3> QED BY <3>1, UpToAll
  <2>3. g[1..(i + 1)] = g[(1..(i + 1)) \ {Max(1..(i + 1))}] + text[Max(1..(i + 1))].bytes
    <3>1. 1..(i + 1) \in SUBSET DOMAIN text
      BY <1>1
    <3> QED BY <1>6, <2>2, <3>1
  <2>4. c[i + 1] = c[i] + text[i + 1].cols
    BY <1>7, <2>1 DEF Columns
  <2>5. g[1..(i + 1)] = g[1..i] + text[i + 1].bytes
    BY <2>2, <2>3
  <2>6. g[1..i] = i /\ c[i] = i /\ text[i + 1].bytes = 1 /\ text[i + 1].cols = 1
    BY <1>1, <1>9, <2>1
  <2> HIDE DEF g, n
  <2> QED BY <2>4, <2>5, <2>6
<1> HIDE DEF Q
<1>10. n \in S
  <2>1. 0 \in S /\ \A i \in Nat : i \in S => i + 1 \in S
    BY <1>8, <1>9
  <2> HIDE DEF S
  <2> QED BY <1>1, <2>1, Induction
<1>11. g[1..n] = n /\ c[n] = n
  BY <1>1, <1>10 DEF Q
<1> QED BY <1>1, <1>5, <1>7, <1>11

\* What comes before a line, and the text that the lines are of.
Whole(t)   == IF t = <<>> THEN <<>> ELSE IF Last(t) = V!Hyphen THEN Front(t) ELSE Append(t, V!Space)
Glue(t, l) == IF t = <<>> THEN l
              ELSE IF Last(t) = V!Hyphen THEN Front(t) \o l ELSE Append(t, V!Space) \o l

LEMMA GlueIs ==
  ASSUME NEW t \in Seq(Chars), NEW l \in Seq(Chars)
  PROVE  Whole(t) \in Seq(Chars) /\ Glue(t, l) = Whole(t) \o l /\ Glue(t, l) \in Seq(Chars)
<1>1. V!Space \in Chars
  BY DEF Chars
<1>2. ASSUME t # <<>>  PROVE Front(t) \in Seq(Chars)
  <2>1. Len(t) \in Nat \ {0} /\ Len(t) - 1 \in 0..Len(t) /\ 0 \in 0..Len(t) /\ Len(t) - 1 \in 0..Len(t) /\ 0 + 1 = 1
    BY <1>2, EmptySeq
  <2>2. SubSeq(t, 0 + 1, Len(t) - 1) \in Seq(Chars)
    BY <2>1, PartIs
  <2> QED BY <2>2 DEF Front
<1>3. Append(t, V!Space) \in Seq(Chars)
  BY <1>1
<1>4. Whole(t) \in Seq(Chars)
  BY <1>2, <1>3 DEF Whole
<1>5. <<>> \o l = l
  OBVIOUS
<1>6. Glue(t, l) = Whole(t) \o l
  BY <1>5 DEF Glue, Whole
<1>7. Whole(t) \o l \in Seq(Chars)
  BY <1>4, ConcatIs
<1> QED BY <1>4, <1>6, <1>7

\* The lines put together, one after the other.
Glued(u, lines) ==
  /\ u \in [0..Len(lines) -> Seq(Chars)]
  /\ u[0] = <<>>
  /\ \A i \in 1..Len(lines) : u[i] = Glue(u[i - 1], lines[i])

LEMMA UnwrapChain ==
  ASSUME NEW lines \in Seq(Seq(Chars))
  PROVE  \E u : Glued(u, lines) /\ Unwrap(lines) = u[Len(lines)]
<1> DEFINE n == Len(lines)
           E == <<>>
           step == [i \in 1..n |-> [x \in Seq(Chars) |-> Glue(x, lines[i])]]
           P(g) == g = [s \in SUBSET DOMAIN lines |->
                          IF s = {} THEN <<>>
                          ELSE IF g[s \ {Max(s)}] = <<>> THEN lines[Max(s)]
                          ELSE IF Last(g[s \ {Max(s)}]) = V!Hyphen THEN Front(g[s \ {Max(s)}]) \o lines[Max(s)]
                          ELSE Append(g[s \ {Max(s)}], V!Space) \o lines[Max(s)]]
<1>1. n \in Nat /\ DOMAIN lines = 1..n /\ E \in Seq(Chars)
  OBVIOUS
<1>2. \A i \in 1..n : lines[i] \in Seq(Chars)
  OBVIOUS
<1>3. step \in [1..n -> [Seq(Chars) -> Seq(Chars)]]
  BY <1>2, GlueIs
<1>4. PICK f : FoldsBy(f, n, E, step) /\ \A s \in SUBSET (1..n) : f[s] \in Seq(Chars)
  <2> HIDE DEF n, step, E
  <2> QED BY <1>1, <1>3, FoldIsThere
<1>0. \A g : P(g) <=> g = [s \in SUBSET DOMAIN lines |-> IF s = {} THEN E ELSE Glue(g[s \ {Max(s)}], lines[Max(s)])]
  BY DEF Glue
<1> DEFINE g == CHOOSE g : P(g)
<1>6. Unwrap(lines) = g[DOMAIN lines]
  BY DEF Unwrap, FoldLeft, MapThenFoldSet
<1> HIDE DEF P
<1>5. P(f)
  <2>1. ASSUME NEW s \in SUBSET (1..n), s # {}
        PROVE  f[s] = Glue(f[s \ {Max(s)}], lines[Max(s)])
    <3>1. Max(s) \in 1..n
      <4> HIDE DEF n
      <4> QED BY <1>1, <2>1, MaxInside
    <3>2. f[s \ {Max(s)}] \in Seq(Chars)
      BY <1>4
    <3>3. f[s] = step[Max(s)][f[s \ {Max(s)}]]
      <4> HIDE DEF n, step, E
      <4> QED BY <1>4, <2>1 DEF FoldsBy
    <3> QED BY <3>1, <3>2, <3>3
  <2>2. f = [s \in SUBSET (1..n) |-> f[s]] /\ f[{}] = E
    <3> HIDE DEF step, E
    <3> QED BY <1>4 DEF FoldsBy
  <2>3. \A s \in SUBSET (1..n) : f[s] = IF s = {} THEN E ELSE Glue(f[s \ {Max(s)}], lines[Max(s)])
    BY <2>1, <2>2
  <2> HIDE DEF n, E
  <2> QED BY <1>0, <1>1, <2>2, <2>3
<1>7. P(g)
  BY <1>5
<1> HIDE DEF g, E
<1>g. g = [s \in SUBSET DOMAIN lines |-> IF s = {} THEN E ELSE Glue(g[s \ {Max(s)}], lines[Max(s)])]
  BY <1>0, <1>7
<1> DEFINE c == [i \in 0..n |-> g[1..i]]
<1>8. c[0] = E
  <2>1. 1..0 = {}
    OBVIOUS
  <2> QED BY <1>1, <1>g, <2>1
<1>9. ASSUME NEW i \in 1..n  PROVE c[i] = Glue(c[i - 1], lines[i])
  <2>1. Max(1..i) = i /\ (1..i) \ {i} = 1..(i - 1) /\ 1..i # {}
    BY UpToAll
  <2>2. g[1..i] = Glue(g[(1..i) \ {Max(1..i)}], lines[Max(1..i)])
    <3>1. 1..i \in SUBSET DOMAIN lines
      BY <1>1
    <3> QED BY <1>g, <2>1, <3>1
  <2>3. i \in 0..n /\ i - 1 \in 0..n
    BY <1>1
  <2>4. c[i] = g[1..i] /\ c[i - 1] = g[1..(i - 1)]
    BY <2>3
  <2> HIDE DEF c
  <2> QED BY <2>1, <2>2, <2>4
<1>10. g[DOMAIN lines] = c[n]
  BY <1>1
<1>11. c = [i \in 0..n |-> c[i]]
  OBVIOUS
<1> HIDE DEF c
<1> DEFINE S == {i \in Nat : i <= n => c[i] \in Seq(Chars)}
<1>12. 0 \in S
  BY <1>1, <1>8
<1>13. ASSUME NEW i \in Nat, i \in S  PROVE i + 1 \in S
  <2>1. CASE i + 1 <= n
    <3>1. i + 1 \in 1..n /\ (i + 1) - 1 = i /\ c[i] \in Seq(Chars)
      BY <1>1, <1>13, <2>1
    <3>2. c[i + 1] = Glue(c[i], lines[i + 1]) /\ lines[i + 1] \in Seq(Chars)
      BY <1>2, <1>9, <3>1
    <3>3. c[i + 1] \in Seq(Chars)
      BY <3>1, <3>2, GlueIs
    <3> QED BY <3>3
  <2>2. CASE ~(i + 1 <= n)
    BY <2>2
  <2> QED BY <2>1, <2>2
<1>14. \A i \in Nat : i \in S
  <2> HIDE DEF S
  <2> QED BY <1>12, <1>13, Induction
<1>15. c \in [0..n -> Seq(Chars)]
  BY <1>1, <1>11, <1>14
<1>16. Glued(c, lines)
  BY <1>8, <1>9, <1>15 DEF Glued, E
<1> QED BY <1>6, <1>10, <1>16

\* One line more.
LEMMA UnwrapMore ==
  ASSUME NEW lines \in Seq(Seq(Chars)), NEW l \in Seq(Chars)
  PROVE  /\ Unwrap(lines) \in Seq(Chars) /\ Unwrap(Append(lines, l)) = Whole(Unwrap(lines)) \o l
         /\ Whole(Unwrap(lines)) \in Seq(Chars)
         /\ lines = <<>> => Unwrap(lines) = <<>>
<1> DEFINE n == Len(lines)  more == Append(lines, l)
<1>1. /\ n \in Nat /\ more \in Seq(Seq(Chars)) /\ Len(more) = n + 1 /\ more[n + 1] = l
      /\ \A i \in 1..n : more[i] = lines[i]
  OBVIOUS
<1>2. PICK u : Glued(u, lines) /\ Unwrap(lines) = u[n]
  BY UnwrapChain
<1> HIDE DEF more
<1>3. PICK d : Glued(d, more) /\ Unwrap(more) = d[n + 1]
  BY <1>1, UnwrapChain
<1> DEFINE S == {i \in Nat : i <= n => d[i] = u[i]}
<1>4. 0 \in S
  BY <1>2, <1>3 DEF Glued
<1>5. ASSUME NEW i \in Nat, i \in S  PROVE i + 1 \in S
  <2>1. ASSUME i + 1 <= n  PROVE d[i + 1] = u[i + 1]
    <3>1. i + 1 \in 1..n /\ (i + 1) - 1 = i /\ i + 1 \in 1..(n + 1) /\ d[i] = u[i]
      BY <1>1, <1>5, <2>1
    <3>2. u[i + 1] = Glue(u[i], lines[i + 1]) /\ d[i + 1] = Glue(d[i], more[i + 1])
      BY <1>1, <1>2, <1>3, <3>1 DEF Glued
    <3> QED BY <1>1, <3>1, <3>2
  <2> QED BY <2>1
<1>6. n \in S
  <2> HIDE DEF S
  <2> QED BY <1>1, <1>4, <1>5, Induction
<1>7. d[n] = u[n]
  BY <1>1, <1>6
<1>8. d[n + 1] = Glue(d[n], l)
  <2>1. n + 1 \in 1..(n + 1) /\ (n + 1) - 1 = n
    BY <1>1
  <2> QED BY <1>1, <1>3, <2>1 DEF Glued
<1>9. u[n] \in Seq(Chars)
  <2>1. n \in 0..n
    BY <1>1
  <2> QED BY <1>2, <2>1 DEF Glued
<1>10. lines = <<>> => u[n] = <<>>
  BY <1>2 DEF Glued
<1> QED BY <1>2, <1>3, <1>7, <1>8, <1>9, <1>10, GlueIs DEF more

\* The loop over the characters, a turn at a time.
State(lines, cwidth, lastSpace, lastCut) ==
  [lines |-> lines, cwidth |-> cwidth, lastSpace |-> lastSpace, lastCut |-> lastCut]

Start == State(<<>>, 0, 0, 0)

\* The turns at all sets of characters up to k, the last one last.
Turns(f, text, edge, k) ==
  f = [s \in SUBSET (1..k) |-> IF s = {} THEN Start ELSE V!Turn(text, edge, f[s \ {Max(s)}], Max(s) - 1)]

LEMMA MoreTurns ==
  ASSUME NEW text, NEW edge, NEW k \in Nat, NEW f, Turns(f, text, edge, k)
  PROVE  \E g : Turns(g, text, edge, k + 1)
<1> DEFINE do(x, i) == V!Turn(text, edge, x, i)
           g == [s \in SUBSET (1..(k + 1)) |-> IF k + 1 \in s THEN do(f[s \ {k + 1}], (k + 1) - 1) ELSE f[s]]
<1> HIDE DEF do
<1>1. ASSUME NEW s \in SUBSET (1..k)  PROVE s \in SUBSET (1..(k + 1)) /\ g[s] = f[s] /\ k + 1 \notin s
  BY <1>1
<1>2. ASSUME NEW s \in SUBSET (1..(k + 1)), k + 1 \in s  PROVE g[s] = do(f[s \ {k + 1}], (k + 1) - 1)
  BY <1>2
<1>3. g = [s \in SUBSET (1..(k + 1)) |-> g[s]]
  OBVIOUS
<1>f. f = [s \in SUBSET (1..k) |-> IF s = {} THEN Start ELSE do(f[s \ {Max(s)}], Max(s) - 1)]
  BY DEF Turns, do
<1> HIDE DEF g
<1>4. ASSUME NEW s \in SUBSET (1..(k + 1)), k + 1 \in s
      PROVE  g[s] = do(g[s \ {Max(s)}], Max(s) - 1)
  <2>1. Max(s) = k + 1
    BY <1>4, MaxUpTo
  <2> DEFINE t == s \ {k + 1}
  <2>2. t \in SUBSET (1..k)
    OBVIOUS
  <2> HIDE DEF t
  <2>3. g[t] = f[t]
    BY <1>1, <2>2
  <2>4. g[s] = do(f[t], (k + 1) - 1)
    BY <1>2, <1>4 DEF t
  <2>5. s \ {Max(s)} = t
    BY <2>1 DEF t
  <2> QED BY <2>1, <2>3, <2>4, <2>5
<1>5. ASSUME NEW s \in SUBSET (1..k), s # {}
      PROVE  g[s] = do(g[s \ {Max(s)}], Max(s) - 1)
  <2>1. s \ {Max(s)} \in SUBSET (1..k)
    OBVIOUS
  <2>2. g[s] = f[s] /\ g[s \ {Max(s)}] = f[s \ {Max(s)}]
    BY <1>1, <2>1
  <2>3. f[s] = do(f[s \ {Max(s)}], Max(s) - 1)
    BY <1>5, <1>f
  <2> QED BY <2>2, <2>3
<1>6. \A s \in SUBSET (1..(k + 1)) : k + 1 \in s \/ s \in SUBSET (1..k)
  OBVIOUS
<1>7. g[{}] = Start
  <2>1. {} \in SUBSET (1..k)
    OBVIOUS
  <2> QED BY <1>1, <1>f, <2>1
<1>8. \A s \in SUBSET (1..(k + 1)) : g[s] = IF s = {} THEN Start ELSE do(g[s \ {Max(s)}], Max(s) - 1)
  BY <1>4, <1>5, <1>6, <1>7
<1>9. g = [s \in SUBSET (1..(k + 1)) |-> IF s = {} THEN Start ELSE do(g[s \ {Max(s)}], Max(s) - 1)]
  BY <1>3, <1>8
<1> QED BY <1>9 DEF Turns, do

LEMMA TurnsAreThere ==
  ASSUME NEW text, NEW edge, NEW n \in Nat
  PROVE  \E f : Turns(f, text, edge, n)
<1> DEFINE S == {k \in Nat : \E f : Turns(f, text, edge, k)}
<1>1. 0 \in S
  <2> DEFINE f == [s \in SUBSET (1..0) |-> Start]
  <2>1. \A s \in SUBSET (1..0) : s = {}
    OBVIOUS
  <2>2. f = [s \in SUBSET (1..0) |-> IF s = {} THEN Start ELSE V!Turn(text, edge, f[s \ {Max(s)}], Max(s) - 1)]
    BY <2>1
  <2> HIDE DEF f
  <2>3. Turns(f, text, edge, 0)
    BY <2>2 DEF Turns
  <2> QED BY <2>3
<1>2. \A k \in Nat : k \in S => k + 1 \in S
  BY MoreTurns
<1>3. n \in S
  <2> HIDE DEF S
  <2> QED BY <1>1, <1>2, Induction
<1> QED BY <1>3

\* What is left of the loop's code once it is done.
End(text, edge) ==
  V!FoldLeft(LAMBDA st, ix : V!Turn(text, edge, st, ix),
             [lines |-> <<>>, cwidth |-> 0, lastSpace |-> 0, lastCut |-> 0],
             [i \in 1..Len(text) |-> i - 1])

LEMMA TurnsChain ==
  ASSUME NEW text \in Seq(Characters), NEW edge
  PROVE  \E s : /\ s[0] = Start /\ End(text, edge) = s[Len(text)]
                /\ \A i \in 1..Len(text) : s[i] = V!Turn(text, edge, s[i - 1], i - 1)
<1> DEFINE n == Len(text)
           at == [i \in 1..n |-> i - 1]
           P(g) == g = [s \in SUBSET DOMAIN at |->
                          IF s = {} THEN [lines |-> <<>>, cwidth |-> 0, lastSpace |-> 0, lastCut |-> 0]
                          ELSE V!Turn(text, edge, g[s \ {Max(s)}], at[Max(s)])]
           g == CHOOSE g : P(g)
<1>1. n \in Nat /\ DOMAIN at = 1..n /\ \A i \in 1..n : at[i] = i - 1
  OBVIOUS
<1>2. End(text, edge) = g[DOMAIN at]
  BY DEF End, V!FoldLeft, V!MapThenFoldSet, V!Max, Max
<1> HIDE DEF at, n
<1>3. \A h : P(h) <=> h = [s \in SUBSET (1..n) |-> IF s = {} THEN Start ELSE V!Turn(text, edge, h[s \ {Max(s)}], at[Max(s)])]
  BY <1>1 DEF Start, State
<1>4. \A s \in SUBSET (1..n) : s # {} => at[Max(s)] = Max(s) - 1
  BY <1>1, MaxInside
<1> HIDE DEF P, g
<1>5. PICK f : Turns(f, text, edge, n)
  BY <1>1, TurnsAreThere
<1>6. P(f)
  BY <1>3, <1>4, <1>5 DEF Turns
<1>7. P(g)
  BY <1>6 DEF g
<1>8. g = [s \in SUBSET (1..n) |-> IF s = {} THEN Start ELSE V!Turn(text, edge, g[s \ {Max(s)}], at[Max(s)])]
  BY <1>3, <1>7
<1> DEFINE c == [i \in 0..n |-> g[1..i]]
<1>9. c[0] = Start
  <2>1. 1..0 = {}
    OBVIOUS
  <2> QED BY <1>1, <1>8, <2>1
<1>10. ASSUME NEW i \in 1..n  PROVE c[i] = V!Turn(text, edge, c[i - 1], i - 1)
  <2>1. Max(1..i) = i /\ (1..i) \ {i} = 1..(i - 1) /\ 1..i # {}
    <3>1. i \in Nat \ {0}
      BY <1>1
    <3> QED BY <3>1, UpToAll
  <2>2. g[1..i] = V!Turn(text, edge, g[(1..i) \ {Max(1..i)}], at[Max(1..i)])
    <3>1. 1..i \in SUBSET (1..n)
      BY <1>1
    <3> QED BY <1>8, <2>1, <3>1
  <2>3. i \in 0..n /\ i - 1 \in 0..n
    BY <1>1
  <2>4. c[i] = g[1..i] /\ c[i - 1] = g[1..(i - 1)]
    BY <2>3
  <2> HIDE DEF c
  <2> QED BY <1>1, <2>1, <2>2, <2>4
<1>11. g[DOMAIN at] = c[n]
  BY <1>1
<1> HIDE DEF c
<1> QED BY <1>2, <1>9, <1>10, <1>11 DEF n

\* Every line fits into edge columns.
Fit(lines, edge) == \A i \in DOMAIN lines : V!width(lines[i]) <= edge

\* What holds after p characters of a text with columns c: the lines fit and
\* have the text up to the last cut, and the columns from there on are known
\* to one.
Broken(text, c, edge, p, lines, cwidth, lastSpace, lastCut) ==
  /\ lines \in Seq(Seq(Chars)) /\ Fit(lines, edge)
  /\ cwidth \in Nat /\ cwidth < edge /\ lastCut \in 0..p /\ lastSpace \in Nat
  /\ cwidth <= c[p] - c[lastCut] /\ c[p] - c[lastCut] <= cwidth + 1
  /\ lastSpace > lastCut => lastSpace < p /\ text[lastSpace + 1] = V!Space
  /\ Whole(Unwrap(lines)) = SubSeq(text, 1, lastCut)
  /\ Unwrap(lines) # <<>> /\ Last(Unwrap(lines)) = V!Hyphen => lastCut < p

\* A line more that fits, and the text with it.
LEMMA LineMore ==
  ASSUME NEW text \in Seq(Characters), \A i \in DOMAIN text : text[i] # V!Hyphen,
         NEW edge \in Nat, NEW lines \in Seq(Seq(Chars)), Fit(lines, edge),
         NEW a \in 0..Len(text), NEW b \in a..Len(text), Whole(Unwrap(lines)) = SubSeq(text, 1, a),
         NEW l \in Seq(Chars), V!width(l) <= edge
  PROVE  /\ Append(lines, l) \in Seq(Seq(Chars)) /\ Fit(Append(lines, l), edge)
         /\ Unwrap(Append(lines, l)) = SubSeq(text, 1, a) \o l
<1> DEFINE n == Len(lines)  more == Append(lines, l)
<1>1. /\ n \in Nat /\ more \in Seq(Seq(Chars)) /\ Len(more) = n + 1 /\ more[n + 1] = l
      /\ (\A i \in 1..n : more[i] = lines[i]) /\ DOMAIN more = 1..(n + 1) /\ DOMAIN lines = 1..n
  OBVIOUS
<1>2. Fit(more, edge)
  <2> HIDE DEF more
  <2>1. \A i \in 1..(n + 1) : i \in 1..n \/ i = n + 1
    BY <1>1
  <2>2. \A i \in 1..n : V!width(lines[i]) <= edge
    BY <1>1 DEF Fit
  <2> HIDE DEF n
  <2>3. \A i \in 1..(n + 1) : V!width(more[i]) <= edge
    BY <1>1, <2>1, <2>2
  <2> QED BY <1>1, <2>3 DEF Fit
<1>3. Unwrap(more) = SubSeq(text, 1, a) \o l
  BY UnwrapMore
<1> QED BY <1>1, <1>2, <1>3

\* Two neighbouring parts of a text make one.
LEMMA PartsJoin ==
  ASSUME NEW text \in Seq(Characters), NEW a \in 0..Len(text), NEW b \in a..Len(text)
  PROVE  /\ SubSeq(text, 1, a) \in Seq(Characters) /\ SubSeq(text, a + 1, b) \in Seq(Characters)
         /\ SubSeq(text, 1, a) \o SubSeq(text, a + 1, b) = SubSeq(text, 1, b)
         /\ Len(SubSeq(text, 1, b)) = b
         /\ b > 0 => SubSeq(text, 1, b) # <<>> /\ Last(SubSeq(text, 1, b)) = text[b]
<1> DEFINE u == SubSeq(text, 1, a)  v == SubSeq(text, a + 1, b)  w == SubSeq(text, 1, b)
<1>0. 0 \in 0..Len(text) /\ a \in 0..Len(text) /\ b \in 0..Len(text) /\ 0 + 1 = 1 /\ a \in Nat /\ b \in Nat /\ a <= b
  OBVIOUS
<1>1. u \in Seq(Characters) /\ Len(u) = a /\ \A i \in 1..a : u[i] = text[i]
  <2>1. SubSeq(text, 0 + 1, a) \in Seq(Characters) /\ Len(SubSeq(text, 0 + 1, a)) = a - 0
        /\ \A i \in 1..(a - 0) : SubSeq(text, 0 + 1, a)[i] = text[0 + i]
    BY <1>0, PartIs
  <2> QED BY <2>1
<1>2. v \in Seq(Characters) /\ Len(v) = b - a /\ \A i \in 1..(b - a) : v[i] = text[a + i]
  BY PartIs
<1>3. w \in Seq(Characters) /\ Len(w) = b /\ \A i \in 1..b : w[i] = text[i]
  <2>1. SubSeq(text, 0 + 1, b) \in Seq(Characters) /\ Len(SubSeq(text, 0 + 1, b)) = b - 0
        /\ \A i \in 1..(b - 0) : SubSeq(text, 0 + 1, b)[i] = text[0 + i]
    BY <1>0, PartIs
  <2> QED BY <2>1
<1> HIDE DEF u, v, w
<1>4. /\ u \o v \in Seq(Characters) /\ Len(u \o v) = a + (b - a)
      /\ (\A i \in 1..a : (u \o v)[i] = u[i]) /\ \A i \in 1..(b - a) : (u \o v)[a + i] = v[i]
  <2> DEFINE y == u \o v
  <2>1. Joined(Characters, y, u, v)
    BY <1>1, <1>2, Joins
  <2> HIDE DEF y
  <2>2. /\ y \in Seq(Characters) /\ Len(y) = a + (b - a)
        /\ (\A i \in 1..a : y[i] = u[i]) /\ \A i \in 1..(b - a) : y[a + i] = v[i]
    BY <1>1, <1>2, <2>1 DEF Joined
  <2> QED BY <2>2 DEF y
<1> DEFINE x == u \o v
<1> HIDE DEF x
<1>5. ASSUME NEW i \in 1..b  PROVE x[i] = w[i]
  <2>1. CASE i <= a
    <3>1. i \in 1..a
      BY <1>0, <2>1
    <3> QED BY <1>1, <1>3, <1>4, <3>1 DEF x
  <2>2. CASE i > a
    <3>1. i - a \in 1..(b - a) /\ a + (i - a) = i
      BY <1>0, <2>2
    <3> QED BY <1>2, <1>3, <1>4, <3>1 DEF x
  <2> QED BY <1>0, <2>1, <2>2
<1>6. x = w
  <2>1. x \in Seq(Characters) /\ Len(x) = b
    BY <1>0, <1>4 DEF x
  <2> QED BY <1>3, <1>5, <2>1, SameSeq
<1>7. b > 0 => w # <<>> /\ Last(w) = text[b]
  <2> HAVE b > 0
  <2>1. b \in 1..b
    BY <1>0
  <2> QED BY <1>3, <2>1 DEF Last
<1> QED BY <1>1, <1>2, <1>3, <1>6, <1>7 DEF u, v, w, x

LEMMA MoreAfter ==
  ASSUME NEW S, NEW s \in Seq(S), NEW t \in Seq(S), NEW x \in S
  PROVE  s \o Append(t, x) = Append(s \o t, x)
<1> DEFINE a == Len(s)  b == Len(t)  u == Append(t, x)  v == s \o u  y == s \o t  w == Append(y, x)
<1>1. a \in Nat /\ b \in Nat /\ u \in Seq(S) /\ Len(u) = b + 1 /\ u[b + 1] = x /\ \A i \in 1..b : u[i] = t[i]
  OBVIOUS
<1> HIDE DEF u
<1>2. Joined(S, v, s, u) /\ Joined(S, y, s, t)
  BY <1>1, Joins
<1> HIDE DEF v, y
<1>3. /\ v \in Seq(S) /\ Len(v) = a + (b + 1)
      /\ (\A i \in 1..a : v[i] = s[i]) /\ \A i \in 1..(b + 1) : v[a + i] = u[i]
  BY <1>1, <1>2 DEF Joined
<1>4. /\ y \in Seq(S) /\ Len(y) = a + b
      /\ (\A i \in 1..a : y[i] = s[i]) /\ \A i \in 1..b : y[a + i] = t[i]
  BY <1>1, <1>2 DEF Joined
<1>5. w \in Seq(S) /\ Len(w) = Len(y) + 1 /\ w[Len(y) + 1] = x /\ \A i \in 1..Len(y) : w[i] = y[i]
  BY <1>4
<1> HIDE DEF w, a, b
<1>6. ASSUME NEW i \in 1..Len(v)  PROVE v[i] = w[i]
  <2>1. CASE i <= a
    <3>1. i \in 1..a /\ i \in 1..(a + b)
      BY <1>1, <1>3, <2>1
    <3> QED BY <1>3, <1>4, <1>5, <3>1
  <2>2. CASE i > a /\ i <= a + b
    <3>1. i - a \in 1..b /\ i - a \in 1..(b + 1) /\ a + (i - a) = i /\ i \in 1..(a + b)
      BY <1>1, <1>3, <2>2
    <3>2. v[a + (i - a)] = u[i - a] /\ u[i - a] = t[i - a]
      BY <1>1, <1>3, <3>1
    <3>3. y[a + (i - a)] = t[i - a] /\ w[i] = y[i]
      BY <1>4, <1>5, <3>1
    <3> QED BY <3>1, <3>2, <3>3
  <2>3. CASE i > a + b
    <3>1. i = a + (b + 1) /\ b + 1 \in 1..(b + 1) /\ i = (a + b) + 1
      BY <1>1, <1>3, <2>3
    <3>2. v[i] = x
      BY <1>1, <1>3, <3>1
    <3> QED BY <1>4, <1>5, <3>1, <3>2
  <2> QED BY <1>1, <1>3, <2>1, <2>2, <2>3
<1>7. Len(v) = Len(w)
  BY <1>1, <1>3, <1>4, <1>5
<1>8. v = w
  BY <1>3, <1>5, <1>6, <1>7, SameSeq
<1> QED BY <1>8 DEF v, w, y, u

LEMMA LastIs ==
  ASSUME NEW S, NEW s \in Seq(S), NEW x \in S
  PROVE  Append(s, x) # <<>> /\ Last(Append(s, x)) = x /\ Front(Append(s, x)) = s
<1> DEFINE t == Append(s, x)  n == Len(s)
<1>1. n \in Nat /\ t \in Seq(S) /\ Len(t) = n + 1 /\ t[n + 1] = x /\ \A i \in 1..n : t[i] = s[i]
  OBVIOUS
<1> HIDE DEF t
<1>2. t # <<>> /\ Last(t) = x
  BY <1>1 DEF Last
<1>3. SubSeq(t, 0 + 1, n) \in Seq(S) /\ Len(SubSeq(t, 0 + 1, n)) = n - 0
      /\ \A i \in 1..(n - 0) : SubSeq(t, 0 + 1, n)[i] = t[0 + i]
  <2>1. 0 \in 0..Len(t) /\ n \in 0..Len(t)
    BY <1>1
  <2> QED BY <1>1, <2>1, PartIs
<1>4. SubSeq(t, 1, n) \in Seq(S) /\ Len(SubSeq(t, 1, n)) = n /\ \A i \in 1..n : SubSeq(t, 1, n)[i] = s[i]
  BY <1>1, <1>3
<1>5. SubSeq(t, 1, n) = s
  <2> DEFINE u == SubSeq(t, 1, n)
  <2> HIDE DEF u
  <2>1. u \in Seq(S) /\ Len(u) = n /\ \A i \in 1..n : u[i] = s[i]
    BY <1>4 DEF u
  <2>2. u = s
    BY <2>1, SameSeq
  <2> QED BY <2>2 DEF u
<1>6. Front(t) = s
  BY <1>1, <1>5 DEF Front
<1> QED BY <1>2, <1>6 DEF t

\* The columns of neighbouring characters.
LEMMA Nearby ==
  ASSUME NEW text \in Seq(Characters), NEW c, Columns(c, text), NEW a \in 0..Len(text), NEW b \in a..Len(text)
  PROVE  c[a] \in Nat /\ c[b] \in Nat /\ b - a <= c[b] - c[a] /\ c[b] - c[a] <= 2 * (b - a)
<1> DEFINE n == Len(text)
           P(d) == a + d <= n => d <= c[a + d] - c[a] /\ c[a + d] - c[a] <= 2 * d
           S == {d \in Nat : P(d)}
<1>1. n \in Nat /\ a \in Nat /\ b \in Nat /\ a <= b /\ b <= n
  OBVIOUS
<1>2. \A i \in 0..n : c[i] \in Nat
  BY ColumnsType
<1>3. P(0)
  BY <1>1, <1>2
<1>4. ASSUME NEW d \in Nat, P(d)  PROVE P(d + 1)
  <2> HAVE a + (d + 1) <= n
  <2>1. a + (d + 1) \in 1..n /\ a + (d + 1) - 1 = a + d /\ a + d \in 0..n /\ a + (d + 1) \in 0..n
    BY <1>1
  <2>2. c[a + d] < c[a + (d + 1)] /\ c[a + (d + 1)] <= c[a + d] + 2
    BY <2>1, ColumnsGrow
  <2>3. c[a] \in Nat /\ c[a + d] \in Nat /\ c[a + (d + 1)] \in Nat
    BY <1>2, <2>1
  <2>4. d <= c[a + d] - c[a] /\ c[a + d] - c[a] <= 2 * d
    BY <1>1, <1>4, <2>1
  <2> DEFINE x == c[a]  y == c[a + d]  z == c[a + (d + 1)]
  <2>5. x \in Nat /\ y \in Nat /\ z \in Nat /\ y < z /\ z <= y + 2 /\ d <= y - x /\ y - x <= 2 * d
    BY <2>2, <2>3, <2>4
  <2> HIDE DEF x, y, z
  <2>6. d + 1 <= z - x /\ z - x <= 2 * (d + 1)
    BY <2>5
  <2> QED BY <2>6 DEF x, z
<1> HIDE DEF P
<1>5. \A d \in Nat : d \in S
  <2>1. 0 \in S /\ \A d \in Nat : d \in S => d + 1 \in S
    BY <1>3, <1>4
  <2> HIDE DEF S
  <2> QED BY <2>1, Induction
<1>6. b - a \in Nat /\ a + (b - a) = b
  BY <1>1
<1>7. P(b - a)
  BY <1>5, <1>6
<1>8. c[a] \in Nat /\ c[b] \in Nat
  BY <1>1, <1>2
<1> QED BY <1>1, <1>6, <1>7, <1>8 DEF P

\* One turn at the character after the first p.
LEMMA TurnBreaks ==
  ASSUME NEW text \in Seq(Characters), \A i \in DOMAIN text : text[i] # V!Hyphen,
         NEW c, Columns(c, text), NEW edge \in Nat, edge > 8,
         NEW p \in Nat, p + 1 <= Len(text),
         NEW lines, NEW cw, NEW ls, NEW lc, Broken(text, c, edge, p, lines, cw, ls, lc)
  PROVE  \E l2, cw2, ls2, lc2 :
           /\ V!Turn(text, edge, State(lines, cw, ls, lc), p) = State(l2, cw2, ls2, lc2)
           /\ Broken(text, c, edge, p + 1, l2, cw2, ls2, lc2)
<1> DEFINE n == Len(text)  st == State(lines, cw, ls, lc)  r == V!Turn(text, edge, st, p)
           x == text[p + 1].cols
           w == cw + x
           sp == IF text[p + 1] = V!Space THEN p ELSE ls
<1>1. /\ st.lines = lines /\ st.cwidth = cw /\ st.lastSpace = ls /\ st.lastCut = lc
      /\ n \in Nat /\ p + 1 \in 1..n /\ (p + 1) - 1 = p /\ p \in 0..n /\ p + 1 \in 0..n /\ p \in 0..(p + 1)
  BY DEF State
<1>2. /\ lines \in Seq(Seq(Chars)) /\ Fit(lines, edge)
      /\ cw \in Nat /\ cw < edge /\ lc \in 0..p /\ ls \in Nat
      /\ cw <= c[p] - c[lc] /\ c[p] - c[lc] <= cw + 1
      /\ ls > lc => ls < p /\ text[ls + 1] = V!Space
      /\ Whole(Unwrap(lines)) = SubSeq(text, 1, lc)
      /\ Unwrap(lines) # <<>> /\ Last(Unwrap(lines)) = V!Hyphen => lc < p
  BY DEF Broken
<1>3. x \in 1..2 /\ c[p + 1] = c[p] + x /\ \A i \in 0..n : c[i] \in Nat
  <2>1. x \in 1..2
    BY <1>1 DEF Characters
  <2>2. c[p + 1] = c[p] + x
    BY <1>1 DEF Columns
  <2> QED BY <2>1, <2>2, ColumnsType
<1>n. cw \in Nat /\ cw < edge /\ lc \in 0..p /\ ls \in Nat /\ cw <= c[p] - c[lc] /\ c[p] - c[lc] <= cw + 1
  BY <1>2
<1>4. /\ lc \in Nat /\ lc <= p /\ lc \in 0..n /\ lc \in 0..(p + 1)
      /\ c[lc] \in Nat /\ c[p] \in Nat /\ c[p + 1] \in Nat
  <2>1. lc \in Nat /\ lc <= p /\ lc \in 0..n /\ lc \in 0..(p + 1)
    BY <1>1, <1>n
  <2> QED BY <1>1, <1>3, <2>1
<1>5. /\ w < edge => r = [st EXCEPT !.cwidth = w, !.lastSpace = sp]
      /\ ~(w < edge) /\ sp > lc =>
           r = State(Append(lines, SubSeq(text, lc + 1, sp)), V!width(SubSeq(text, sp + 1, p)), sp, sp + 1)
      /\ ~(w < edge) /\ ~(sp > lc) =>
           r = State(Append(lines, Append(SubSeq(text, lc + 1, p - 2), V!Hyphen)),
                     V!width(SubSeq(text, (p - 2) + 1, p)) + 1, sp, p - 2)
  BY <1>1 DEF V!Turn, V!Slice, State
<1>6. /\ sp \in Nat
      /\ sp > lc => sp <= p /\ text[sp + 1] = V!Space
  BY <1>2, <1>4
<1> HIDE DEF x, sp, r
<1> SUFFICES \E l2, cw2, ls2, lc2 : r = State(l2, cw2, ls2, lc2) /\ Broken(text, c, edge, p + 1, l2, cw2, ls2, lc2)
  BY DEF r
<1>7. CASE w < edge
  <2>1. r = State(lines, w, sp, lc)
    BY <1>5, <1>7 DEF State
  <2>2. Broken(text, c, edge, p + 1, lines, w, sp, lc)
    <3>1. w \in Nat /\ w <= c[p + 1] - c[lc] /\ c[p + 1] - c[lc] <= w + 1
      <4> DEFINE a == c[lc]  b == c[p]  d == c[p + 1]
      <4>1. a \in Nat /\ b \in Nat /\ d = b + x /\ x \in 1..2 /\ cw \in Nat /\ cw <= b - a /\ b - a <= cw + 1
        BY <1>n, <1>3, <1>4
      <4> HIDE DEF a, b, d
      <4>2. w \in Nat /\ w <= d - a /\ d - a <= w + 1
        BY <4>1
      <4> QED BY <4>2 DEF a, d
    <3>2. sp > lc => sp < p + 1 /\ text[sp + 1] = V!Space
      BY <1>6
    <3>3. lc < p + 1
      BY <1>4
    <3> QED BY <1>2, <1>4, <1>6, <1>7, <3>1, <3>2, <3>3 DEF Broken
  <2> QED BY <2>1, <2>2
<1>8. CASE ~(w < edge) /\ sp > lc
  <2> DEFINE l == SubSeq(text, lc + 1, sp)  cw2 == V!width(SubSeq(text, sp + 1, p))
  <2>1. r = State(Append(lines, l), cw2, sp, sp + 1)
    BY <1>5, <1>8
  <2>2. sp \in lc..n /\ sp \in 0..n /\ p \in sp..n /\ sp + 1 \in 1..n /\ sp <= p /\ sp + 1 \in 0..(p + 1) /\ sp > 0
    BY <1>1, <1>4, <1>6, <1>8
  <2>3. l \in Seq(Characters) /\ SubSeq(text, 1, lc) \o l = SubSeq(text, 1, sp)
        /\ SubSeq(text, 1, sp) # <<>> /\ Last(SubSeq(text, 1, sp)) = text[sp]
    BY <1>4, <2>2, PartsJoin
  <2>4. V!width(l) = c[sp] - c[lc] /\ cw2 = c[p] - c[sp]
    <3>1. V!width(l) = c[sp] - c[lc]
      BY <1>4, <2>2, WidthOfPart
    <3>2. cw2 = c[p] - c[sp]
      BY <2>2, WidthOfPart
    <3> QED BY <3>1, <3>2
  <2>5. /\ c[sp] \in Nat /\ c[sp] <= c[p] /\ sp - lc <= c[sp] - c[lc]
        /\ c[sp + 1] = c[sp] + 1 /\ c[sp + 1] <= c[p + 1]
    <3>1. c[sp] \in Nat /\ sp - lc <= c[sp] - c[lc]
      BY <1>4, <2>2, Nearby
    <3>2. c[sp] <= c[p] /\ c[sp + 1] <= c[p + 1]
      BY <1>1, <2>2, ColumnsGrow
    <3>3. c[sp + 1] = c[(sp + 1) - 1] + text[sp + 1].cols /\ (sp + 1) - 1 = sp
      BY <2>2 DEF Columns
    <3>4. text[sp + 1].cols = 1
      BY <1>6, <1>8 DEF V!Space, V!Char
    <3> QED BY <3>1, <3>2, <3>3, <3>4
  <2>n. cw2 \in Nat /\ cw2 < edge /\ cw2 <= c[p + 1] - c[sp + 1] /\ c[p + 1] - c[sp + 1] <= cw2 + 1
        /\ c[sp] - c[lc] <= edge
    <3> DEFINE a == c[lc]  b == c[p]  d == c[p + 1]  e == c[sp]  f == c[sp + 1]
    <3> HIDE DEF cw2, l
    <3>1. /\ a \in Nat /\ b \in Nat /\ d = b + x /\ x \in 1..2 /\ cw \in Nat /\ cw < edge
          /\ cw <= b - a /\ b - a <= cw + 1 /\ cw2 = b - e /\ e \in Nat /\ e <= b /\ sp - lc <= e - a
          /\ f = e + 1 /\ f <= d /\ sp \in Nat /\ lc \in Nat /\ sp > lc
      BY <1>n, <1>3, <1>4, <1>6, <1>8, <2>4, <2>5
    <3> HIDE DEF a, b, d, e, f
    <3>2. cw2 \in Nat /\ cw2 < edge /\ cw2 <= d - f /\ d - f <= cw2 + 1 /\ e - a <= edge
      BY <3>1
    <3> QED BY <3>2 DEF a, d, e, f
  <2>6. l \in Seq(Chars) /\ V!width(l) <= edge
    <3>1. l \in Seq(Chars)
      BY <2>3, CharsToo
    <3> HIDE DEF l
    <3> QED BY <2>4, <2>n, <3>1
  <2> HIDE DEF l, cw2
  <2>7. /\ Append(lines, l) \in Seq(Seq(Chars)) /\ Fit(Append(lines, l), edge)
        /\ Unwrap(Append(lines, l)) = SubSeq(text, 1, sp)
    <3>1. /\ Append(lines, l) \in Seq(Seq(Chars)) /\ Fit(Append(lines, l), edge)
          /\ Unwrap(Append(lines, l)) = SubSeq(text, 1, lc) \o l
      BY <1>2, <1>4, <2>2, <2>6, LineMore
    <3> QED BY <2>3, <3>1
  <2>8. Last(SubSeq(text, 1, sp)) # V!Hyphen
    <3>1. sp \in DOMAIN text
      BY <2>2
    <3> QED BY <2>3, <3>1
  <2>9. Append(SubSeq(text, 1, sp), V!Space) = SubSeq(text, 1, sp + 1)
    <3> DEFINE u == SubSeq(text, 1, sp)  v == SubSeq(text, 1, sp + 1)
    <3>1. u \in Seq(Characters) /\ Len(u) = sp /\ \A i \in 1..sp : u[i] = text[i]
      BY <2>2
    <3>2. v \in Seq(Characters) /\ Len(v) = sp + 1 /\ \A i \in 1..(sp + 1) : v[i] = text[i]
      BY <2>2
    <3> HIDE DEF u, v
    <3>3. u \in Seq(Chars) /\ v \in Seq(Chars) /\ V!Space \in Chars
      BY <3>1, <3>2, CharsToo DEF Chars
    <3>4. Append(u, V!Space) \in Seq(Chars) /\ Len(Append(u, V!Space)) = sp + 1
          /\ \A i \in 1..(sp + 1) : Append(u, V!Space)[i] = IF i <= sp THEN u[i] ELSE V!Space
      <4>1. /\ Append(u, V!Space) \in Seq(Chars) /\ Len(Append(u, V!Space)) = Len(u) + 1
            /\ \A i \in 1..(Len(u) + 1) : Append(u, V!Space)[i] = IF i <= Len(u) THEN u[i] ELSE V!Space
        <5> DEFINE y == V!Space
        <5>1. y \in Chars
          BY <3>3
        <5> HIDE DEF y
        <5>2. /\ Append(u, y) \in Seq(Chars) /\ Len(Append(u, y)) = Len(u) + 1
              /\ \A i \in 1..(Len(u) + 1) : Append(u, y)[i] = IF i <= Len(u) THEN u[i] ELSE y
          BY <3>3, <5>1
        <5> QED BY <5>2 DEF y
      <4>2. Len(u) = sp
        BY <3>1
      <4> QED BY <4>1, <4>2
    <3>5. \A i \in 1..(sp + 1) : Append(u, V!Space)[i] = v[i]
      <4>0. sp \in Nat
        BY <1>6
      <4>1. \A i \in 1..(sp + 1) : (i \in 1..sp /\ i <= sp) \/ (i = sp + 1 /\ ~(i <= sp))
        BY <4>0
      <4>2. text[sp + 1] = V!Space
        BY <1>6, <1>8
      <4> QED BY <3>1, <3>2, <3>4, <4>1, <4>2
    <3>6. Append(u, V!Space) = v
      BY <3>2, <3>3, <3>4, <3>5, SameSeq
    <3> QED BY <3>6 DEF u, v
  <2>10. Whole(Unwrap(Append(lines, l))) = SubSeq(text, 1, sp + 1)
    BY <2>3, <2>7, <2>8, <2>9 DEF Whole
  <2>11. ~(sp > sp + 1)
    BY <1>6
  <2>12. Last(SubSeq(text, 1, sp)) # V!Hyphen /\ Unwrap(Append(lines, l)) = SubSeq(text, 1, sp)
    BY <2>7, <2>8
  <2>13. Broken(text, c, edge, p + 1, Append(lines, l), cw2, sp, sp + 1)
    BY <1>6, <2>2, <2>n, <2>7, <2>10, <2>11, <2>12 DEF Broken
  <2> QED BY <2>1, <2>13
<1>9. CASE ~(w < edge) /\ ~(sp > lc)
  <2> DEFINE m == p - 2
             l0 == SubSeq(text, lc + 1, m)
             l  == Append(l0, V!Hyphen)
             cw2 == V!width(SubSeq(text, m + 1, p)) + 1
  <2>1. r = State(Append(lines, l), cw2, sp, m)
    BY <1>5, <1>9
  <2>2. m \in lc..n /\ m \in 0..n /\ p \in m..n /\ m \in 0..(p + 1) /\ m < p + 1 /\ m > lc /\ m \in Nat
    <3>1. p \in lc..n
      BY <1>1, <1>4
    <3>2. c[p] - c[lc] <= 2 * (p - lc)
      BY <1>4, <3>1, Nearby
    <3> DEFINE a == c[lc]  b == c[p]
    <3>3. /\ a \in Nat /\ b \in Nat /\ x \in 1..2 /\ cw \in Nat /\ ~(cw + x < edge) /\ cw <= b - a
          /\ b - a <= 2 * (p - lc) /\ lc \in Nat
      BY <1>n, <1>3, <1>4, <1>9, <3>2
    <3> HIDE DEF a, b
    <3>4. p - 2 > lc
      BY <3>3
    <3> QED BY <1>1, <1>4, <3>4
  <2>3. l0 \in Seq(Characters) /\ SubSeq(text, 1, lc) \o l0 = SubSeq(text, 1, m)
    BY <1>4, <2>2, PartsJoin
  <2>4. V!width(l0) = c[m] - c[lc] /\ cw2 = (c[p] - c[m]) + 1
    <3>1. V!width(l0) = c[m] - c[lc]
      BY <1>4, <2>2, WidthOfPart
    <3>2. V!width(SubSeq(text, m + 1, p)) = c[p] - c[m]
      BY <2>2, WidthOfPart
    <3> QED BY <3>1, <3>2
  <2>5. c[m] \in Nat /\ p - m <= c[p] - c[m] /\ c[p] - c[m] <= 2 * (p - m) /\ p - m = 2
    <3>1. c[m] \in Nat /\ p - m <= c[p] - c[m] /\ c[p] - c[m] <= 2 * (p - m)
      <4> HIDE DEF m
      <4> QED BY <2>2, Nearby
    <3> QED BY <1>1, <3>1
  <2>6. l0 \in Seq(Chars) /\ V!Hyphen \in Chars /\ V!Hyphen.cols = 1
    BY <2>3, CharsToo DEF Chars, V!Hyphen, V!Char
  <2>7. l \in Seq(Chars) /\ V!width(l) = (c[m] - c[lc]) + 1
    <3>1. l \in Seq(Chars)
      <4> DEFINE y == V!Hyphen
      <4>1. y \in Chars
        BY <2>6
      <4> HIDE DEF l0, y
      <4>2. Append(l0, y) \in Seq(Chars)
        BY <2>6, <4>1
      <4> QED BY <4>2 DEF y
    <3>2. V!width(l) = V!width(l0) + V!Hyphen.cols
      <4> HIDE DEF l0
      <4> QED BY <2>6, WidthOfMore
    <3> QED BY <2>4, <2>6, <3>1, <3>2
  <2> HIDE DEF l0, cw2, m
  <2>n. /\ cw2 \in Nat /\ cw2 < edge /\ cw2 <= c[p + 1] - c[m] /\ c[p + 1] - c[m] <= cw2 + 1
        /\ (c[m] - c[lc]) + 1 <= edge
    <3> DEFINE a == c[lc]  b == c[p]  d == c[p + 1]  e == c[m]
    <3>1. /\ a \in Nat /\ b \in Nat /\ d = b + x /\ x \in 1..2 /\ cw \in Nat /\ cw < edge
          /\ b - a <= cw + 1 /\ cw2 = (b - e) + 1 /\ e \in Nat /\ 2 <= b - e /\ b - e <= 4
      BY <1>n, <1>3, <1>4, <2>4, <2>5
    <3> HIDE DEF a, b, d, e
    <3>2. /\ cw2 \in Nat /\ cw2 < edge /\ cw2 <= d - e /\ d - e <= cw2 + 1 /\ (e - a) + 1 <= edge
      BY <3>1
    <3> QED BY <3>2 DEF a, d, e
  <2>8. V!width(l) <= edge
    <3> HIDE DEF l
    <3> QED BY <2>7, <2>n
  <2>9. /\ Append(lines, l) \in Seq(Seq(Chars)) /\ Fit(Append(lines, l), edge)
        /\ Unwrap(Append(lines, l)) = SubSeq(text, 1, lc) \o l
    <3> HIDE DEF l
    <3> QED BY <1>2, <1>4, <2>2, <2>7, <2>8, LineMore
  <2>10. /\ SubSeq(text, 1, lc) \o l = Append(SubSeq(text, 1, m), V!Hyphen)
         /\ SubSeq(text, 1, m) \in Seq(Chars)
    <3> DEFINE u == SubSeq(text, 1, lc)  y == V!Hyphen
    <3>1. u \in Seq(Chars) /\ y \in Chars
      <4>1. u \in Seq(Characters)
        BY <1>4, <2>2, PartsJoin
      <4> QED BY <2>6, <4>1, CharsToo
    <3>2. SubSeq(text, 1, m) \in Seq(Chars)
      <4>1. SubSeq(text, 1, m) \in Seq(Characters)
        BY <2>2
      <4> QED BY <4>1, CharsToo
    <3> HIDE DEF u, y
    <3>3. u \o Append(l0, y) = Append(u \o l0, y)
      BY <2>6, <3>1, MoreAfter
    <3> QED BY <2>3, <3>2, <3>3 DEF u, y
  <2> DEFINE t == Unwrap(Append(lines, l))
  <2>11. t = Append(SubSeq(text, 1, m), V!Hyphen)
    BY <2>9, <2>10
  <2>12. t # <<>> /\ Last(t) = V!Hyphen /\ Front(t) = SubSeq(text, 1, m)
    <3> DEFINE y == V!Hyphen  u == SubSeq(text, 1, m)
    <3>1. u \in Seq(Chars) /\ y \in Chars
      BY <2>6, <2>10
    <3> HIDE DEF u, y, t
    <3> QED BY <2>11, <3>1, LastIs DEF u, y
  <2>13. Whole(t) = SubSeq(text, 1, m)
    <3> HIDE DEF t
    <3> QED BY <2>12 DEF Whole
  <2>14. ~(sp > m)
    BY <1>4, <1>6, <1>9, <2>2
  <2>15. Broken(text, c, edge, p + 1, Append(lines, l), cw2, sp, m)
    <3> HIDE DEF l
    <3> QED BY <1>6, <2>2, <2>n, <2>9, <2>13, <2>14 DEF Broken
  <2> QED BY <2>1, <2>15
<1> QED BY <1>7, <1>8, <1>9

\* What holds when the loop is done.
LEMMA LoopBreaks ==
  ASSUME NEW text \in Seq(Characters), \A i \in DOMAIN text : text[i] # V!Hyphen,
         NEW c, Columns(c, text), NEW edge \in Nat, edge > 8
  PROVE  \E lines, cw, ls, lc :
           End(text, edge) = State(lines, cw, ls, lc) /\ Broken(text, c, edge, Len(text), lines, cw, ls, lc)
<1> DEFINE n == Len(text)
<1>1. PICK s : /\ s[0] = Start /\ End(text, edge) = s[n]
               /\ \A i \in 1..n : s[i] = V!Turn(text, edge, s[i - 1], i - 1)
  BY TurnsChain
<1> DEFINE Q(p) == p <= n => \E lines, cw, ls, lc :
                     s[p] = State(lines, cw, ls, lc) /\ Broken(text, c, edge, p, lines, cw, ls, lc)
           S == {p \in Nat : Q(p)}
<1>2. Q(0)
  <2>1. s[0] = State(<<>>, 0, 0, 0)
    BY <1>1 DEF Start
  <2>2. <<>> \in Seq(Seq(Chars)) /\ DOMAIN <<>> = {}
    OBVIOUS
  <2>3. Unwrap(<<>>) = <<>>
    <3>1. <<>> \in Seq(Chars)
      OBVIOUS
    <3> QED BY <2>2, <3>1, UnwrapMore
  <2>4. Whole(<<>>) = SubSeq(text, 1, 0)
    BY DEF Whole
  <2>5. c[0] = 0
    BY DEF Columns
  <2>6. Fit(<<>>, edge)
    BY <2>2 DEF Fit
  <2>7. Broken(text, c, edge, 0, <<>>, 0, 0, 0)
    BY <2>2, <2>3, <2>4, <2>5, <2>6 DEF Broken
  <2> QED BY <2>1, <2>7
<1>3. ASSUME NEW p \in Nat, Q(p)  PROVE Q(p + 1)
  <2> SUFFICES ASSUME p + 1 <= n
               PROVE  \E lines, cw, ls, lc :
                        s[p + 1] = State(lines, cw, ls, lc) /\ Broken(text, c, edge, p + 1, lines, cw, ls, lc)
    OBVIOUS
  <2>1. p <= n /\ p + 1 \in 1..n /\ (p + 1) - 1 = p
    OBVIOUS
  <2>2. PICK lines, cw, ls, lc : s[p] = State(lines, cw, ls, lc) /\ Broken(text, c, edge, p, lines, cw, ls, lc)
    BY <1>3, <2>1
  <2>3. s[p + 1] = V!Turn(text, edge, State(lines, cw, ls, lc), p)
    BY <1>1, <2>1, <2>2
  <2>4. \E l2, cw2, ls2, lc2 :
          /\ V!Turn(text, edge, State(lines, cw, ls, lc), p) = State(l2, cw2, ls2, lc2)
          /\ Broken(text, c, edge, p + 1, l2, cw2, ls2, lc2)
    BY <2>2, TurnBreaks
  <2> QED BY <2>3, <2>4
<1> HIDE DEF Q
<1>4. n \in S
  <2>1. 0 \in S /\ \A p \in Nat : p \in S => p + 1 \in S
    BY <1>2, <1>3
  <2>2. n \in Nat
    OBVIOUS
  <2> HIDE DEF S, n
  <2> QED BY <2>1, <2>2, Induction
<1>5. n <= n
  OBVIOUS
<1> QED BY <1>1, <1>4, <1>5 DEF Q

\* The text as far as a message's lines have it.
Told(t) == IF t # <<>> /\ Last(t) = V!Hyphen THEN Front(t) ELSE t

\* The lines after the loop, without a tail, have the text up to the last cut.
LEMMA WithoutTail ==
  ASSUME NEW text \in Seq(Characters), NEW t \in Seq(Chars), NEW a \in 0..Len(text),
         Whole(t) = SubSeq(text, 1, a),
         t # <<>> /\ Last(t) = V!Hyphen => a < Len(text)
  PROVE  /\ IsPrefix(Told(t), text)
         /\ a = Len(text) => SameText(t, text)
<1>1. SubSeq(text, 1, a) \in Seq(Characters) /\ Len(SubSeq(text, 1, a)) = a /\ \A i \in 1..a : SubSeq(text, 1, a)[i] = text[i]
  OBVIOUS
<1>2. a = Len(text) => SubSeq(text, 1, a) = text
  OBVIOUS
<1>p. ASSUME NEW b \in 0..Len(text)  PROVE IsPrefix(SubSeq(text, 1, b), text)
  BY DEF IsPrefix
<1>3. CASE t = <<>>
  <2>1. Told(t) = SubSeq(text, 1, 0)
    BY <1>3 DEF Told
  <2>2. IsPrefix(Told(t), text)
    BY <1>p, <2>1
  <2>3. a = Len(text) => t = text
    BY <1>2, <1>3 DEF Whole
  <2> QED BY <2>2, <2>3 DEF SameText
<1>4. CASE t # <<>> /\ Last(t) = V!Hyphen
  <2>1. Told(t) = SubSeq(text, 1, a) /\ a # Len(text)
    BY <1>4 DEF Told, Whole
  <2> QED BY <1>p, <2>1
<1>5. CASE t # <<>> /\ Last(t) # V!Hyphen
  <2> DEFINE y == V!Space  u == SubSeq(text, 1, a)  n == Len(t)
  <2>1. Told(t) = t /\ Append(t, y) = u /\ y \in Chars
    BY <1>5 DEF Told, Whole, Chars
  <2> HIDE DEF y, u
  <2>2. n \in Nat /\ Len(u) = n + 1 /\ \A i \in 1..n : u[i] = t[i]
    BY <2>1
  <2>3. a = n + 1 /\ \A i \in 1..n : t[i] = text[i]
    BY <1>1, <2>2 DEF u
  <2>4. t = SubSeq(text, 1, n)
    <3> DEFINE v == SubSeq(text, 1, n)
    <3>1. n \in 0..Len(text)
      BY <2>2, <2>3
    <3>2. v \in Seq(Characters) /\ Len(v) = n /\ \A i \in 1..n : v[i] = text[i]
      BY <3>1
    <3> HIDE DEF v
    <3>3. v \in Seq(Chars)
      BY <3>2, CharsToo
    <3>4. t = v
      BY <2>3, <3>2, <3>3, SameSeq
    <3> QED BY <3>4 DEF v
  <2>5. IsPrefix(t, text)
    <3>1. n \in 0..Len(text)
      BY <2>2, <2>3
    <3>2. IsPrefix(SubSeq(text, 1, n), text)
      <4> HIDE DEF n
      <4> QED BY <1>p, <3>1
    <3> QED BY <2>4, <3>2
  <2>6. a = Len(text) => Append(t, V!Space) = text
    BY <1>2, <2>1 DEF y, u
  <2> QED BY <2>1, <2>5, <2>6 DEF SameText
<1> QED BY <1>3, <1>4, <1>5

\* Lines that fit beside the margin.
LEMMA FitsAll ==
  ASSUME NEW lines \in Seq(Seq(Chars)), NEW edge \in Nat, Fit(lines, edge),
         NEW w \in Nat, NEW m \in Nat, edge + m <= w
  PROVE  \A i \in DOMAIN lines : m + V!width(lines[i]) <= w
<1> TAKE i \in DOMAIN lines
<1>1. lines[i] \in Seq(Chars) /\ V!Space \in Chars
  BY DEF Chars
<1>2. V!width(lines[i]) \in Nat
  BY <1>1, WidthOfMore
<1>3. V!width(lines[i]) <= edge
  BY DEF Fit
<1> QED BY <1>2, <1>3

\* What a broken message comes to.
LEMMA BrokenLines ==
  ASSUME NEW text \in Seq(Characters), \A i \in DOMAIN text : text[i] # V!Hyphen,
         NEW w \in Nat, NEW meta \in Nat
  PROVE  LET lines == V!logs(text, w, meta) IN
         /\ Len(lines) > 1 => \A i \in DOMAIN lines : V!Margin(meta) + V!width(lines[i]) <= w
         /\ \/ SameText(Unwrap(lines), text)
            \/ (\E i \in DOMAIN text : text[i].bytes > 1) /\ IsPrefix(Told(Unwrap(lines)), text)
<1> DEFINE n == Len(text)  edge == V!maxw(w, meta)  end == End(text, edge)
           r == V!logs(text, w, meta)
           wide == V!width(text)
           tail == SubSeq(text, end.lastCut + 1, n)
<1>1. r = IF V!Margin(meta) + wide <= w \/ edge <= 8
          THEN <<text>>
          ELSE end.lines \o IF V!HasTail(text, end.lastCut) THEN <<tail>> ELSE <<>>
  BY DEF V!logs, End
<1>2. /\ edge \in Int /\ V!Margin(meta) \in Nat
      /\ edge + V!Margin(meta) <= w
  BY DEF V!maxw, V!Margin
<1>3. n \in Nat /\ text \in Seq(Chars)
  BY CharsToo
<1> HIDE DEF r, edge
<1> SUFFICES /\ Len(r) > 1 => \A i \in DOMAIN r : V!Margin(meta) + V!width(r[i]) <= w
             /\ \/ SameText(Unwrap(r), text)
                \/ (\E i \in DOMAIN text : text[i].bytes > 1) /\ IsPrefix(Told(Unwrap(r)), text)
  BY DEF r
<1>4. CASE V!Margin(meta) + wide <= w \/ edge <= 8
  <2>1. r = <<text>> /\ Len(r) = 1
    BY <1>1, <1>4
  <2>2. Unwrap(<<text>>) = text
    <3>1. <<>> \in Seq(Seq(Chars)) /\ Append(<<>>, text) = <<text>>
      OBVIOUS
    <3>2. Unwrap(<<>>) = <<>> /\ Unwrap(Append(<<>>, text)) = Whole(Unwrap(<<>>)) \o text
      BY <1>3, <3>1, UnwrapMore
    <3>3. Whole(<<>>) = <<>> /\ <<>> \o text = text
      BY DEF Whole
    <3> QED BY <3>1, <3>2, <3>3
  <2> QED BY <2>1, <2>2 DEF SameText
<1>5. CASE ~(V!Margin(meta) + wide <= w \/ edge <= 8)
  <2>1. edge \in Nat /\ edge > 8
    BY <1>2, <1>5
  <2>2. PICK c : Columns(c, text) /\ wide = c[n]
    BY <1>3, WidthChain
  <2>3. PICK lines, cw, ls, lc : end = State(lines, cw, ls, lc) /\ Broken(text, c, edge, n, lines, cw, ls, lc)
    BY <2>1, <2>2, LoopBreaks
  <2>4. end.lines = lines /\ end.lastCut = lc
    BY <2>3 DEF State
  <2>5. /\ lines \in Seq(Seq(Chars)) /\ Fit(lines, edge) /\ cw \in Nat /\ cw < edge /\ lc \in 0..n
        /\ c[n] - c[lc] <= cw + 1 /\ Whole(Unwrap(lines)) = SubSeq(text, 1, lc)
        /\ Unwrap(lines) # <<>> /\ Last(Unwrap(lines)) = V!Hyphen => lc < n
    BY <2>3 DEF Broken
  <2> HIDE DEF end
  <2>6. CASE V!HasTail(text, lc)
    <3> DEFINE l == SubSeq(text, lc + 1, n)
    <3>1. r = lines \o <<l>>
      BY <1>1, <1>5, <2>4, <2>6
    <3>2. n \in lc..n /\ n \in 0..n
      BY <1>3, <2>5
    <3>3. l \in Seq(Chars) /\ V!width(l) = c[n] - c[lc]
      <4>1. l \in Seq(Characters)
        BY <2>5, <3>2, PartIs
      <4>2. V!width(l) = c[n] - c[lc]
        BY <2>2, <2>5, <3>2, WidthOfPart
      <4> QED BY <4>1, <4>2, CharsToo
    <3>4. c[n] \in Nat /\ c[lc] \in Nat
      BY <2>2, <2>5, <3>2, ColumnsType
    <3>5. SubSeq(text, 1, lc) \o l = text
      BY <2>5, CutInTwo
    <3> HIDE DEF l
    <3>6. V!width(l) <= edge
      <4> DEFINE a == c[lc]  b == c[n]
      <4>1. a \in Nat /\ b \in Nat /\ b - a <= cw + 1 /\ cw \in Nat /\ cw < edge
        BY <2>5, <3>4
      <4> HIDE DEF a, b
      <4>2. b - a <= edge
        BY <2>1, <4>1
      <4> QED BY <3>3, <4>2 DEF a, b
    <3>7. lines \o <<l>> = Append(lines, l)
      BY <2>5, <3>3
    <3>8. /\ Append(lines, l) \in Seq(Seq(Chars)) /\ Fit(Append(lines, l), edge)
          /\ Unwrap(Append(lines, l)) = SubSeq(text, 1, lc) \o l
      BY <2>1, <2>5, <3>2, <3>3, <3>6, LineMore
    <3>9. r = Append(lines, l)
      BY <3>1, <3>7
    <3>10. r \in Seq(Seq(Chars)) /\ Fit(r, edge) /\ Unwrap(r) = text
      BY <3>5, <3>8, <3>9
    <3>11. \A i \in DOMAIN r : V!Margin(meta) + V!width(r[i]) <= w
      BY <1>2, <2>1, <3>10, FitsAll
    <3> QED BY <3>10, <3>11 DEF SameText
  <2>7. CASE ~V!HasTail(text, lc)
    <3>1. r = lines
      <4>1. r = lines \o <<>>
        BY <1>1, <1>5, <2>4, <2>7
      <4>2. lines \o <<>> = lines
        BY <2>5
      <4> QED BY <4>1, <4>2
    <3>2. \A i \in DOMAIN r : V!Margin(meta) + V!width(r[i]) <= w
      BY <1>2, <2>1, <2>5, <3>1, FitsAll
    <3>3. Unwrap(r) \in Seq(Chars)
      <4>1. <<>> \in Seq(Chars)
        OBVIOUS
      <4> QED BY <2>5, <3>1, <4>1, UnwrapMore
    <3>4. IsPrefix(Told(Unwrap(r)), text) /\ (lc = n => SameText(Unwrap(r), text))
      BY <2>5, <3>1, <3>3, WithoutTail
    <3>5. CASE \E i \in DOMAIN text : text[i].bytes > 1
      BY <3>2, <3>4, <3>5
    <3>6. CASE ~\E i \in DOMAIN text : text[i].bytes > 1
      <4>1. \A i \in DOMAIN text : text[i].bytes = 1
        BY <3>6 DEF Characters
      <4> DEFINE u == SubSeq(text, 1, lc)
      <4>2. u \in Seq(Characters) /\ Len(u) = lc /\ DOMAIN u = 1..lc /\ \A i \in 1..lc : u[i] = text[i]
        BY <2>5
      <4>3. DOMAIN text = 1..n /\ \A i \in 1..lc : i \in 1..n
        BY <1>3, <2>5
      <4>4. \A i \in DOMAIN u : u[i].bytes = 1
        BY <4>1, <4>2, <4>3
      <4>5. V!ByteLen(u) = lc
        <5> HIDE DEF u
        <5> QED BY <4>2, <4>4, SingleBytes
      <4>6. wide = n
        BY <4>1, SingleBytes
      <4>7. ~(lc < n)
        BY <2>7, <4>5, <4>6 DEF V!HasTail
      <4>8. lc = n
        BY <1>3, <2>5, <4>7
      <4> QED BY <3>2, <3>4, <4>8
    <3> QED BY <3>5, <3>6
  <2> QED BY <2>6, <2>7
<1> QED BY <1>4, <1>5

\* LinesKeepText for every message, width and meta column: each line that a
\* message is broken into fits the terminal, and the lines have all the text,
\* but for a tail where characters take several bytes (term.go, logs).
THEOREM LinesAlwaysKeepText == Spec => []LinesKeepText
<1>1. Init => LinesKeepText
  <2> SUFFICES ASSUME Init, case.kind = "wrap"  PROVE LinesKeepText
    BY DEF LinesKeepText
  <2>1. case \in Wraps
    BY InputsAssumption, StreamsAssumption, HandoversAssumption, ShakesAssumption,
       CompletionsAssumption, GamesAssumption DEF Init, ChatCases
  <2>2. /\ case.w \in Nat /\ case.meta \in Nat
        /\ case.text \in Seq(Characters) /\ \A i \in DOMAIN case.text : case.text[i] # V!Hyphen
    BY <2>1, WrapsAssumption
  <2> DEFINE lines == V!logs(case.text, case.w, case.meta)
  <2>3. /\ Len(lines) > 1 => \A i \in DOMAIN lines : V!Margin(case.meta) + V!width(lines[i]) <= case.w
        /\ \/ SameText(Unwrap(lines), case.text)
           \/ (\E i \in DOMAIN case.text : case.text[i].bytes > 1) /\ IsPrefix(Told(Unwrap(lines)), case.text)
    BY <2>2, BrokenLines
  <2> HIDE DEF lines
  <2>4. \A t : Told(t) = IF t # <<>> /\ Last(t) = V!Hyphen THEN Front(t) ELSE t
    BY DEF Told
  <2> QED BY <2>3, <2>4 DEF LinesKeepText, lines
<1>2. Init /\ [Next]_case => Init'
  BY DEF Next, Init
<1> QED BY <1>1, <1>2, PTL DEF Spec

-----------------------------------------------------------------------------
(* Completion *)

LEMMA PrefixIs ==
  ASSUME NEW S, NEW s \in Seq(S), NEW t \in Seq(S)
  PROVE  /\ IsPrefix(s, t) <=> Len(s) <= Len(t) /\ \A i \in 1..Len(s) : s[i] = t[i]
         /\ C!IsPrefix(s, t) <=> IsPrefix(s, t)
<1>1. ASSUME Len(s) <= Len(t), \A i \in 1..Len(s) : s[i] = t[i]
      PROVE  SubSeq(s, 1, Len(s)) = SubSeq(t, 1, Len(s))
  BY <1>1
<1>2. ASSUME Len(s) <= Len(t), SubSeq(s, 1, Len(s)) = SubSeq(t, 1, Len(s)), NEW i \in 1..Len(s)
      PROVE  s[i] = t[i]
  <2>1. SubSeq(s, 1, Len(s))[i] = s[i] /\ SubSeq(t, 1, Len(s))[i] = t[i]
    BY <1>2
  <2> QED BY <1>2, <2>1
<1> QED BY <1>1, <1>2 DEF IsPrefix, C!IsPrefix

\* Beginnings of one sequence: the shorter begins the longer.
LEMMA PrefixesOfOne ==
  ASSUME NEW S, NEW s \in Seq(S), NEW t \in Seq(S), NEW u \in Seq(S),
         IsPrefix(s, u), IsPrefix(t, u), Len(s) <= Len(t)
  PROVE  IsPrefix(s, t)
<1>1. ASSUME NEW i \in 1..Len(s)  PROVE s[i] = t[i]
  <2>1. i \in 1..Len(t)
    OBVIOUS
  <2> QED BY <2>1, PrefixIs
<1> QED BY <1>1, PrefixIs

\* What several sequences share.
LEMMA CommonIs ==
  ASSUME NEW S, NEW T \in SUBSET Seq(S), T # {}
  PROVE  /\ C!CommonPrefixes(T) = {p \in Seq(S) : \A t \in T : IsPrefix(p, t)}
         /\ C!LongestCommonPrefix(T) \in C!CommonPrefixes(T)
         /\ \A p \in C!CommonPrefixes(T) : Len(p) <= Len(C!LongestCommonPrefix(T))
<1> DEFINE P == {p \in Seq(S) : \A t \in T : IsPrefix(p, t)}
           Longest(p) == p \in C!CommonPrefixes(T) /\ \A q \in C!CommonPrefixes(T) : Len(q) <= Len(p)
<1>1. PICK u : u \in T
  OBVIOUS
<1>2. ASSUME NEW p \in P  PROVE p \in C!CommonPrefixes(T)
  <2>1. IsPrefix(p, u) /\ Len(p) \in 0..Len(u) /\ u \in Seq(S) /\ p \in Seq(S)
    BY <1>1, PrefixIs
  <2>2. p = SubSeq(u, 1, Len(p))
    BY <2>1 DEF IsPrefix
  <2>3. p \in C!Prefixes(u)
    BY <2>1, <2>2 DEF C!Prefixes
  <2>4. \A t \in T : C!IsPrefix(p, t)
    BY <2>1, PrefixIs
  <2> QED BY <1>1, <2>3, <2>4 DEF C!CommonPrefixes
<1>3. ASSUME NEW p \in C!CommonPrefixes(T)  PROVE p \in P
  <2>1. PICK t \in T : p \in C!Prefixes(t)
    BY DEF C!CommonPrefixes
  <2>2. t \in Seq(S)
    OBVIOUS
  <2>3. PICK l \in 0..Len(t) : p = SubSeq(t, 1, l)
    BY <2>1 DEF C!Prefixes
  <2>4. p \in Seq(S)
    BY <2>2, <2>3
  <2>5. \A x \in T : C!IsPrefix(p, x)
    BY DEF C!CommonPrefixes
  <2> QED BY <2>4, <2>5, PrefixIs
<1>4. C!CommonPrefixes(T) = P
  BY <1>2, <1>3
<1>5. \E p : Longest(p)
  <2> DEFINE N == {Len(u) - Len(p) : p \in P}
  <2>1. \A p \in P : Len(p) \in 0..Len(u)
    BY <1>1, PrefixIs
  <2>2. <<>> \in P
    <3>1. <<>> \in Seq(S) /\ \A t \in T : IsPrefix(<<>>, t)
      <4>1. ASSUME NEW t \in T  PROVE IsPrefix(<<>>, t)
        <5>1. t \in Seq(S) /\ <<>> \in Seq(S) /\ Len(<<>>) = 0 /\ Len(t) \in Nat
          OBVIOUS
        <5>2. Len(<<>>) <= Len(t) /\ \A i \in 1..Len(<<>>) : <<>>[i] = t[i]
          BY <5>1
        <5> HIDE DEF P, Longest
        <5> QED BY <5>1, <5>2, PrefixIs
      <4> QED BY <4>1
    <3> QED BY <3>1
  <2>3. u \in Seq(S) /\ Len(u) \in Nat
    BY <1>1
  <2> HIDE DEF P
  <2>4. N \in SUBSET Nat /\ N # {}
    BY <2>1, <2>2, <2>3
  <2>5. PICK n \in N : \A m \in N : n <= m
    <3> HIDE DEF N
    <3> QED BY <2>4, LeastOf
  <2>6. PICK p \in P : n = Len(u) - Len(p)
    OBVIOUS
  <2>7. ASSUME NEW q \in P  PROVE Len(q) <= Len(p)
    <3>1. Len(u) - Len(p) <= Len(u) - Len(q)
      BY <2>5, <2>6
    <3> QED BY <2>1, <2>3, <3>1
  <2> QED BY <1>4, <2>7
<1>6. C!LongestCommonPrefix(T) = CHOOSE p : Longest(p)
  BY DEF C!LongestCommonPrefix
<1>7. Longest(C!LongestCommonPrefix(T))
  <2> HIDE DEF Longest
  <2> QED BY <1>5, <1>6
<1> QED BY <1>4, <1>7

LEMMA LastBlankIs ==
  ASSUME NEW input \in Seq(Letters)
  PROVE  C!LastBlank(input) \in 0..Len(input)
<1> DEFINE S == {0} \cup {i \in DOMAIN input : input[i] = C!Blank}
<1>1. S \in SUBSET (0..Len(input)) /\ S # {} /\ Len(input) \in Nat
  OBVIOUS
<1>2. Max(S) \in S
  <2> HIDE DEF S
  <2> QED BY <1>1, MaxOf
<1>3. C!LastBlank(input) = Max(S)
  BY DEF C!LastBlank, C!Max, Max
<1> HIDE DEF S
<1> QED BY <1>1, <1>2, <1>3

LEMMA Completes ==
  ASSUME NEW input \in Seq(Letters), NEW prefix \in Seq(Letters), NEW list \in Seq(Seq(Letters)),
         NEW excludes, C!complete(input, prefix, list, excludes) # <<>>
  PROVE  LET new   == C!complete(input, prefix, list, excludes)
             found == C!Found(input, prefix, list, excludes)
             word  == SubSeq(new, Len(C!Before(input)) + Len(prefix) + 1, Len(new))
         IN  /\ IsPrefix(input, new)
             /\ \A i \in found : IsPrefix(word, Append(list[i], C!Blank))
             /\ (\A i \in found : C!Blank \notin Range(list[i])) =>
                  (Last(new) = C!Blank <=> Cardinality(found) = 1)
<1> DEFINE new    == C!complete(input, prefix, list, excludes)
           found  == C!Found(input, prefix, list, excludes)
           before == C!Before(input)
           last   == C!LastWord(input)
           match  == C!Match(list, found)
           one    == Cardinality(found) = 1
           All    == Letters \cup {C!Blank}
           rest   == SubSeq(last, Len(prefix) + 1, Len(last))
           T      == {list[i] : i \in found}
<1>1. found # {} /\ match # <<>> /\ new = before \o prefix \o match \o (IF one THEN <<C!Blank>> ELSE <<>>)
  <2>1. new = IF found = {} \/ match = <<>> THEN <<>>
              ELSE before \o prefix \o match \o (IF one THEN <<C!Blank>> ELSE <<>>)
    <3>1. C!Cardinality(found) = Cardinality(found)
      BY DEF C!Cardinality, Cardinality
    <3> QED BY <3>1 DEF C!complete
  <2> HIDE DEF new, found, match, before
  <2>2. new # <<>>
    BY DEF new
  <2> QED BY <2>1, <2>2
<1>2. /\ found = {i \in DOMAIN list : list[i] \notin excludes /\ C!IsPrefix(rest, list[i])}
      /\ C!IsPrefix(prefix, last)
  BY <1>1 DEF C!Found
<1>3. /\ before \in Seq(Letters) /\ last \in Seq(Letters)
      /\ input = before \o last
  <2>1. C!LastBlank(input) \in 0..Len(input)
    BY LastBlankIs
  <2> DEFINE l == C!LastBlank(input)
  <2>2. before = SubSeq(input, 1, l) /\ last = SubSeq(input, l + 1, Len(input))
    BY Zenon DEF C!Before, C!LastWord
  <2>3. l \in 0..Len(input)
    BY <2>1
  <2> HIDE DEF l, before, last
  <2>4. /\ SubSeq(input, 1, l) \in Seq(Letters) /\ SubSeq(input, l + 1, Len(input)) \in Seq(Letters)
        /\ SubSeq(input, 1, l) \o SubSeq(input, l + 1, Len(input)) = SubSeq(input, 1, Len(input))
        /\ SubSeq(input, 1, Len(input)) = input
    <3>1. 0 \in 0..Len(input) /\ l \in 0..Len(input) /\ Len(input) \in l..Len(input) /\ 0 + 1 = 1
      BY <2>3
    <3>2. SubSeq(input, 0 + 1, l) \in Seq(Letters)
      BY <3>1, PartIs
    <3>3. SubSeq(input, l + 1, Len(input)) \in Seq(Letters)
      BY <3>1, PartIs
    <3>4. SubSeq(input, 1, l) \o SubSeq(input, l + 1, Len(input)) = input
      BY <3>1, CutInTwo
    <3>5. SubSeq(input, 1, Len(input)) = input
      BY SubSeqFull
    <3> QED BY <3>1, <3>2, <3>3, <3>4, <3>5
  <2> QED BY <2>2, <2>4
<1>4. C!IsPrefix(prefix, last) <=> IsPrefix(prefix, last)
  BY <1>3, PrefixIs
<1>5. /\ Len(prefix) <= Len(last) /\ \A i \in 1..Len(prefix) : prefix[i] = last[i]
      /\ rest \in Seq(Letters)
  <2> HIDE DEF last
  <2> QED BY <1>2, <1>3, <1>4, PrefixIs
<1>6. T \in SUBSET Seq(Letters) /\ T # {} /\ \A i \in found : list[i] \in T
  <2>1. \A i \in found : list[i] \in Seq(Letters)
    <3> HIDE DEF rest, found
    <3> QED BY <1>2
  <2> HIDE DEF found
  <2> QED BY <1>1, <2>1
<1>7. match = C!LongestCommonPrefix(T)
  BY DEF C!Match
<1>8. /\ match \in Seq(Letters)
      /\ \A t \in T : IsPrefix(match, t)
      /\ \A p \in Seq(Letters) : (\A t \in T : IsPrefix(p, t)) => Len(p) <= Len(match)
  <2> HIDE DEF T, match
  <2>1. C!CommonPrefixes(T) = {p \in Seq(Letters) : \A t \in T : IsPrefix(p, t)}
    BY <1>6, CommonIs
  <2>2. match \in C!CommonPrefixes(T) /\ \A p \in C!CommonPrefixes(T) : Len(p) <= Len(match)
    BY <1>6, <1>7, CommonIs
  <2> QED BY <2>1, <2>2
<1> HIDE DEF found, before, last, match, T, rest, new
<1>9. IsPrefix(rest, match)
  <2>1. ASSUME NEW t \in T  PROVE IsPrefix(rest, t)
    <3>1. PICK i \in found : t = list[i]
      BY DEF T
    <3>2. C!IsPrefix(rest, t) /\ t \in Seq(Letters)
      BY <1>2, <1>6, <3>1
    <3> QED BY <1>5, <3>2, PrefixIs
  <2>2. Len(rest) <= Len(match)
    BY <1>5, <1>8, <2>1
  <2>3. PICK t \in T : TRUE
    BY <1>6
  <2>4. IsPrefix(rest, t) /\ IsPrefix(match, t) /\ t \in Seq(Letters)
    BY <1>6, <1>8, <2>1, <2>3
  <2> QED BY <1>5, <1>8, <2>2, <2>4, PrefixesOfOne
<1> DEFINE end == IF one THEN <<C!Blank>> ELSE <<>>
           start == before \o prefix
<1>10. /\ new \in Seq(All) /\ new = start \o match \o end /\ start \in Seq(All) /\ match \in Seq(All)
       /\ end \in Seq(All) /\ Len(end) = (IF one THEN 1 ELSE 0) /\ (one => end[1] = C!Blank)
  <2>1. before \in Seq(All) /\ prefix \in Seq(All) /\ match \in Seq(All)
    BY <1>3, <1>8
  <2>2. end \in Seq(All) /\ Len(end) = (IF one THEN 1 ELSE 0) /\ (one => end[1] = C!Blank)
    <3> DEFINE x == C!Blank
    <3>1. x \in All
      OBVIOUS
    <3> HIDE DEF x, All
    <3>2. <<x>> \in Seq(All) /\ Len(<<x>>) = 1 /\ <<x>>[1] = x /\ <<>> \in Seq(All) /\ Len(<<>>) = 0
      BY <3>1
    <3>3. end = IF one THEN <<x>> ELSE <<>>
      BY DEF x
    <3> HIDE DEF end
    <3>4. CASE one
      BY <3>2, <3>3, <3>4 DEF x
    <3>5. CASE ~one
      BY <3>2, <3>3, <3>5
    <3> QED BY <3>4, <3>5
  <2> HIDE DEF end, All
  <2>3. start \in Seq(All)
    BY <2>1
  <2>4. new = start \o match \o end
    BY <1>1 DEF end
  <2> HIDE DEF start
  <2>5. start \o match \in Seq(All)
    BY <2>1, <2>3
  <2> QED BY <2>1, <2>2, <2>3, <2>4, <2>5
<1> DEFINE b == Len(before)  p == Len(prefix)  m == Len(match)
<1>11. b \in Nat /\ p \in Nat /\ m \in Nat \ {0}
  BY <1>1, <1>3, <1>8
<1>12. /\ Len(new) = b + p + m + (IF one THEN 1 ELSE 0)
       /\ \A i \in 1..b : new[i] = before[i]
       /\ \A i \in 1..p : new[b + i] = prefix[i]
       /\ \A i \in 1..m : new[b + p + i] = match[i]
       /\ one => new[b + p + m + 1] = C!Blank
  <2>1. Len(start) = b + p /\ (\A i \in 1..b : start[i] = before[i]) /\ \A i \in 1..p : start[b + i] = prefix[i]
    BY <1>3, ConcatIs
  <2> HIDE DEF start, end, All
  <2> DEFINE x == start \o match
  <2>2. /\ x \in Seq(All) /\ Len(x) = b + p + m /\ (\A i \in 1..(b + p) : x[i] = start[i])
        /\ \A i \in 1..m : x[b + p + i] = match[i]
    <3>1. /\ x \in Seq(All) /\ Len(x) = Len(start) + m /\ (\A i \in 1..Len(start) : x[i] = start[i])
          /\ \A i \in 1..m : x[Len(start) + i] = match[i]
      BY <1>10, ConcatIs
    <3> HIDE DEF x
    <3> QED BY <2>1, <3>1
  <2>3. new = x \o end
    BY <1>10
  <2> HIDE DEF x
  <2>4. /\ Len(new) = Len(x) + Len(end) /\ \A i \in 1..Len(x) : new[i] = x[i]
        /\ \A i \in 1..Len(end) : new[Len(x) + i] = end[i]
    <3>1. x \in Seq(All) /\ end \in Seq(All)
      BY <1>10, <2>2
    <3>2. /\ Len(x \o end) = Len(x) + Len(end) /\ \A i \in 1..Len(x) : (x \o end)[i] = x[i]
          /\ \A i \in 1..Len(end) : (x \o end)[Len(x) + i] = end[i]
      BY <3>1, ConcatIs
    <3> QED BY <2>3, <3>2
  <2>5. one => new[b + p + m + 1] = C!Blank
    BY <1>10, <1>11, <2>2, <2>4
  <2>6. \A i \in 1..b : new[i] = before[i]
    BY <1>11, <2>1, <2>2, <2>4
  <2>7. ASSUME NEW i \in 1..p  PROVE new[b + i] = prefix[i]
    <3>1. b + i \in 1..(b + p) /\ b + i \in 1..Len(x)
      BY <1>11, <2>2
    <3> QED BY <2>1, <2>2, <2>4, <3>1
  <2>8. ASSUME NEW i \in 1..m  PROVE new[b + p + i] = match[i]
    <3>1. b + p + i \in 1..Len(x)
      BY <1>11, <2>2
    <3> QED BY <2>2, <2>4, <3>1
  <2> QED BY <1>10, <2>2, <2>4, <2>5, <2>6, <2>7, <2>8
<1> HIDE DEF start, end
<1>13. IsPrefix(input, new)
  <2>1. Len(input) = b + p + Len(rest) /\ Len(rest) <= m /\ \A i \in 1..Len(rest) : rest[i] = match[i]
    <3>1. Len(rest) <= m /\ \A i \in 1..Len(rest) : rest[i] = match[i]
      BY <1>5, <1>8, <1>9, PrefixIs
    <3>2. Len(input) = b + Len(last) /\ Len(rest) = Len(last) - p
      BY <1>3, <1>5 DEF rest
    <3> QED BY <1>3, <1>5, <1>11, <3>1, <3>2
  <2>2. /\ \A i \in 1..b : input[i] = before[i]
        /\ \A i \in 1..p : input[b + i] = last[i]
        /\ \A i \in 1..Len(rest) : input[b + p + i] = last[p + i] /\ rest[i] = last[p + i]
    <3>1. Len(rest) = Len(last) - p /\ \A i \in 1..Len(rest) : rest[i] = last[p + i]
      <4>1. p \in 0..Len(last) /\ Len(last) \in p..Len(last)
        BY <1>3, <1>5, <1>11
      <4>2. /\ Len(SubSeq(last, p + 1, Len(last))) = Len(last) - p
            /\ \A i \in 1..(Len(last) - p) : SubSeq(last, p + 1, Len(last))[i] = last[p + i]
        BY <1>3, <4>1, PartIs
      <4> QED BY <4>2 DEF rest
    <3>2. Len(input) = b + Len(last) /\ (\A i \in 1..b : input[i] = before[i]) /\ \A i \in 1..Len(last) : input[b + i] = last[i]
      BY <1>3, ConcatIs
    <3>3. ASSUME NEW i \in 1..Len(rest)  PROVE input[b + p + i] = last[p + i]
      <4>1. p + i \in 1..Len(last) /\ b + (p + i) = b + p + i
        BY <1>3, <1>5, <1>11, <3>1
      <4> QED BY <3>2, <4>1
    <3>4. \A i \in 1..p : i \in 1..Len(last)
      BY <1>3, <1>5, <1>11
    <3> QED BY <3>1, <3>2, <3>3, <3>4
  <2>3. ASSUME NEW i \in 1..Len(input)  PROVE input[i] = new[i]
    <3>1. CASE i <= b
      BY <1>11, <1>12, <2>2, <3>1
    <3>2. CASE i > b /\ i <= b + p
      <4>1. i - b \in 1..p /\ b + (i - b) = i
        BY <1>11, <3>2
      <4> QED BY <1>5, <1>12, <2>2, <4>1
    <3>3. CASE i > b + p
      <4>1. i - b - p \in 1..Len(rest) /\ b + p + (i - b - p) = i /\ i - b - p \in 1..m
        BY <1>5, <1>11, <2>1, <3>3
      <4> QED BY <1>12, <2>1, <2>2, <4>1
    <3> QED BY <1>11, <3>1, <3>2, <3>3
  <2>4. Len(input) <= Len(new)
    BY <1>5, <1>11, <1>12, <2>1
  <2>5. input \in Seq(All)
    OBVIOUS
  <2> HIDE DEF All
  <2> QED BY <1>10, <2>3, <2>4, <2>5, PrefixIs
<1> DEFINE word == SubSeq(new, b + p + 1, Len(new))
<1>14. /\ word \in Seq(All) /\ Len(word) = m + (IF one THEN 1 ELSE 0)
       /\ \A i \in 1..m : word[i] = match[i]
       /\ one => word[m + 1] = C!Blank
  <2> HIDE DEF All
  <2>1. Len(new) \in Nat /\ b + p + 1 \in 1..(Len(new) + 1)
    BY <1>10, <1>11, <1>12
  <2>2. word \in Seq(All) /\ Len(word) = Len(new) - (b + p)
        /\ \A i \in 1..(Len(new) - (b + p)) : word[i] = new[(b + p) + i]
    <3>1. b + p \in 0..Len(new) /\ Len(new) \in (b + p)..Len(new)
      BY <1>11, <2>1, <1>12
    <3> DEFINE q == b + p  l == Len(new)
    <3>2. q \in 0..Len(new) /\ l \in q..Len(new) /\ new \in Seq(All)
      BY <1>10, <3>1
    <3> HIDE DEF q, l
    <3>3. /\ SubSeq(new, q + 1, l) \in Seq(All) /\ Len(SubSeq(new, q + 1, l)) = l - q
          /\ \A i \in 1..(l - q) : SubSeq(new, q + 1, l)[i] = new[q + i]
      BY <3>2, PartIs
    <3> QED BY <3>3 DEF q, l, word
  <2> HIDE DEF word
  <2>3. \A i \in 1..m : i \in 1..(Len(new) - (b + p)) /\ (b + p) + i = b + p + i
    BY <1>11, <1>12
  <2>4. one => m + 1 \in 1..(Len(new) - (b + p)) /\ (b + p) + (m + 1) = b + p + m + 1
    BY <1>11, <1>12
  <2> QED BY <1>11, <1>12, <2>2, <2>3, <2>4
<1>15. ASSUME NEW i \in found
       PROVE  /\ list[i] \in Seq(Letters) /\ m <= Len(list[i]) /\ \A j \in 1..m : match[j] = list[i][j]
              /\ one => m = Len(list[i])
  <2>1. list[i] \in T /\ list[i] \in Seq(Letters)
    BY <1>6
  <2>2. m <= Len(list[i]) /\ \A j \in 1..m : match[j] = list[i][j]
    BY <1>8, <2>1, PrefixIs
  <2>3. ASSUME one  PROVE m = Len(list[i])
    <3>1. IsFiniteSet(found)
      <4>1. found \in SUBSET (1..Len(list))
        BY <1>2
      <4>2. IsFiniteSet(1..Len(list))
        BY FS_Interval
      <4> QED BY <4>1, <4>2, FS_Subset
    <3>2. found = {i}
      BY <2>3, <3>1, FS_Singleton
    <3>3. T = {list[i]}
      BY <3>2 DEF T
    <3>4. IsPrefix(list[i], list[i])
      BY <2>1, PrefixIs
    <3>5. Len(list[i]) <= m
      BY <1>8, <2>1, <3>3, <3>4
    <3> QED BY <1>11, <2>1, <2>2, <3>5
  <2> QED BY <2>1, <2>2, <2>3
<1> HIDE DEF word
<1>16. ASSUME NEW i \in found  PROVE IsPrefix(word, Append(list[i], C!Blank))
  <2> DEFINE t == Append(list[i], C!Blank)
  <2>1. t \in Seq(All) /\ Len(t) = Len(list[i]) + 1 /\ (\A j \in 1..Len(list[i]) : t[j] = list[i][j])
        /\ t[Len(list[i]) + 1] = C!Blank
    BY <1>15
  <2> HIDE DEF t
  <2>2. Len(word) <= Len(t)
    BY <1>11, <1>14, <1>15, <2>1
  <2>3. ASSUME NEW j \in 1..Len(word)  PROVE word[j] = t[j]
    <3>1. CASE j <= m
      <4>1. j \in 1..m /\ j \in 1..Len(list[i])
        BY <1>11, <1>15, <3>1
      <4> QED BY <1>14, <1>15, <2>1, <4>1
    <3>2. CASE j > m
      <4>1. one /\ j = m + 1
        BY <1>11, <1>14, <3>2
      <4> QED BY <1>14, <1>15, <2>1, <4>1
    <3> QED BY <1>11, <3>1, <3>2
  <2> HIDE DEF All
  <2>4. IsPrefix(word, t)
    BY <1>14, <2>1, <2>2, <2>3, PrefixIs
  <2> QED BY <2>4 DEF t
<1>17. ASSUME \A i \in found : C!Blank \notin Range(list[i])
       PROVE  Last(new) = C!Blank <=> one
  <2>1. CASE one
    BY <1>11, <1>12, <2>1 DEF Last
  <2>2. CASE ~one
    <3>1. Last(new) = match[m]
      BY <1>11, <1>12, <2>2 DEF Last
    <3>2. PICK i : i \in found
      BY <1>1
    <3>3. m \in DOMAIN list[i] /\ match[m] = list[i][m]
      BY <1>11, <1>15, <3>2
    <3>4. match[m] \in Range(list[i])
      BY <3>3 DEF Range
    <3> QED BY <1>17, <2>2, <3>1, <3>2, <3>4
  <2> QED BY <2>1, <2>2
<1> QED BY <1>13, <1>16, <1>17 DEF word, new, found, before

\* CompletesWhatWasTyped for every input: completing goes on from what is
\* typed with what all the names meant share (completion.go).
THEOREM CompletionGoesOn == Spec => []CompletesWhatWasTyped
<1>1. Init => CompletesWhatWasTyped
  <2> SUFFICES ASSUME Init, case.kind = "complete"  PROVE CompletesWhatWasTyped
    BY DEF CompletesWhatWasTyped
  <2>1. case \in Completions
    BY WrapsAssumption, InputsAssumption, StreamsAssumption, HandoversAssumption, ShakesAssumption,
       GamesAssumption DEF Init, ChatCases
  <2>2. case.input \in Seq(Letters) /\ case.prefix \in Seq(Letters) /\ case.list \in Seq(Seq(Letters))
    BY <2>1, CompletionsAssumption
  <2> QED BY <2>2, Completes DEF CompletesWhatWasTyped
<1>2. CompletesWhatWasTyped /\ [Next]_case => CompletesWhatWasTyped'
  BY DEF Next, CompletesWhatWasTyped
<1> QED BY <1>1, <1>2, PTL DEF Spec

-----------------------------------------------------------------------------
(* Whom a message reaches, for any names (module ChatRouting).             *)

\* What is left of a batch for n: its entries that are for n, in their order.
LEMMA EntriesAre ==
  ASSUME NEW n, NEW es, DOMAIN es \in {1..1, 1..2}
  PROVE  LET one == CheckName(es[1], n)
             two == 2 \in DOMAIN es /\ CheckName(es[2], n)
         IN  EntriesFor(n, es) = CASE one /\ two -> <<es[1], es[2]>>
                                   [] one /\ ~two -> <<es[1]>>
                                   [] ~one /\ two -> <<es[2]>>
                                   [] ~one /\ ~two -> <<>>
<1> DEFINE one == CheckName(es[1], n)
           two == 2 \in DOMAIN es /\ CheckName(es[2], n)
           p == IF one THEN <<es[1]>> ELSE <<>>
           q == IF two THEN <<es[2]>> ELSE <<>>
<1>1. EntriesFor(n, es) = p \o q
  <2>1. 1 \in DOMAIN es
    OBVIOUS
  <2> QED BY <2>1 DEF EntriesFor
<1>2. ASSUME NEW a, NEW b
      PROVE  <<a>> \o <<b>> = <<a, b>> /\ <<a>> \o <<>> = <<a>> /\ <<>> \o <<a>> = <<a>>
  <2>1. <<a>> \in Seq({a, b})
    OBVIOUS
  <2>2. <<a>> \o <<b>> = Append(<<a>>, b)
    BY <2>1, AppendIsConcat
  <2>3. Append(<<a>>, b) = <<a, b>>
    <3> DEFINE s == Append(<<a>>, b)
               t == <<a, b>>
    <3>1. Len(<<a>>) = 1 /\ <<a>>[1] = a /\ t \in Seq({a, b}) /\ Len(t) = 2 /\ t[1] = a /\ t[2] = b
      OBVIOUS
    <3>2. s \in Seq({a, b}) /\ Len(s) = 2 /\ s[1] = a /\ s[2] = b
      BY <2>1, <3>1, AppendProperties
    <3> HIDE DEF s, t
    <3>3. \A i \in 1..Len(s) : s[i] = t[i]
      BY <3>1, <3>2
    <3>4. s = t
      BY <3>1, <3>2, <3>3, SeqEqual
    <3> QED BY <3>4 DEF s, t
  <2>4. <<a>> \o <<>> = <<a>> /\ <<>> \o <<a>> = <<a>>
    BY <2>1, ConcatEmptySeq
  <2> QED BY <2>2, <2>3, <2>4
<1>3. <<>> \o <<>> = <<>>
  OBVIOUS
<1> HIDE DEF one, two
<1>4. p \o q = CASE one /\ two -> <<es[1], es[2]>>
                 [] one /\ ~two -> <<es[1]>>
                 [] ~one /\ two -> <<es[2]>>
                 [] ~one /\ ~two -> <<>>
  BY <1>2, <1>3
<1> QED BY <1>1, <1>4 DEF one, two

\* The flags of a batch's first entry.
Raised(notify, bot, m) ==
  (notify \cup (IF bot THEN {"never"} ELSE {}))
    \cup (IF ~IsSilent(m) /\ (m.at # None \/ MentionNames(m) # {} \/ IsShout(m)) THEN {"personal"} ELSE {})

\* It is the one for clients called n.
Foremost(n, from, m) ==
  IF IsSilent(m) THEN n = from
  ELSE IF m.at # None THEN n = m.at
  ELSE MentionNames(m) # {} => n \in MentionNames(m)

\* The batch of a message, with its first and its second entry.
LEMMA BatchEntries ==
  ASSUME NEW notify, NEW from, NEW bot, NEW m
  PROVE  LET es    == Batch(notify, from, bot, m)
             named == MentionNames(m)
         IN  /\ DOMAIN es \in {1..1, 1..2}
             /\ \A i \in DOMAIN es :
                  /\ es[i].pm = m.at /\ es[i].shout = IsShout(m)
                  /\ notify \subseteq es[i].notify
                  /\ bot = TRUE \/ i = 2 => "never" \in es[i].notify
             /\ \A n : CheckName(es[1], n) <=> Foremost(n, from, m)
             /\ \A n : 2 \in DOMAIN es /\ CheckName(es[2], n) <=>
                  /\ ~IsSilent(m)
                  /\ IF m.at # None THEN n = from ELSE named # {} /\ n \notin named
<1> DEFINE es == Batch(notify, from, bot, m)
           fs == Filters(from, m)
           named == MentionNames(m)
<1>1. /\ DOMAIN es = DOMAIN fs
      /\ \A i \in DOMAIN fs :
           /\ es[i].to = fs[i].to /\ es[i].notTo = fs[i].notTo
           /\ es[i].notify = (notify \cup (IF bot THEN {"never"} ELSE {})) \cup fs[i].flags
           /\ es[i].pm = m.at /\ es[i].shout = IsShout(m)
  BY DEF Batch
<1> HIDE DEF es, fs, named
<1>2. /\ DOMAIN fs \in {1..1, 1..2}
      /\ 2 \in DOMAIN fs => "never" \in fs[2].flags
      /\ \A n : (n \notin fs[1].notTo /\ (fs[1].to = {} \/ n \in fs[1].to)) <=>
           Foremost(n, from, m)
      /\ \A n : 2 \in DOMAIN fs /\ (n \notin fs[2].notTo /\ (fs[2].to = {} \/ n \in fs[2].to)) <=>
           /\ ~IsSilent(m)
           /\ IF m.at # None THEN n = from ELSE named # {} /\ n \notin named
  <2>1. CASE IsSilent(m)
    <3>1. fs = << Filter({from}, {}, {}) >>
      BY <2>1 DEF fs, Filters
    <3> QED BY <2>1, <3>1 DEF Filter, Foremost, named
  <2>2. CASE ~IsSilent(m) /\ m.at # None
    <3>1. fs = << Filter({m.at}, {}, {"personal"}), Filter({from}, {}, {"never"}) >>
      BY <2>2 DEF fs, Filters
    <3> QED BY <2>2, <3>1 DEF Filter, Foremost, named
  <2>3. CASE ~IsSilent(m) /\ m.at = None /\ named # {}
    <3>1. fs = << Filter(named, {}, {"personal"}), Filter({}, named, {"never"}) >>
      BY <2>3 DEF fs, named, Filters
    <3> QED BY <2>3, <3>1 DEF Filter, Foremost, named
  <2>4. CASE ~IsSilent(m) /\ m.at = None /\ named = {}
    <3>1. fs = << Filter({}, {}, IF IsShout(m) THEN {"personal"} ELSE {}) >>
      BY <2>4 DEF fs, named, Filters
    <3> QED BY <2>4, <3>1 DEF Filter, Foremost, named
  <2> QED BY <2>1, <2>2, <2>3, <2>4
<1>3. 1 \in DOMAIN fs
  BY <1>2
<1>4. \A n : CheckName(es[1], n) <=> n \notin fs[1].notTo /\ (fs[1].to = {} \/ n \in fs[1].to)
  BY <1>1, <1>3 DEF CheckName
<1>5. \A n : 2 \in DOMAIN fs => (CheckName(es[2], n) <=> n \notin fs[2].notTo /\ (fs[2].to = {} \/ n \in fs[2].to))
  BY <1>1 DEF CheckName
<1>6. \A i \in DOMAIN es :
        /\ es[i].pm = m.at /\ es[i].shout = IsShout(m)
        /\ notify \subseteq es[i].notify
        /\ bot = TRUE \/ i = 2 => "never" \in es[i].notify
  BY <1>1, <1>2
<1> QED BY <1>1, <1>2, <1>4, <1>5, <1>6 DEF es, named

LEMMA FirstEntry ==
  ASSUME NEW notify, NEW from, NEW bot, NEW m
  PROVE  Batch(notify, from, bot, m)[1].notify = Raised(notify, bot, m)
<1> DEFINE fs == Filters(from, m)
<1>1. 1 \in DOMAIN fs /\ fs[1].flags = IF ~IsSilent(m) /\ (m.at # None \/ MentionNames(m) # {} \/ IsShout(m))
                                      THEN {"personal"} ELSE {}
  BY DEF Filters, Filter, IsSilent, IsShout
<1> HIDE DEF fs
<1>2. Batch(notify, from, bot, m)[1].notify = (notify \cup (IF bot THEN {"never"} ELSE {})) \cup fs[1].flags
  BY <1>1 DEF Batch, fs
<1> QED BY <1>1, <1>2 DEF Raised

\* What clients called n get of a message, live or replayed.
Share(s, notify, n, from, bot, m) ==
  /\ s \in Seq(Range(s)) /\ DOMAIN s = 1..Len(s)
  /\ Len(s) = IF n \notin Audience(from, m) THEN 0 ELSE IF m.at = from THEN 2 ELSE 1
  /\ \A i \in DOMAIN s :
       /\ s[i].pm = m.at /\ s[i].shout = IsShout(m)
       /\ notify \subseteq s[i].notify
       /\ bot = TRUE \/ i = 2 => "never" \in s[i].notify
       /\ ~Foremost(n, from, m) => "never" \in s[i].notify
  /\ Foremost(n, from, m) => Len(s) >= 1 /\ s[1].notify = Raised(notify, bot, m)

LEMMA SharesAre ==
  ASSUME NEW notify, NEW n \in Names, NEW from \in Names, NEW bot, NEW m \in Message
  PROVE  Share(EntriesFor(n, Batch(notify, from, bot, m)), notify, n, from, bot, m)
<1> DEFINE es == Batch(notify, from, bot, m)
           s == EntriesFor(n, es)
           named == MentionNames(m)
           one == CheckName(es[1], n)
           two == 2 \in DOMAIN es /\ CheckName(es[2], n)
           Like(x, i) == /\ x.pm = m.at /\ x.shout = IsShout(m)
                         /\ notify \subseteq x.notify
                         /\ bot = TRUE \/ i = 2 => "never" \in x.notify
<1>1. /\ DOMAIN es \in {1..1, 1..2}
      /\ \A i \in DOMAIN es : Like(es[i], i)
      /\ es[1].notify = Raised(notify, bot, m)
      /\ one <=> Foremost(n, from, m)
      /\ two <=> ~IsSilent(m) /\ IF m.at # None THEN n = from ELSE named # {} /\ n \notin named
  <2>1. /\ DOMAIN es \in {1..1, 1..2}
        /\ \A i \in DOMAIN es : Like(es[i], i)
    BY BatchEntries
  <2>2. es[1].notify = Raised(notify, bot, m)
    BY FirstEntry
  <2>3. one <=> Foremost(n, from, m)
    BY BatchEntries
  <2>4. two <=> ~IsSilent(m) /\ IF m.at # None THEN n = from ELSE named # {} /\ n \notin named
    BY BatchEntries
  <2> QED BY <2>1, <2>2, <2>3, <2>4
<1>2. 1 \in DOMAIN es /\ (two => 2 \in DOMAIN es)
  <2>1. 1 \in DOMAIN es
    BY <1>1
  <2>2. two => 2 \in DOMAIN es
    OBVIOUS
  <2> QED BY <2>1, <2>2
<1>3. s = CASE one /\ two -> <<es[1], es[2]>> [] one /\ ~two -> <<es[1]>>
            [] ~one /\ two -> <<es[2]>> [] ~one /\ ~two -> <<>>
  BY <1>1, EntriesAre
<1>4. None # from /\ (IsSilent(m) => m.at = None)
  BY RoutingAssumption DEF Message, IsSilent
<1>5. n \in Audience(from, m) <=> one \/ two
  BY <1>1, <1>4 DEF Audience, Foremost
<1>6. one /\ two => m.at = from
  BY <1>1, <1>4 DEF Foremost
<1>7. m.at = from => (one <=> two)
  BY <1>1, <1>4 DEF Foremost
<1> HIDE DEF es, s, one, two, Like
<1>8. /\ s \in Seq(Range(s)) /\ DOMAIN s = 1..Len(s)
      /\ Len(s) = IF ~(one \/ two) THEN 0 ELSE IF one /\ two THEN 2 ELSE 1
      /\ \A i \in DOMAIN s : s[i] = es[1] \/ (two /\ s[i] = es[2])
      /\ one /\ two => s[1] = es[1] /\ s[2] = es[2]
      /\ one => s[1] = es[1]
      /\ ~one => \A i \in DOMAIN s : two /\ s[i] = es[2]
  <2>1. CASE one /\ two
    BY <1>3, <2>1 DEF Range
  <2>2. CASE one /\ ~two
    BY <1>3, <2>2 DEF Range
  <2>3. CASE ~one /\ two
    BY <1>3, <2>3 DEF Range
  <2>4. CASE ~one /\ ~two
    BY <1>3, <2>4 DEF Range
  <2> QED BY <2>1, <2>2, <2>3, <2>4
<1>9. ASSUME NEW i \in DOMAIN s
      PROVE  /\ s[i].pm = m.at /\ s[i].shout = IsShout(m)
             /\ notify \subseteq s[i].notify
             /\ bot = TRUE \/ i = 2 => "never" \in s[i].notify
             /\ ~Foremost(n, from, m) => "never" \in s[i].notify
  <2>1. two => "never" \in es[2].notify
    BY <1>1, <1>2 DEF Like
  <2>2. i = 2 => s[i] = es[2] /\ two
    BY <1>8, <1>9
  <2> QED BY <1>1, <1>2, <1>8, <1>9, <2>1, <2>2 DEF Like
<1> HIDE DEF named
<1>10. Len(s) = IF n \notin Audience(from, m) THEN 0 ELSE IF m.at = from THEN 2 ELSE 1
  BY <1>5, <1>6, <1>7, <1>8
<1>11. Foremost(n, from, m) => Len(s) >= 1 /\ s[1].notify = Raised(notify, bot, m)
  BY <1>1, <1>8
<1>12. Share(s, notify, n, from, bot, m)
  BY <1>8, <1>9, <1>10, <1>11 DEF Share
<1> QED BY <1>12 DEF s, es

\* Whoever may see a message gets it once, and twice only what he writes to
\* himself; a replay shows the same (batch and FromHistory of chat.go).
THEOREM CopiesAreRight ==
  ASSUME NEW from \in Names, NEW bot, NEW m \in Message
  PROVE  OneCopyEach(from, bot, m) /\ ReplayAsLive(from, bot, m)
<1>1. ASSUME NEW n \in Names
      PROVE  /\ Share(Live(n, from, bot, m), {}, n, from, bot, m)
             /\ Share(FromHistory(n, from, bot, m), {"never"}, n, from, bot, m)
  BY SharesAre DEF Live, FromHistory
<1>2. OneCopyEach(from, bot, m)
  BY <1>1 DEF OneCopyEach, Share
<1>3. ASSUME NEW n \in Names
      PROVE  Looks(FromHistory(n, from, bot, m)) = Looks(Live(n, from, bot, m))
  <2> DEFINE s == FromHistory(n, from, bot, m)
             t == Live(n, from, bot, m)
  <2> HIDE DEF s, t
  <2>1. Share(s, {"never"}, n, from, bot, m) /\ Share(t, {}, n, from, bot, m)
    BY <1>1 DEF s, t
  <2>2. /\ DOMAIN s = DOMAIN t
        /\ \A i \in DOMAIN s : s[i].pm = t[i].pm /\ s[i].shout = t[i].shout
    BY <2>1 DEF Share
  <2>3. Looks(s) = Looks(t)
    BY <2>2 DEF Looks
  <2> QED BY <2>3 DEF s, t
<1> QED BY <1>2, <1>3 DEF ReplayAsLive

\* A client is notified of what is addressed to it, of shouts and, if it wants
\* to, of all that is said to everybody, once, in the mode "default" of nothing
\* else, and never of what a bot says or a replay shows (batch of chat.go, main
\* of cmd/client/client.go). The client's own name is any.
THEOREM NotifiesOfNews ==
  ASSUME NEW from \in Names, NEW bot \in BOOLEAN, NEW m \in Message
  PROVE  NotifiedOfNews(from, bot, m)
<1> SUFFICES
      ASSUME NEW n \in Names, NEW mine \in Names, NEW when \in {"default", "always"}
      PROVE  LET live == Live(n, from, bot, m)
                 old  == FromHistory(n, from, bot, m)
                 loud == {i \in DOMAIN live : Notifies(live[i], from, mine, when)}
             IN  /\ Cardinality(loud) <= 1
                 /\ bot \/ (n = from /\ mine = n) => loud = {}
                 /\ ~bot /\ mine # from /\ News(n, from, m, when) => loud # {}
                 /\ when = "default" /\ loud # {} => News(n, from, m, when)
                 /\ \A i \in DOMAIN old : ~Notifies(old[i], from, mine, when)
  BY DEF NotifiedOfNews
<1> DEFINE live == Live(n, from, bot, m)
           old  == FromHistory(n, from, bot, m)
           loud == {i \in DOMAIN live : Notifies(live[i], from, mine, when)}
           named == MentionNames(m)
<1>1. /\ Share(live, {}, n, from, bot, m)
      /\ Share(old, {"never"}, n, from, bot, m)
  BY SharesAre DEF Live, FromHistory
<1>2. /\ None # from /\ None # n /\ (IsSilent(m) => m.at = None /\ ~IsShout(m))
      /\ m.at \in Names \cup {None} /\ named \subseteq Names
  BY RoutingAssumption DEF Message, IsSilent, IsShout, MentionNames
<1> HIDE DEF live, old, named
<1>3. \A i \in DOMAIN old : "never" \in old[i].notify
  BY <1>1 DEF Share
<1>4. \A i \in DOMAIN old : ~Notifies(old[i], from, mine, when)
  BY <1>3 DEF Notifies
<1>5. /\ DOMAIN live = 1..Len(live) /\ Len(live) \in {0, 1, 2}
      /\ n \notin Audience(from, m) => Len(live) = 0
      /\ \A i \in DOMAIN live : bot = TRUE \/ i = 2 => "never" \in live[i].notify
      /\ ~Foremost(n, from, m) => \A i \in DOMAIN live : "never" \in live[i].notify
      /\ Foremost(n, from, m) => Len(live) >= 1 /\ live[1].notify = Raised({}, bot, m)
  BY <1>1 DEF Share
<1>6. loud # {} => loud = {1} /\ Foremost(n, from, m)
  BY <1>5 DEF Notifies
<1>7. Cardinality(loud) <= 1
  <2> HIDE DEF loud
  <2>1. loud = {} \/ loud = {1}
    BY <1>6
  <2>2. Cardinality({}) = 0 /\ Cardinality({1}) = 1
    BY FS_EmptySet, FS_Singleton
  <2> QED BY <2>1, <2>2
<1>8. bot \/ (n = from /\ mine = n) => loud = {}
  BY <1>5 DEF Notifies
\* Whose first entry it is: those addressed, or everybody if nobody is.
<1>9. /\ Addressed(n, m) => Foremost(n, from, m) /\ ~IsSilent(m) /\ (m.at # None \/ named # {})
      /\ (\A k \in Names : ~Addressed(k, m)) => IsSilent(m) \/ (m.at = None /\ named = {})
      /\ Foremost(n, from, m) => \/ Addressed(n, m)
                                 \/ IsSilent(m) /\ n = from
                                 \/ ~IsSilent(m) /\ m.at = None /\ named = {}
  BY <1>2 DEF Addressed, Foremost, named
<1>10. n \in Audience(from, m) /\ (\A k \in Names : ~Addressed(k, m)) => Foremost(n, from, m)
  BY <1>2, <1>9 DEF Audience, Foremost, named
<1>11. ASSUME ~bot, mine # from, News(n, from, m, when)  PROVE loud # {}
  <2>1. Foremost(n, from, m) /\ (when = "default" => ~IsSilent(m) /\ (m.at # None \/ named # {} \/ IsShout(m)))
    BY <1>2, <1>9, <1>10, <1>11 DEF News
  <2>2. 1 \in DOMAIN live /\ live[1].notify = Raised({}, bot, m)
    BY <1>5, <2>1
  <2>3. "never" \notin live[1].notify /\ (when = "default" => "personal" \in live[1].notify)
    BY <1>11, <2>1, <2>2 DEF Raised, named
  <2> QED BY <1>11, <2>2, <2>3 DEF Notifies
<1>12. ASSUME when = "default", loud # {}  PROVE News(n, from, m, when)
  <2>1. Foremost(n, from, m) /\ 1 \in DOMAIN live /\ "personal" \in live[1].notify
    BY <1>6, <1>12 DEF Notifies
  <2>2. ~IsSilent(m) /\ (m.at # None \/ named # {} \/ IsShout(m))
    BY <1>5, <2>1 DEF Raised, named
  <2>3. CASE Addressed(n, m)
    BY <2>3 DEF News
  <2>4. CASE m.at = None /\ named = {} /\ IsShout(m)
    <3>1. n \in Audience(from, m) /\ \A k \in Names : ~Addressed(k, m)
      BY <2>2, <2>4 DEF Audience, Addressed, named
    <3> QED BY <2>4, <3>1 DEF News
  <2> QED BY <1>9, <2>1, <2>2, <2>3, <2>4
<1> QED BY <1>4, <1>7, <1>8, <1>11, <1>12 DEF live, old

\* RightCopies for every message and any names.
THEOREM CopiesAreAlwaysRight == Spec => []RightCopies
<1>1. Init => RightCopies
  <2> SUFFICES ASSUME Init, case.kind = "chat"  PROVE RightCopies
    BY DEF RightCopies
  <2>1. case \in ChatCases
    BY WrapsAssumption, InputsAssumption, StreamsAssumption, HandoversAssumption, ShakesAssumption,
       CompletionsAssumption, GamesAssumption DEF Init
  <2>2. case.from \in Names /\ case.msg \in Message
    BY <2>1 DEF ChatCases
  <2> QED BY <2>2, CopiesAreRight DEF RightCopies
<1>2. RightCopies /\ [Next]_case => RightCopies'
  BY DEF Next, RightCopies
<1> QED BY <1>1, <1>2, PTL DEF Spec

\* RightNotifications for every message and any names.
THEOREM AlwaysRightNotifications == Spec => []RightNotifications
<1>1. Init => RightNotifications
  <2> SUFFICES ASSUME Init, case.kind = "chat"  PROVE RightNotifications
    BY DEF RightNotifications
  <2>1. case \in ChatCases
    BY WrapsAssumption, InputsAssumption, StreamsAssumption, HandoversAssumption, ShakesAssumption,
       CompletionsAssumption, GamesAssumption DEF Init
  <2>2. case.from \in Names /\ case.bot \in BOOLEAN /\ case.msg \in Message
    BY <2>1 DEF ChatCases
  <2> QED BY <2>2, NotifiesOfNews DEF RightNotifications
<1>2. RightNotifications /\ [Next]_case => RightNotifications'
  BY DEF Next, RightNotifications
<1> QED BY <1>1, <1>2, PTL DEF Spec

-----------------------------------------------------------------------------
(* The handshake *)

\* What comes in order has come up to any earlier message.
LEMMA CameIs ==
  ASSUME NEW n \in 0..8
  PROVE  /\ H!Came(n, "server key") <=> n >= 2
         /\ H!Came(n, "test") <=> n >= 4
         /\ H!Came(n, "identify") <=> n >= 6
         /\ H!Came(n, "status") <=> n >= 7
         /\ H!Came(n, "identity") <=> n >= 8
<1> DEFINE S == H!Steps
<1>1. /\ S[1] = "proto" /\ S[2] = "server key" /\ S[3] = "client key" /\ S[4] = "test"
      /\ S[5] = "echo" /\ S[6] = "identify" /\ S[7] = "status" /\ S[8] = "identity"
  BY DEF H!Steps
<1> HIDE DEF S
<1>2. \A i \in 1..n : i \in {1, 2, 3, 4, 5, 6, 7, 8}
  OBVIOUS
<1>3. \A i \in 1..n : /\ S[i] = "server key" <=> i = 2
                      /\ S[i] = "test" <=> i = 4
                      /\ S[i] = "identify" <=> i = 6
                      /\ S[i] = "status" <=> i = 7
                      /\ S[i] = "identity" <=> i = 8
  BY <1>1, <1>2
<1>4. /\ (\E i \in 1..n : S[i] = "server key") <=> 2 \in 1..n
      /\ (\E i \in 1..n : S[i] = "test") <=> 4 \in 1..n
      /\ (\E i \in 1..n : S[i] = "identify") <=> 6 \in 1..n
      /\ (\E i \in 1..n : S[i] = "status") <=> 7 \in 1..n
      /\ (\E i \in 1..n : S[i] = "identity") <=> 8 \in 1..n
  <2>1. (\E i \in 1..n : S[i] = "server key") <=> 2 \in 1..n
    BY <1>3
  <2>2. (\E i \in 1..n : S[i] = "test") <=> 4 \in 1..n
    BY <1>3
  <2>3. (\E i \in 1..n : S[i] = "identify") <=> 6 \in 1..n
    BY <1>3
  <2>4. (\E i \in 1..n : S[i] = "status") <=> 7 \in 1..n
    BY <1>3
  <2>5. (\E i \in 1..n : S[i] = "identity") <=> 8 \in 1..n
    BY <1>3
  <2> QED BY <2>1, <2>2, <2>3, <2>4, <2>5, Zenon
<1>5. /\ 2 \in 1..n <=> n >= 2
      /\ 4 \in 1..n <=> n >= 4
      /\ 6 \in 1..n <=> n >= 6
      /\ 7 \in 1..n <=> n >= 7
      /\ 8 \in 1..n <=> n >= 8
  OBVIOUS
<1>6. /\ (\E i \in 1..n : S[i] = "server key") <=> n >= 2
      /\ (\E i \in 1..n : S[i] = "test") <=> n >= 4
      /\ (\E i \in 1..n : S[i] = "identify") <=> n >= 6
      /\ (\E i \in 1..n : S[i] = "status") <=> n >= 7
      /\ (\E i \in 1..n : S[i] = "identity") <=> n >= 8
  BY <1>4, <1>5, Zenon
<1> QED BY <1>6, Zenon DEF H!Came, S

\* The verdict names who is accepted, and says why nobody else is.
LEMMA VerdictIs ==
  ASSUME NEW srv, NEW cl
  PROVE  LET s      == H!newClient(srv, cl)
             forced == H!Known(srv, cl.key)
             open   == srv.policy = "world"
         IN  /\ s.code \in {"OK", "NOK", "NotAllowed", "UpdateClient"}
             /\ s.code # "OK" => s.name = H!Nobody
             /\ s.code = "OK" => /\ s.name = IF srv.policy = "fixed" THEN forced ELSE cl.name
                                 /\ s.name # ""
             /\ s.code = "NotAllowed" => ~open /\ forced = ""
             /\ (open \/ forced \notin {"", "error"}) /\ cl.channels \subseteq Channels /\ cl.version # Version
                  => s.code = "UpdateClient"
<1> DEFINE forced == H!Known(srv, cl.key)
           open == srv.policy = "world"
           may == open \/ forced \notin {"", "error"}
           known == cl.channels \subseteq Channels
           name == IF srv.policy = "fixed" THEN forced ELSE cl.name
           s == H!newClient(srv, cl)
           Wanted == /\ s.code \in {"OK", "NOK", "NotAllowed", "UpdateClient"}
                     /\ s.code # "OK" => s.name = H!Nobody
                     /\ s.code = "OK" => s.name = name /\ name # ""
                     /\ s.code = "NotAllowed" => ~open /\ forced = ""
                     /\ may /\ known /\ cl.version # Version => s.code = "UpdateClient"
<1>1. s = IF ~open /\ forced = "error" THEN H!Status("NOK", H!Nobody)
          ELSE IF ~open /\ forced = "" THEN H!Status("NotAllowed", H!Nobody)
          ELSE IF ~known THEN H!Status("NOK", H!Nobody)
          ELSE IF cl.version # Version THEN H!Status("UpdateClient", H!Nobody)
          ELSE IF name = "" THEN H!Status("NOK", H!Nobody)
          ELSE H!Status("OK", name)
  BY DEF H!newClient
<1>2. \A code, who : H!Status(code, who).code = code /\ H!Status(code, who).name = who
  BY DEF H!Status
<1> SUFFICES Wanted
  OBVIOUS
<1> HIDE DEF s, forced, open, known, name, Wanted
<1>3. CASE ~open /\ forced = "error"
  <2>1. s.code = "NOK" /\ s.name = H!Nobody
    BY <1>1, <1>2, <1>3
  <2> QED BY <1>3, <2>1 DEF Wanted
<1>4. CASE ~open /\ forced = ""
  <2>1. s.code = "NotAllowed" /\ s.name = H!Nobody
    BY <1>1, <1>2, <1>4
  <2> QED BY <1>4, <2>1 DEF Wanted
<1>5. CASE (open \/ forced \notin {"", "error"}) /\ ~known
  <2>1. s.code = "NOK" /\ s.name = H!Nobody
    BY <1>1, <1>2, <1>5
  <2> QED BY <1>5, <2>1 DEF Wanted
<1>6. CASE (open \/ forced \notin {"", "error"}) /\ known /\ cl.version # Version
  <2>1. s.code = "UpdateClient" /\ s.name = H!Nobody
    BY <1>1, <1>2, <1>6
  <2> QED BY <1>6, <2>1 DEF Wanted
<1>7. CASE (open \/ forced \notin {"", "error"}) /\ known /\ cl.version = Version /\ name = ""
  <2>1. s.code = "NOK" /\ s.name = H!Nobody
    BY <1>1, <1>2, <1>7
  <2> QED BY <1>7, <2>1 DEF Wanted
<1>8. CASE (open \/ forced \notin {"", "error"}) /\ known /\ cl.version = Version /\ name # ""
  <2>1. s.code = "OK" /\ s.name = name
    BY <1>1, <1>2, <1>8
  <2> QED BY <1>8, <2>1 DEF Wanted
<1> QED BY <1>3, <1>4, <1>5, <1>6, <1>7, <1>8

\* However far a handshake comes: a client that is connected has the name the
\* server has for it, both know of each other when all messages arrive, and a
\* client gives up for good only for the server's fingerprint or its verdict
\* (tryConnect and negotiateUser of client/client.go, handleConn and newClient
\* of server/server.go). Nobody and "" are nobody's name or fingerprint.
THEOREM HandshakesAgree ==
  ASSUME NEW srv, NEW cl, NEW n \in 0..8,
         H!Nobody \notin {cl.name, H!Known(srv, cl.key), H!Fingerprint(srv.key)}
  PROVE  H!AgreeOnName(srv, cl, n) /\ H!FatalOnlyByVerdict(srv, cl, n)
<1> DEFINE c == H!tryConnect(srv, cl, n)
           r == H!Registered(srv, cl, n)
           s == H!newClient(srv, cl)
           u == H!negotiateUser(srv, cl, n)
           forced == H!Known(srv, cl.key)
           open == srv.policy = "world"
           first == H!Came(n, "server key")
           test == H!Came(n, "test")
           status == H!Came(n, "status")
           identity == H!Came(n, "identity")
           heard == /\ H!Came(n, "server key") /\ cl.proto \in {"json", "binary"}
                    /\ H!verifyServerMessage(H!ServerKey(srv))
           both == H!Talks(srv, cl, n) /\ H!Served(srv, cl, n)
           trusts == H!Trusts(srv, cl)
<1>1. /\ first <=> n >= 2
      /\ test <=> n >= 4
      /\ status <=> n >= 7
      /\ identity <=> n >= 8
  BY CameIs, Zenon
<1>2. c = IF ~heard THEN H!Again ELSE IF ~trusts THEN H!Fatal("fingerprint")
          ELSE IF ~both THEN H!Again ELSE u
  BY Zenon DEF H!tryConnect
<1>3. u = IF ~status THEN H!Again ELSE IF s.code # "OK" THEN H!Fatal(s.code)
          ELSE IF identity THEN H!Connected(s.name) ELSE H!Again
  BY Zenon DEF H!negotiateUser
<1>4. r = IF both /\ trusts THEN s.name ELSE H!Nobody
  BY DEF H!Registered
<1>5. both => heard
  <2>1. both => test /\ cl.proto \in {"json", "binary"} /\ H!verifyServerMessage(H!ServerKey(srv))
    BY Zenon DEF H!Talks
  <2>2. test => first
    <3> HIDE DEF test, first
    <3> QED BY <1>1
  <2> QED BY <2>1, <2>2, Zenon
<1>6. ~trusts => cl.trust # H!Fingerprint(srv.key)
  BY DEF H!Trusts
<1>7. /\ s.code \in {"OK", "NOK", "NotAllowed", "UpdateClient"}
      /\ s.code # "OK" => s.name = H!Nobody
      /\ s.code = "OK" => s.name = (IF srv.policy = "fixed" THEN forced ELSE cl.name) /\ s.name # ""
      /\ s.code = "NotAllowed" => ~open /\ forced = ""
      /\ (open \/ forced \notin {"", "error"}) /\ cl.channels \subseteq Channels /\ cl.version # Version
           => s.code = "UpdateClient"
  BY VerdictIs
<1>8. heard => n >= 2
  BY <1>1, Zenon
<1> HIDE DEF c, r, s, u, forced, open, first, test, status, identity, heard, both, trusts
<1>9. \A x : /\ H!Again.end = "again" /\ H!Fatal(x).end = "fatal" /\ H!Fatal(x).why = x
             /\ H!Connected(x).end = "connected" /\ H!Connected(x).name = x
  BY DEF H!Again, H!Fatal, H!Connected
<1>10. H!AgreeOnName(srv, cl, n)
  <2>1. c.end = "connected" => both /\ trusts /\ s.code = "OK" /\ c.name = s.name
    BY <1>2, <1>3, <1>9
  <2>2. n = 8 /\ r # H!Nobody => c.end = "connected"
    <3>1. n = 8 => status /\ identity
      BY <1>1
    <3>2. r # H!Nobody => both /\ trusts /\ heard /\ s.code = "OK"
      BY <1>4, <1>5, <1>7
    <3> QED BY <1>2, <1>3, <1>9, <3>1, <3>2
  <2>3. c.end = "connected" =>
          /\ c.name = r /\ r \notin {H!Nobody, ""}
          /\ r = IF srv.policy = "fixed" THEN forced ELSE cl.name
    BY <1>4, <1>7, <2>1 DEF forced
  <2> QED BY <2>2, <2>3 DEF H!AgreeOnName, c, r, forced
<1>11. H!FatalOnlyByVerdict(srv, cl, n)
  <2>1. c.end = "fatal" =>
          \/ c.why = "fingerprint" /\ heard /\ ~trusts
          \/ c.why = s.code /\ s.code # "OK" /\ n >= 7
    BY <1>1, <1>2, <1>3, <1>9
  <2>2. c.end = "fatal" =>
          /\ c.why = "fingerprint" => cl.trust # H!Fingerprint(srv.key) /\ n >= 2
          /\ c.why # "fingerprint" => c.why = s.code /\ n >= 7
          /\ c.why = "NotAllowed" => ~(open \/ forced \notin {"", "error"})
          /\ (open \/ forced \notin {"", "error"}) /\ cl.version # Version /\ cl.channels \subseteq Channels
               /\ c.why # "fingerprint" => c.why = "UpdateClient"
    BY <1>6, <1>7, <1>8, <2>1
  <2> QED BY <2>2 DEF H!FatalOnlyByVerdict, c, s, forced, open
<1> QED BY <1>10, <1>11

\* HandshakeAgrees for every server, client and number of messages.
THEOREM HandshakesAlwaysAgree == Spec => []HandshakeAgrees
<1>1. Init => HandshakeAgrees
  <2> SUFFICES ASSUME Init, case.kind = "shake"  PROVE HandshakeAgrees
    BY DEF HandshakeAgrees
  <2>1. case \in Shakes
    BY WrapsAssumption, InputsAssumption, StreamsAssumption, HandoversAssumption,
       CompletionsAssumption, GamesAssumption DEF Init, ChatCases
  <2>2. case.n \in 0..8 /\ H!Nobody \notin {case.cl.name, H!Known(case.srv, case.cl.key), H!Fingerprint(case.srv.key)}
    BY <2>1, ShakesAssumption
  <2> QED BY <2>2, HandshakesAgree DEF HandshakeAgrees
<1>2. HandshakeAgrees /\ [Next]_case => HandshakeAgrees'
  BY DEF Next, HandshakeAgrees
<1> QED BY <1>1, <1>2, PTL DEF Spec

-----------------------------------------------------------------------------
(* The authenticated stream: the writer *)

Bytes ==
  {<<"data", k>> : k \in Nat} \cup {<<"len", k>> : k \in Nat} \cup {<<"len">>}
    \cup {<<"mac", k, i>> : k \in Nat, i \in 1..HSize}

Writers == [buf : Seq(Bytes), sum : Nat, out : Seq(Bytes)]

\* n bytes of data after the first k.
DataFrom(k, n) == [i \in 1..n |-> <<"data", k + i>>]

\* Frame j of out: it ends at byte o[j] and has the data after e[j - 1] and up to e[j].
FrameIs(out, e, o, j) ==
  LET b == o[j - 1]  d == e[j] - e[j - 1] IN
  /\ d \in 1..MaxLen /\ o[j] = b + 2 + d + HSize
  /\ out[b + 1] = <<"len", d>>
  /\ \A i \in 1..d : out[b + 2 + i] = <<"data", e[j - 1] + i>>
  /\ \A i \in 1..HSize : out[b + 2 + d + i] = <<"mac", e[j], i>>

Framed(out, m, e, o) ==
  /\ e \in [0..m -> Nat] /\ o \in [0..m -> Nat]
  /\ e[0] = 0 /\ o[0] = 0 /\ o[m] = Len(out)
  /\ \A j \in 1..m : FrameIs(out, e, o, j)

\* What w has flushed are frames, and what it buffers is the data after them.
Flushes(w, size) ==
  \E m \in Nat : \E e, o \in [0..m -> Nat] :
    /\ Framed(w.out, m, e, o)
    /\ w.sum - e[m] \in 0..size
    /\ w.buf = DataFrom(e[m], w.sum - e[m])

LEMMA FramesGrow ==
  ASSUME NEW out, NEW m \in Nat, NEW e, NEW o, Framed(out, m, e, o)
  PROVE  /\ \A j \in 1..m : o[j - 1] + 2 < o[j] /\ e[j - 1] < e[j] /\ o[j - 1] \in Nat /\ e[j - 1] \in Nat
         /\ \A i, j \in 0..m : i <= j => o[i] <= o[j] /\ e[i] <= e[j]
<1>1. e \in [0..m -> Nat] /\ o \in [0..m -> Nat]
  BY DEF Framed
<1>2. ASSUME NEW j \in 1..m
      PROVE  o[j - 1] + 2 < o[j] /\ e[j - 1] < e[j] /\ o[j - 1] \in Nat /\ e[j - 1] \in Nat /\ o[j] \in Nat /\ e[j] \in Nat
  <2>1. j \in 0..m /\ j - 1 \in 0..m
    OBVIOUS
  <2>2. o[j - 1] \in Nat /\ e[j - 1] \in Nat /\ o[j] \in Nat /\ e[j] \in Nat
    BY <1>1, <2>1
  <2>3. e[j] - e[j - 1] \in 1..MaxLen /\ o[j] = o[j - 1] + 2 + (e[j] - e[j - 1]) + HSize
    BY DEF Framed, FrameIs
  <2>4. HSize \in Nat \ {0} /\ MaxLen \in Nat
    BY FramingAssumption
  <2> QED BY <2>2, <2>3, <2>4
<1>3. \A i, j \in 0..m : i <= j => o[i] <= o[j]
  <2>1. \A j \in 1..m : o[j - 1] <= o[j]
    BY <1>2
  <2> QED BY <1>1, <2>1, Monotone
<1>4. \A i, j \in 0..m : i <= j => e[i] <= e[j]
  <2>1. \A j \in 1..m : e[j - 1] <= e[j]
    BY <1>2
  <2> QED BY <1>1, <2>1, Monotone
<1> QED BY <1>2, <1>3, <1>4

LEMMA BytesAre ==
  /\ \A k \in Nat : <<"data", k>> \in Bytes /\ <<"len", k>> \in Bytes
  /\ <<"len">> \in Bytes
  /\ \A k \in Nat, i \in 1..HSize : <<"mac", k, i>> \in Bytes
BY DEF Bytes

LEMMA DataIs ==
  ASSUME NEW k \in Nat, NEW n \in Nat
  PROVE  DataFrom(k, n) \in Seq(Bytes) /\ Len(DataFrom(k, n)) = n /\ \A i \in 1..n : DataFrom(k, n)[i] = <<"data", k + i>>
<1>1. \A i \in 1..n : <<"data", k + i>> \in Bytes
  <2>1. \A i \in 1..n : k + i \in Nat
    OBVIOUS
  <2> QED BY <2>1, BytesAre
<1>2. DataFrom(k, n) \in [1..n -> Bytes]
  BY <1>1 DEF DataFrom
<1> QED BY <1>2 DEF DataFrom

LEMMA HeaderMac ==
  ASSUME NEW k \in Nat, NEW d \in Nat
  PROVE  /\ Header(d) \in Seq(Bytes) /\ Len(Header(d)) = 2 /\ Header(d)[1] = <<"len", d>> /\ Header(d)[2] = <<"len">>
         /\ Mac(k) \in Seq(Bytes) /\ Len(Mac(k)) = HSize /\ \A i \in 1..HSize : Mac(k)[i] = <<"mac", k, i>>
<1>1. <<"len", d>> \in Bytes /\ <<"len">> \in Bytes
  BY BytesAre
<1>2. /\ Header(d) \in Seq(Bytes) /\ Len(Header(d)) = 2 /\ Header(d)[1] = <<"len", d>> /\ Header(d)[2] = <<"len">>
  BY <1>1 DEF Header
<1>3. Mac(k) \in [1..HSize -> Bytes]
  BY BytesAre DEF Mac
<1>4. HSize \in Nat
  BY FramingAssumption
<1> QED BY <1>2, <1>3, <1>4 DEF Mac

\* out is k frames, with all of s bytes.
FramesEnd(out, k, s) ==
  out \in Seq(Bytes) /\ \E f, p \in [0..k -> Nat] : Framed(out, k, f, p) /\ f[k] = s

\* One frame more.
LEMMA FrameAdded ==
  ASSUME NEW out \in Seq(Bytes), NEW m \in Nat, NEW e, NEW o, Framed(out, m, e, o),
         NEW d \in 1..MaxLen, NEW s \in Nat, s = e[m] + d, NEW buf, buf = DataFrom(e[m], d)
  PROVE  FramesEnd(out \o Header(Len(buf)) \o buf \o Mac(s), m + 1, s)
<1> DEFINE b == o[m]  k == m + 1
           x == out \o Header(Len(buf)) \o buf \o Mac(s)
           f == [j \in 0..k |-> IF j = k THEN s ELSE e[j]]
           p == [j \in 0..k |-> IF j = k THEN b + 2 + d + HSize ELSE o[j]]
<1>1. /\ e \in [0..m -> Nat] /\ o \in [0..m -> Nat] /\ m \in 0..m
      /\ e[0] = 0 /\ o[0] = 0 /\ b = Len(out)
  BY DEF Framed
<1>2. d \in Nat /\ MaxLen \in Nat /\ HSize \in Nat /\ b \in Nat /\ e[m] \in Nat
  BY <1>1, FramingAssumption
<1>3. buf \in Seq(Bytes) /\ Len(buf) = d /\ \A i \in 1..d : buf[i] = <<"data", e[m] + i>>
  BY <1>2, DataIs
<1>4. /\ Header(d) \in Seq(Bytes) /\ Len(Header(d)) = 2 /\ Header(d)[1] = <<"len", d>>
      /\ Mac(s) \in Seq(Bytes) /\ Len(Mac(s)) = HSize /\ \A i \in 1..HSize : Mac(s)[i] = <<"mac", s, i>>
  BY <1>2, HeaderMac
<1>5. x = out \o Header(d) \o buf \o Mac(s)
  BY <1>3
<1> HIDE DEF x
<1>6. /\ f \in [0..k -> Nat] /\ p \in [0..k -> Nat]
      /\ f[k] = s /\ p[k] = b + 2 + d + HSize /\ \A j \in 0..m : f[j] = e[j] /\ p[j] = o[j]
  <2>1. k \in 0..k /\ \A j \in 0..m : j \in 0..k /\ j # k
    OBVIOUS
  <2>2. b + 2 + d + HSize \in Nat
    <3> HIDE DEF b
    <3> QED BY <1>2
  <2>3. ASSUME NEW j \in 0..k, j # k  PROVE j \in 0..m
    BY <2>3
  <2>4. \A j \in 0..k : f[j] \in Nat /\ p[j] \in Nat
    BY <1>1, <2>2, <2>3
  <2> QED BY <2>1, <2>4
<1> HIDE DEF f, p, b
<1>7. /\ x \in Seq(Bytes) /\ Len(x) = b + 2 + d + HSize
      /\ \A i \in 1..b : x[i] = out[i]
      /\ \A i \in 1..2 : x[b + i] = Header(d)[i]
      /\ \A i \in 1..d : x[b + 2 + i] = buf[i]
      /\ \A i \in 1..HSize : x[b + 2 + d + i] = Mac(s)[i]
  <2> DEFINE h == Header(d)  c == Mac(s)
  <2>1. h \in Seq(Bytes) /\ c \in Seq(Bytes) /\ Len(h) = 2 /\ Len(c) = HSize /\ x = out \o h \o buf \o c /\ Len(out) = b
    BY <1>1, <1>4, <1>5 DEF b
  <2> HIDE DEF h, c
  <2>2. FourJoined(Bytes, x, out, h, buf, c, b, 2, d, HSize)
    <3>1. FourJoined(Bytes, out \o h \o buf \o c, out, h, buf, c, Len(out), Len(h), Len(buf), Len(c))
      BY <1>3, <2>1, FourJoin
    <3> QED BY <1>3, <2>1, <3>1
  <2> QED BY <2>2 DEF h, c, FourJoined
<1>8. ASSUME NEW j \in 1..k  PROVE FrameIs(x, f, p, j)
  <2>1. CASE j = k
    <3>1. j - 1 = m /\ p[j - 1] = b /\ f[j - 1] = e[m] /\ f[j] = s /\ p[j] = b + 2 + d + HSize
      BY <1>1, <1>6, <2>1 DEF b
    <3>2. f[j] - f[j - 1] = d
      BY <1>2, <3>1
    <3>3. x[b + 1] = <<"len", d>>
      BY <1>4, <1>7
    <3> QED BY <1>3, <1>4, <1>7, <3>1, <3>2, <3>3 DEF FrameIs
  <2>2. CASE j # k
    <3>1. j \in 1..m /\ j \in 0..m /\ j - 1 \in 0..m /\ j <= m
      BY <2>2
    <3>2. FrameIs(out, e, o, j)
      BY <3>1 DEF Framed
    <3>3. f[j] = e[j] /\ f[j - 1] = e[j - 1] /\ p[j] = o[j] /\ p[j - 1] = o[j - 1]
      BY <1>6, <3>1
    <3>4. o[j] <= b
      BY <1>1, <3>1, FramesGrow DEF b
    <3> DEFINE g == e[j] - e[j - 1]
               c == o[j - 1]
    <3>5. g \in 1..MaxLen /\ o[j] = c + 2 + g + HSize /\ out[c + 1] = <<"len", g>>
          /\ (\A i \in 1..g : out[c + 2 + i] = <<"data", e[j - 1] + i>>)
          /\ \A i \in 1..HSize : out[c + 2 + g + i] = <<"mac", e[j], i>>
      BY <3>2 DEF FrameIs
    <3>6. c \in Nat
      BY <1>1, <3>1
    <3> HIDE DEF g, c
    <3>7. c + 1 \in 1..b /\ (\A i \in 1..g : c + 2 + i \in 1..b) /\ \A i \in 1..HSize : c + 2 + g + i \in 1..b
      <4>1. g \in Nat /\ b \in Nat /\ HSize \in Nat /\ c + 2 + g + HSize <= b
        BY <1>2, <3>4, <3>5
      <4>2. c + 1 \in 1..b
        BY <3>6, <4>1
      <4>3. ASSUME NEW i \in 1..g  PROVE c + 2 + i \in 1..b
        BY <3>6, <4>1
      <4>4. ASSUME NEW i \in 1..HSize  PROVE c + 2 + g + i \in 1..b
        BY <3>6, <4>1
      <4> QED BY <4>2, <4>3, <4>4
    <3>8. x[c + 1] = <<"len", g>> /\ (\A i \in 1..g : x[c + 2 + i] = <<"data", e[j - 1] + i>>)
          /\ \A i \in 1..HSize : x[c + 2 + g + i] = <<"mac", e[j], i>>
      BY <1>7, <3>5, <3>7
    <3> QED BY <3>3, <3>5, <3>8 DEF FrameIs, g, c
  <2> QED BY <2>1, <2>2
<1>9. Framed(x, k, f, p)
  <2>1. f[0] = 0 /\ p[0] = 0
    BY <1>1, <1>6
  <2> QED BY <1>6, <1>7, <1>8, <2>1 DEF Framed
<1>10. FramesEnd(x, k, s)
  BY <1>6, <1>7, <1>9 DEF FramesEnd
<1> QED BY <1>10 DEF x

\* A flush: one frame more, or nothing to do.
LEMMA FlushKeeps ==
  ASSUME NEW w \in Writers, Flushes(w, MaxLen)
  PROVE  /\ Flush(w) \in Writers /\ Flush(w).sum = w.sum /\ Flush(w).buf = <<>>
         /\ Flushes(Flush(w), 0)
<1>1. PICK m \in Nat : \E e, o \in [0..m -> Nat] :
        /\ Framed(w.out, m, e, o)
        /\ w.sum - e[m] \in 0..MaxLen
        /\ w.buf = DataFrom(e[m], w.sum - e[m])
  BY DEF Flushes
<1>2. PICK e \in [0..m -> Nat], o \in [0..m -> Nat] :
        /\ Framed(w.out, m, e, o)
        /\ w.sum - e[m] \in 0..MaxLen
        /\ w.buf = DataFrom(e[m], w.sum - e[m])
  BY <1>1
<1> DEFINE d == w.sum - e[m]
<1>3. w.sum \in Nat /\ w.out \in Seq(Bytes) /\ w.buf \in Seq(Bytes) /\ e[m] \in Nat /\ MaxLen \in Nat
  <2>1. m \in 0..m
    OBVIOUS
  <2> QED BY <2>1, FramingAssumption DEF Writers
<1>4. d \in Nat /\ d <= MaxLen /\ w.sum = e[m] + d
  BY <1>2, <1>3
<1>5. w.buf = DataFrom(e[m], d)
  BY <1>2
<1> HIDE DEF d
<1>6. Len(w.buf) = d
  BY <1>3, <1>4, <1>5, DataIs
<1>7. CASE w.buf = <<>>
  <2>1. d = 0
    BY <1>6, <1>7
  <2>2. Flush(w) = w
    BY <1>7 DEF Flush
  <2>3. w.sum - e[m] \in 0..0
    BY <1>3, <1>4, <2>1
  <2>4. Flushes(w, 0)
    BY <1>2, <2>3 DEF Flushes
  <2> QED BY <1>7, <2>2, <2>4
<1>8. CASE w.buf # <<>>
  <2>1. d \in 1..MaxLen
    <3>1. d # 0
      BY <1>3, <1>6, <1>8
    <3> QED BY <1>3, <1>4, <3>1
  <2> DEFINE out == w.out \o Header(Len(w.buf)) \o w.buf \o Mac(w.sum)
             v == Flush(w)
  <2>2. v = [w EXCEPT !.buf = <<>>, !.out = out]
    BY <1>8 DEF Flush
  <2>3. out \in Seq(Bytes) /\ \E f, p \in [0..(m + 1) -> Nat] : Framed(out, m + 1, f, p) /\ f[m + 1] = w.sum
    <3> DEFINE buf == w.buf  s == w.sum  before == w.out
    <3>1. /\ before \in Seq(Bytes) /\ Framed(before, m, e, o) /\ s \in Nat /\ s = e[m] + d /\ buf = DataFrom(e[m], d)
          /\ out = before \o Header(Len(buf)) \o buf \o Mac(s)
      BY <1>2, <1>3, <1>4, <1>5
    <3> HIDE DEF buf, s, before, out
    <3>2. FramesEnd(before \o Header(Len(buf)) \o buf \o Mac(s), m + 1, s)
      BY <2>1, <3>1, FrameAdded
    <3> QED BY <3>1, <3>2 DEF s, FramesEnd
  <2> HIDE DEF out, v
  <2>4. v \in Writers /\ v.sum = w.sum /\ v.buf = <<>> /\ v.out = out
    <3>1. w = [buf |-> w.buf, sum |-> w.sum, out |-> w.out]
      BY DEF Writers
    <3>2. v = [buf |-> <<>>, sum |-> w.sum, out |-> out]
      BY <2>2, <3>1
    <3>3. <<>> \in Seq(Bytes)
      OBVIOUS
    <3> QED BY <1>3, <2>3, <3>2, <3>3 DEF Writers
  <2>5. PICK f \in [0..(m + 1) -> Nat], p \in [0..(m + 1) -> Nat] : Framed(out, m + 1, f, p) /\ f[m + 1] = w.sum
    BY <2>3
  <2>6. v.sum - f[m + 1] = 0 /\ DataFrom(f[m + 1], 0) = <<>>
    BY <1>3, <2>4, <2>5 DEF DataFrom
  <2>7. Flushes(v, 0)
    <3>1. m + 1 \in Nat /\ v.sum - f[m + 1] \in 0..0 /\ v.buf = DataFrom(f[m + 1], v.sum - f[m + 1])
      BY <2>4, <2>6
    <3> QED BY <2>4, <2>5, <3>1 DEF Flushes
  <2> QED BY <2>4, <2>7 DEF v
<1> QED BY <1>7, <1>8

LEMMA FlushesMore ==
  ASSUME NEW w, NEW a \in Nat, NEW b \in Nat, a <= b, Flushes(w, a)
  PROVE  Flushes(w, b)
<1>1. \A x : x \in 0..a => x \in 0..b
  OBVIOUS
<1> QED BY <1>1 DEF Flushes

LEMMA FlushType ==
  ASSUME NEW w \in Writers
  PROVE  Flush(w) \in Writers
<1>1. w = [buf |-> w.buf, sum |-> w.sum, out |-> w.out] /\ w.buf \in Seq(Bytes) /\ w.sum \in Nat /\ w.out \in Seq(Bytes)
  BY DEF Writers
<1>2. CASE w.buf = <<>>
  BY <1>2 DEF Flush
<1>3. CASE w.buf # <<>>
  <2> DEFINE out == w.out \o Header(Len(w.buf)) \o w.buf \o Mac(w.sum)
  <2>1. Flush(w) = [w EXCEPT !.buf = <<>>, !.out = out]
    BY <1>3 DEF Flush
  <2>2. Header(Len(w.buf)) \in Seq(Bytes) /\ Mac(w.sum) \in Seq(Bytes)
    <3>1. Len(w.buf) \in Nat
      BY <1>1
    <3> QED BY <1>1, <3>1, HeaderMac
  <2>3. out \in Seq(Bytes)
    <3>1. FourJoined(Bytes, out, w.out, Header(Len(w.buf)), w.buf, Mac(w.sum),
                     Len(w.out), Len(Header(Len(w.buf))), Len(w.buf), Len(Mac(w.sum)))
      BY <1>1, <2>2, FourJoin
    <3> HIDE DEF out
    <3> QED BY <3>1 DEF FourJoined
  <2> HIDE DEF out
  <2>4. Flush(w) = [buf |-> <<>>, sum |-> w.sum, out |-> out]
    BY <1>1, <2>1
  <2>5. <<>> \in Seq(Bytes)
    OBVIOUS
  <2> QED BY <1>1, <2>3, <2>4, <2>5 DEF Writers
<1> QED BY <1>2, <1>3

\* A writer with one byte more in its buffer.
More(w, b) == [buf |-> Append(w.buf, b), sum |-> w.sum + 1, out |-> w.out]

LEMMA PutIs ==
  ASSUME NEW w \in Writers, NEW b \in Bytes
  PROVE  /\ Put(w, b) = IF Len(More(w, b).buf) = MaxLen THEN Flush(More(w, b)) ELSE More(w, b)
         /\ More(w, b) \in Writers
<1> DEFINE v == [w EXCEPT !.buf = Append(@, b), !.sum = @ + 1]
<1>1. PICK u \in Seq(Bytes), n \in Nat, x \in Seq(Bytes) : w = [buf |-> u, sum |-> n, out |-> x]
  BY DEF Writers
<1>2. v = [buf |-> Append(u, b), sum |-> n + 1, out |-> x]
  <2>1. v = [w EXCEPT !.buf = Append(w.buf, b), !.sum = w.sum + 1]
    OBVIOUS
  <2>2. w.buf = u /\ w.sum = n
    BY <1>1
  <2> DEFINE y == Append(u, b)  z == n + 1
  <2>3. v = [w EXCEPT !.buf = y, !.sum = z]
    BY <2>1, <2>2
  <2> HIDE DEF v, y, z
  <2>4. v = [buf |-> y, sum |-> z, out |-> x]
    BY <1>1, <2>3
  <2> QED BY <2>4 DEF y, z
<1>3. More(w, b) = [buf |-> Append(u, b), sum |-> n + 1, out |-> x]
  BY <1>1 DEF More
<1>4. Append(u, b) \in Seq(Bytes) /\ n + 1 \in Nat
  OBVIOUS
<1>5. Put(w, b) = IF Len(v.buf) = MaxLen THEN Flush(v) ELSE v
  BY DEF Put
<1> HIDE DEF v
<1>6. More(w, b) \in Writers
  <2> DEFINE y == Append(u, b)  z == n + 1
  <2>1. More(w, b) = [buf |-> y, sum |-> z, out |-> x] /\ y \in Seq(Bytes) /\ z \in Nat
    BY <1>3, <1>4
  <2> HIDE DEF y, z
  <2> QED BY <2>1 DEF Writers
<1>7. v = More(w, b)
  BY <1>2, <1>3
<1> QED BY <1>5, <1>6, <1>7

LEMMA PutType ==
  ASSUME NEW w \in Writers, NEW b \in Bytes
  PROVE  Put(w, b) \in Writers
BY PutIs, FlushType

\* One byte of data more.
LEMMA PutKeeps ==
  ASSUME NEW w \in Writers, Flushes(w, MaxLen - 1)
  PROVE  LET r == Put(w, <<"data", w.sum + 1>>) IN
         r \in Writers /\ r.sum = w.sum + 1 /\ Flushes(r, MaxLen - 1)
<1> DEFINE b == <<"data", w.sum + 1>>
           v == More(w, b)
           r == Put(w, b)
<1>1. w.buf \in Seq(Bytes) /\ w.sum \in Nat /\ w.out \in Seq(Bytes) /\ MaxLen \in Nat \ {0}
  BY FramingAssumption DEF Writers
<1>2. b \in Bytes
  <2>1. w.sum + 1 \in Nat
    BY <1>1
  <2> QED BY <2>1, BytesAre
<1>3. r = (IF Len(v.buf) = MaxLen THEN Flush(v) ELSE v) /\ v \in Writers
  BY <1>2, PutIs
<1> HIDE DEF b
<1>4. v.buf = Append(w.buf, b) /\ v.sum = w.sum + 1 /\ v.out = w.out
  BY DEF More
<1> HIDE DEF v, r
<1>5. v \in Writers
  BY <1>3
<1>6. PICK m \in Nat : \E e, o \in [0..m -> Nat] :
        /\ Framed(w.out, m, e, o)
        /\ w.sum - e[m] \in 0..(MaxLen - 1)
        /\ w.buf = DataFrom(e[m], w.sum - e[m])
  BY DEF Flushes
<1>7. PICK e \in [0..m -> Nat], o \in [0..m -> Nat] :
        /\ Framed(w.out, m, e, o)
        /\ w.sum - e[m] \in 0..(MaxLen - 1)
        /\ w.buf = DataFrom(e[m], w.sum - e[m])
  BY <1>6
<1> DEFINE d == w.sum - e[m]
<1>8. e[m] \in Nat
  <2>1. m \in 0..m
    OBVIOUS
  <2> QED BY <2>1
<1>9. d \in 0..(MaxLen - 1) /\ w.buf = DataFrom(e[m], d) /\ w.sum = e[m] + d
  BY <1>1, <1>7, <1>8
<1> HIDE DEF d
<1>10. d \in Nat /\ d + 1 \in Nat /\ v.sum - e[m] = d + 1 /\ d + 1 <= MaxLen
  <2>1. d \in Nat /\ d + 1 <= MaxLen
    BY <1>1, <1>9
  <2>2. v.sum = (e[m] + d) + 1
    BY <1>4, <1>9
  <2>3. v.sum - e[m] = d + 1
    BY <1>8, <2>1, <2>2
  <2> QED BY <2>1, <2>3
<1>11. Len(w.buf) = d /\ \A i \in 1..d : w.buf[i] = <<"data", e[m] + i>>
  <2>1. Len(DataFrom(e[m], d)) = d /\ \A i \in 1..d : DataFrom(e[m], d)[i] = <<"data", e[m] + i>>
    BY <1>8, <1>10, DataIs
  <2> QED BY <1>9, <2>1
<1>12. v.buf = DataFrom(e[m], d + 1) /\ Len(v.buf) = d + 1
  <2> DEFINE s == DataFrom(e[m], d + 1)  t == v.buf
  <2>1. s \in Seq(Bytes) /\ Len(s) = d + 1 /\ \A i \in 1..(d + 1) : s[i] = <<"data", e[m] + i>>
    BY <1>8, <1>10, DataIs
  <2>2. t \in Seq(Bytes) /\ Len(t) = d + 1 /\ t[d + 1] = b /\ \A i \in 1..d : t[i] = w.buf[i]
    <3>1. t = Append(w.buf, b)
      BY <1>4
    <3>2. /\ Append(w.buf, b) \in Seq(Bytes) /\ Len(Append(w.buf, b)) = Len(w.buf) + 1
          /\ (\A i \in 1..Len(w.buf) : Append(w.buf, b)[i] = w.buf[i]) /\ Append(w.buf, b)[Len(w.buf) + 1] = b
      BY <1>1, <1>2, AppendProperties
    <3> HIDE DEF t
    <3> QED BY <1>11, <3>1, <3>2
  <2> HIDE DEF s, t
  <2>3. ASSUME NEW i \in 1..(d + 1)  PROVE t[i] = s[i]
    <3>1. CASE i \in 1..d
      BY <1>11, <2>1, <2>2, <3>1
    <3>2. CASE i = d + 1
      <4>1. e[m] + (d + 1) = w.sum + 1
        BY <1>8, <1>9, <1>10
      <4> QED BY <2>1, <2>2, <3>2, <4>1 DEF b
    <3> QED BY <1>10, <3>1, <3>2
  <2>4. t = s
    BY <2>1, <2>2, <2>3, SameSeq
  <2> QED BY <2>2, <2>4 DEF s, t
<1>13. Flushes(v, d + 1)
  <2>1. v.sum - e[m] \in 0..(d + 1)
    BY <1>10
  <2> QED BY <1>4, <1>7, <1>10, <1>12, <2>1 DEF Flushes
<1>14. CASE Len(v.buf) = MaxLen
  <2>1. r = Flush(v)
    BY <1>3, <1>14
  <2>2. Flushes(v, MaxLen)
    BY <1>12, <1>13, <1>14
  <2>3. r \in Writers /\ r.sum = v.sum /\ Flushes(r, 0)
    BY <1>5, <2>1, <2>2, FlushKeeps
  <2>4. Flushes(r, MaxLen - 1)
    <3>1. 0 \in Nat /\ MaxLen - 1 \in Nat /\ 0 <= MaxLen - 1
      BY <1>1
    <3> QED BY <2>3, <3>1, FlushesMore
  <2> QED BY <1>4, <2>3, <2>4 DEF r, b
<1>15. CASE Len(v.buf) # MaxLen
  <2>1. r = v
    BY <1>3, <1>15
  <2>2. Flushes(v, MaxLen - 1)
    <3>1. d + 1 \in Nat /\ MaxLen - 1 \in Nat /\ d + 1 <= MaxLen - 1
      BY <1>1, <1>10, <1>12, <1>15
    <3> QED BY <1>13, <3>1, FlushesMore
  <2> QED BY <1>4, <1>5, <2>1, <2>2 DEF r, b
<1> QED BY <1>14, <1>15

LEMMA PutChain ==
  ASSUME NEW w \in Writers, NEW data \in Seq(Bytes)
  PROVE  \E c \in [0..Len(data) -> Writers] :
           /\ c[0] = w /\ FoldLeft(Put, w, data) = c[Len(data)]
           /\ \A i \in 1..Len(data) : c[i] = Put(c[i - 1], data[i])
<1> DEFINE n == Len(data)
           step == [i \in 1..n |-> [x \in Writers |-> Put(x, data[i])]]
           P(g) == g = [s \in SUBSET DOMAIN data |-> IF s = {} THEN w ELSE Put(g[s \ {Max(s)}], data[Max(s)])]
<1>1. n \in Nat /\ DOMAIN data = 1..n
  OBVIOUS
<1>2. \A i \in 1..n : data[i] \in Bytes
  OBVIOUS
<1>3. step \in [1..n -> [Writers -> Writers]]
  BY <1>2, PutType
<1>4. PICK f : FoldsBy(f, n, w, step) /\ \A s \in SUBSET (1..n) : f[s] \in Writers
  <2> HIDE DEF n, step
  <2> QED BY <1>1, <1>3, FoldIsThere
<1>5. P(f)
  <2>1. ASSUME NEW s \in SUBSET (1..n), s # {}
        PROVE  f[s] = Put(f[s \ {Max(s)}], data[Max(s)])
    <3>1. Max(s) \in 1..n
      <4> HIDE DEF n
      <4> QED BY <1>1, <2>1, MaxInside
    <3>2. f[s \ {Max(s)}] \in Writers
      BY <1>4
    <3>3. f[s] = step[Max(s)][f[s \ {Max(s)}]]
      <4> HIDE DEF n, step
      <4> QED BY <1>4, <2>1 DEF FoldsBy
    <3> QED BY <3>1, <3>2, <3>3
  <2>2. f = [s \in SUBSET (1..n) |-> f[s]] /\ f[{}] = w
    BY <1>4 DEF FoldsBy
  <2>3. \A s \in SUBSET (1..n) : f[s] = IF s = {} THEN w ELSE Put(f[s \ {Max(s)}], data[Max(s)])
    BY <2>1, <2>2
  <2> HIDE DEF n
  <2> QED BY <1>1, <2>2, <2>3
<1> DEFINE g == CHOOSE g : P(g)
<1>6. FoldLeft(Put, w, data) = g[DOMAIN data]
  BY DEF FoldLeft, MapThenFoldSet
<1>7. P(g)
  <2> HIDE DEF P
  <2> QED BY <1>5
<1> HIDE DEF g
<1> DEFINE c == [i \in 0..n |-> g[1..i]]
<1>8. c[0] = w
  <2>1. 1..0 = {}
    OBVIOUS
  <2> QED BY <1>1, <1>7, <2>1
<1>9. ASSUME NEW i \in 1..n  PROVE c[i] = Put(c[i - 1], data[i])
  <2>1. Max(1..i) = i /\ (1..i) \ {i} = 1..(i - 1) /\ 1..i # {}
    BY UpToAll
  <2>2. g[1..i] = Put(g[(1..i) \ {Max(1..i)}], data[Max(1..i)])
    <3>1. 1..i \in SUBSET DOMAIN data
      BY <1>1
    <3> QED BY <1>7, <2>1, <3>1
  <2>3. i \in 0..n /\ i - 1 \in 0..n
    BY <1>1
  <2>4. c[i] = g[1..i] /\ c[i - 1] = g[1..(i - 1)]
    BY <2>3
  <2> HIDE DEF c
  <2> QED BY <2>1, <2>2, <2>4
<1>10. FoldLeft(Put, w, data) = c[n]
  BY <1>1, <1>6
<1>11. c = [i \in 0..n |-> c[i]]
  OBVIOUS
<1> HIDE DEF c
<1> DEFINE S == {i \in Nat : i <= n => c[i] \in Writers}
<1>12. 0 \in S
  BY <1>8
<1>13. ASSUME NEW i \in Nat, i \in S  PROVE i + 1 \in S
  <2>1. CASE i + 1 <= n
    <3>1. i + 1 \in 1..n /\ (i + 1) - 1 = i /\ c[i] \in Writers
      BY <1>1, <1>13, <2>1
    <3>2. c[i + 1] = Put(c[i], data[i + 1]) /\ data[i + 1] \in Bytes
      BY <1>2, <1>9, <3>1
    <3> QED BY <3>1, <3>2, PutType
  <2>2. CASE ~(i + 1 <= n)
    BY <2>2
  <2> QED BY <2>1, <2>2
<1>14. \A i \in Nat : i \in S
  <2> HIDE DEF S
  <2> QED BY <1>12, <1>13, Induction
<1>15. c \in [0..n -> Writers]
  BY <1>1, <1>11, <1>14
<1> QED BY <1>8, <1>9, <1>10, <1>15

\* A write: w has authenticated n bytes more.
LEMMA WriteKeeps ==
  ASSUME NEW w \in Writers, NEW n \in Nat
  PROVE  LET r == Write(w, DataFrom(w.sum, n)) IN
         /\ r \in Writers
         /\ Flushes(w, MaxLen - 1) => r.sum = w.sum + n /\ Flushes(r, MaxLen - 1)
<1> DEFINE data == DataFrom(w.sum, n)  r == Write(w, data)
<1>1. w.sum \in Nat /\ MaxLen \in Nat \ {0} /\ MaxLen - 1 \in Nat
  BY FramingAssumption DEF Writers
<1>2. data \in Seq(Bytes) /\ Len(data) = n /\ \A i \in 1..n : data[i] = <<"data", w.sum + i>>
  BY <1>1, DataIs
<1>3. r = IF data = <<>> THEN Flush(w) ELSE FoldLeft(Put, w, data)
  BY DEF Write
<1> HIDE DEF data, r
<1>4. CASE data = <<>>
  <2>1. r = Flush(w) /\ n = 0
    BY <1>2, <1>3, <1>4
  <2>2. r \in Writers
    BY <2>1, FlushType
  <2>3. ASSUME Flushes(w, MaxLen - 1)  PROVE r.sum = w.sum + n /\ Flushes(r, MaxLen - 1)
    <3>1. Flushes(w, MaxLen)
      BY <1>1, <2>3, FlushesMore
    <3>2. r.sum = w.sum /\ Flushes(r, 0)
      BY <2>1, <3>1, FlushKeeps
    <3>3. Flushes(r, MaxLen - 1)
      BY <1>1, <3>2, FlushesMore
    <3> QED BY <1>1, <2>1, <3>2, <3>3
  <2> QED BY <2>2, <2>3 DEF r, data
<1>5. CASE data # <<>>
  <2>1. PICK c \in [0..n -> Writers] :
          c[0] = w /\ r = c[n] /\ \A i \in 1..n : c[i] = Put(c[i - 1], data[i])
    BY <1>2, <1>3, <1>5, PutChain
  <2>2. ASSUME Flushes(w, MaxLen - 1)  PROVE r.sum = w.sum + n /\ Flushes(r, MaxLen - 1)
    <3> DEFINE P(i) == i <= n => c[i].sum = w.sum + i /\ Flushes(c[i], MaxLen - 1)
               S == {i \in Nat : P(i)}
    <3>1. P(0)
      BY <1>1, <2>1, <2>2
    <3>2. ASSUME NEW i \in Nat, P(i)  PROVE P(i + 1)
      <4> HAVE i + 1 <= n
      <4>1. i + 1 \in 1..n /\ (i + 1) - 1 = i /\ i \in 0..n
        OBVIOUS
      <4>2. c[i] \in Writers /\ c[i].sum = w.sum + i /\ Flushes(c[i], MaxLen - 1)
        BY <3>2, <4>1
      <4>3. data[i + 1] = <<"data", c[i].sum + 1>>
        <5>1. w.sum + (i + 1) = c[i].sum + 1
          BY <1>1, <4>2
        <5> QED BY <1>2, <4>1, <5>1
      <4>4. c[i + 1] = Put(c[i], <<"data", c[i].sum + 1>>)
        BY <2>1, <4>1, <4>3
      <4>5. c[i + 1].sum = c[i].sum + 1 /\ Flushes(c[i + 1], MaxLen - 1)
        BY <4>2, <4>4, PutKeeps
      <4> QED BY <1>1, <4>2, <4>5
    <3> HIDE DEF P
    <3>3. 0 \in S /\ \A i \in Nat : i \in S => i + 1 \in S
      BY <3>1, <3>2
    <3>4. n \in S
      <4> HIDE DEF S
      <4> QED BY <3>3, Induction
    <3> QED BY <2>1, <3>4 DEF P
  <2>3. r \in Writers
    BY <2>1
  <2> QED BY <2>2, <2>3 DEF r, data
<1> QED BY <1>4, <1>5

-----------------------------------------------------------------------------
(* Its reader, of the first l bytes of out *)

Readers == [in : Seq(Bytes), phase : {0, 1}, amount : Nat, hash : Seq(Bytes), sum : Nat]

MacPart(k, n) == [i \in 1..n |-> <<"mac", k, i>>]

\* What is left after p bytes.
Left(out, l, p) == SubSeq(SubSeq(out, 1, l), p + 1, l)

\* Between two frames.
Between(r, out, l, m, e, o) ==
  /\ r.phase = 0 /\ r.hash = <<>> /\ r.amount = 0
  /\ \E j \in 0..m : o[j] <= l /\ r.in = Left(out, l, o[j]) /\ r.sum = e[j]

\* Within frame j, h bytes into its code.
At(r, out, l, e, o, j, h) ==
  /\ r.phase = 1
  /\ r.sum \in e[j - 1]..e[j] /\ r.amount = e[j] - r.sum
  /\ h # 0 => r.amount = 0
  /\ r.hash = MacPart(e[j], h)
  /\ LET p == o[j - 1] + 2 + (r.sum - e[j - 1]) + h IN p <= l /\ r.in = Left(out, l, p)

Within(r, out, l, m, e, o) == \E j \in 1..m, h \in 0..(HSize - 1) : At(r, out, l, e, o, j, h)

Reads(r, out, l, m, e, o) ==
  r \in Readers /\ (Between(r, out, l, m, e, o) \/ Within(r, out, l, m, e, o))

LEMMA MacIs ==
  ASSUME NEW k \in Nat, NEW n \in 0..HSize
  PROVE  MacPart(k, n) \in Seq(Bytes) /\ Len(MacPart(k, n)) = n /\ \A i \in 1..n : MacPart(k, n)[i] = <<"mac", k, i>>
<1>1. n \in Nat /\ \A i \in 1..n : i \in 1..HSize
  BY FramingAssumption
<1>2. \A i \in 1..n : <<"mac", k, i>> \in Bytes
  BY <1>1, BytesAre
<1>3. MacPart(k, n) \in [1..n -> Bytes]
  BY <1>2 DEF MacPart
<1> QED BY <1>1, <1>3 DEF MacPart

LEMMA LeftIs ==
  ASSUME NEW out \in Seq(Bytes), NEW l \in 0..Len(out), NEW p \in 0..l
  PROVE  /\ Left(out, l, p) \in Seq(Bytes) /\ Len(Left(out, l, p)) = l - p
         /\ \A i \in 1..(l - p) : Left(out, l, p)[i] = out[p + i]
<1> DEFINE s == SubSeq(out, 1, l)  t == SubSeq(s, p + 1, l)
<1>1. s \in Seq(Bytes) /\ Len(s) = l /\ \A i \in 1..l : s[i] = out[i]
  <2>1. 0 \in 0..Len(out) /\ l \in 0..Len(out) /\ 0 + 1 = 1
    OBVIOUS
  <2>2. SubSeq(out, 0 + 1, l) \in Seq(Bytes) /\ Len(SubSeq(out, 0 + 1, l)) = l - 0
        /\ \A i \in 1..(l - 0) : SubSeq(out, 0 + 1, l)[i] = out[0 + i]
    BY <2>1, PartIs
  <2>3. SubSeq(out, 0 + 1, l) = s
    BY <2>1
  <2> HIDE DEF s
  <2> QED BY <2>2, <2>3
<1> HIDE DEF s
<1>2. t \in Seq(Bytes) /\ Len(t) = l - p /\ \A i \in 1..(l - p) : t[i] = s[p + i]
  <2>1. p \in 0..Len(s) /\ l \in p..Len(s)
    BY <1>1
  <2> QED BY <1>1, <2>1, PartIs
<1>3. \A i \in 1..(l - p) : p + i \in 1..l
  OBVIOUS
<1>4. Left(out, l, p) = t
  BY DEF Left, s
<1> QED BY <1>1, <1>2, <1>3, <1>4

LEMMA InLength ==
  ASSUME NEW r \in Readers
  PROVE  Len(r.in) \in Nat
<1>1. r.in \in Seq(Bytes)
  BY DEF Readers
<1> QED BY <1>1

\* k bytes are taken off what is left after p.
TakesOff(out, l, p, k) ==
  /\ SubSeq(Left(out, l, p), k + 1, l - p) = Left(out, l, p + k)
  /\ SubSeq(Left(out, l, p), 1, k) \in Seq(Bytes) /\ Len(SubSeq(Left(out, l, p), 1, k)) = k
  /\ \A i \in 1..k : SubSeq(Left(out, l, p), 1, k)[i] = out[p + i]

LEMMA TakenOff ==
  ASSUME NEW out \in Seq(Bytes), NEW l \in 0..Len(out), NEW p \in 0..l, NEW k \in 0..(l - p)
  PROVE  TakesOff(out, l, p, k)
<1> DEFINE s == Left(out, l, p)  t == Left(out, l, p + k)  u == SubSeq(s, k + 1, l - p)  v == SubSeq(s, 1, k)
<1>1. s \in Seq(Bytes) /\ Len(s) = l - p /\ \A i \in 1..(l - p) : s[i] = out[p + i]
  BY LeftIs
<1>2. t \in Seq(Bytes) /\ Len(t) = l - (p + k) /\ \A i \in 1..(l - (p + k)) : t[i] = out[(p + k) + i]
  <2>1. p + k \in 0..l
    OBVIOUS
  <2> QED BY <2>1, LeftIs
<1> HIDE DEF s, t
<1>3. u \in Seq(Bytes) /\ Len(u) = l - p - k /\ \A i \in 1..(l - p - k) : u[i] = s[k + i]
  <2> DEFINE n == l - p
  <2>1. s \in Seq(Bytes) /\ k \in 0..Len(s) /\ n \in k..Len(s)
    BY <1>1
  <2> HIDE DEF n
  <2>2. SubSeq(s, k + 1, n) \in Seq(Bytes) /\ Len(SubSeq(s, k + 1, n)) = n - k /\ \A i \in 1..(n - k) : SubSeq(s, k + 1, n)[i] = s[k + i]
    BY <2>1, PartIs
  <2> QED BY <2>2 DEF n
<1>4. v \in Seq(Bytes) /\ Len(v) = k /\ \A i \in 1..k : v[i] = s[i]
  <2>1. 0 \in 0..Len(s) /\ k \in 0..Len(s) /\ 0 + 1 = 1
    BY <1>1
  <2>2. SubSeq(s, 0 + 1, k) \in Seq(Bytes) /\ Len(SubSeq(s, 0 + 1, k)) = k - 0 /\ \A i \in 1..(k - 0) : SubSeq(s, 0 + 1, k)[i] = s[0 + i]
    BY <1>1, <2>1, PartIs
  <2>3. SubSeq(s, 0 + 1, k) = v
    BY <2>1
  <2> HIDE DEF v
  <2> QED BY <2>2, <2>3
<1> HIDE DEF u, v
<1>5. Len(u) = Len(t) /\ \A i \in 1..Len(u) : u[i] = t[i]
  <2>1. \A i \in 1..(l - p - k) : k + i \in 1..(l - p) /\ p + (k + i) = (p + k) + i
    OBVIOUS
  <2>2. l - p - k = l - (p + k)
    OBVIOUS
  <2> QED BY <1>1, <1>2, <1>3, <2>1, <2>2
<1>6. u = t
  BY <1>2, <1>3, <1>5, SameSeq
<1>7. \A i \in 1..k : i \in 1..(l - p)
  OBVIOUS
<1>8. v \in Seq(Bytes) /\ Len(v) = k /\ \A i \in 1..k : v[i] = out[p + i]
  BY <1>1, <1>4, <1>7
<1> QED BY <1>6, <1>8 DEF s, t, u, v, TakesOff

\* A header is read, or cannot be.
LEMMA HeaderRead ==
  ASSUME NEW out \in Seq(Bytes), NEW m \in Nat, NEW e, NEW o, Framed(out, m, e, o), NEW l \in 0..Len(out),
         NEW r \in Readers, Between(r, out, l, m, e, o)
  PROVE  \/ Read0(r) = [r |-> r, err |-> "EOF"] /\ \E j \in 0..m : o[j] = l /\ r.sum = e[j]
         \/ /\ l # o[m] /\ \E x \in Readers : Read0(r) = [r |-> x, err |-> "ErrUnexpectedEOF"]
         \/ \E x \in Readers :
              /\ Read0(r) = [r |-> x, err |-> "none"]
              /\ Within(x, out, l, m, e, o) /\ x.sum = r.sum /\ Len(x.in) < Len(r.in)
<1>1. PICK j \in 0..m : o[j] <= l /\ r.in = Left(out, l, o[j]) /\ r.sum = e[j]
  BY DEF Between
<1> DEFINE p == o[j]
<1>2. /\ e \in [0..m -> Nat] /\ o \in [0..m -> Nat] /\ e[0] = 0 /\ o[0] = 0 /\ o[m] = Len(out)
      /\ \A i \in 1..m : FrameIs(out, e, o, i)
  BY DEF Framed
<1>3. p \in 0..l /\ p \in Nat /\ e[j] \in Nat /\ l \in Nat /\ o[m] \in Nat /\ l <= o[m]
  BY <1>1, <1>2
<1>0. o[j] = p /\ r.in = Left(out, l, p) /\ r.sum = e[j]
  BY <1>1
<1> HIDE DEF p
<1>4. /\ r.in \in Seq(Bytes) /\ Len(r.in) = l - p /\ \A i \in 1..(l - p) : r.in[i] = out[p + i]
  <2>1. /\ Left(out, l, p) \in Seq(Bytes) /\ Len(Left(out, l, p)) = l - p
        /\ \A i \in 1..(l - p) : Left(out, l, p)[i] = out[p + i]
    BY <1>3, LeftIs
  <2> QED BY <1>0, <2>1
<1>5. r.phase = 0 /\ r.hash = <<>> /\ r.amount = 0 /\ r.sum \in Nat
  BY DEF Between, Readers
<1>6. r = [in |-> r.in, phase |-> r.phase, amount |-> r.amount, hash |-> r.hash, sum |-> r.sum]
  BY DEF Readers
<1>7. <<>> \in Seq(Bytes)
  OBVIOUS
<1>8. CASE l = p
  <2>1. r.in = <<>>
    BY <1>3, <1>4, <1>8
  <2>2. Read0(r) = [r |-> r, err |-> "EOF"]
    BY <1>5, <2>1 DEF Read0
  <2> QED BY <1>0, <1>8, <2>2
<1>9. CASE l = p + 1
  <2>1. r.in # <<>> /\ Len(r.in) < 2
    BY <1>3, <1>4, <1>9
  <2> DEFINE x == [in |-> <<>>, phase |-> r.phase, amount |-> r.amount, hash |-> r.hash, sum |-> r.sum]
             y == [r EXCEPT !.in = <<>>]
  <2>2. y = x
    BY <1>6
  <2>3. x \in Readers
    BY <1>5, <1>7 DEF Readers
  <2>4. Read0(r) = [r |-> y, err |-> "ErrUnexpectedEOF"]
    BY <1>5, <2>1 DEF Read0
  <2>5. l # o[m]
    <3> SUFFICES ASSUME l = o[m]  PROVE FALSE
      OBVIOUS
    <3>1. j # m
      <4>1. p # p + 1 /\ o[m] = p + 1
        BY <1>3, <1>9
      <4> QED BY <1>0, <4>1
    <3>2. j + 1 \in 1..m /\ (j + 1) - 1 = j /\ j + 1 \in 0..m /\ m \in 0..m
      BY <3>1
    <3>3. o[(j + 1) - 1] + 2 < o[j + 1]
      BY <3>2, FramesGrow
    <3>4. o[j + 1] <= o[m]
      <4>1. j + 1 <= m
        BY <3>2
      <4> QED BY <3>2, <4>1, FramesGrow
    <3>5. o[j + 1] \in Nat
      BY <1>2, <3>2
    <3> QED BY <1>0, <1>3, <1>9, <3>2, <3>3, <3>4, <3>5
  <2> HIDE DEF x, y
  <2> QED BY <2>2, <2>3, <2>4, <2>5
<1>10. CASE l >= p + 2
  <2>1. j + 1 \in 1..m /\ (j + 1) - 1 = j /\ j + 1 \in 0..m
    <3>1. j # m
      BY <1>0, <1>3, <1>10
    <3> QED BY <3>1
  <2> DEFINE d == e[j + 1] - e[j]
  <2>2. d \in 1..MaxLen /\ out[p + 1] = <<"len", d>>
    <3>1. FrameIs(out, e, o, j + 1)
      BY <1>2, <2>1
    <3> QED BY <1>0, <2>1, <3>1 DEF FrameIs
  <2>3. MaxLen \in Nat /\ HSize \in Nat \ {0} /\ e[j + 1] \in Nat
    BY <1>2, <2>1, FramingAssumption
  <2>4. d \in Nat /\ e[j + 1] = e[j] + d
    BY <1>3, <2>2, <2>3
  <2> HIDE DEF d
  <2>5. r.in # <<>> /\ ~(Len(r.in) < 2) /\ r.in[1] = <<"len", d>>
    <3>1. 1 \in 1..(l - p) /\ l - p \in Nat /\ ~(l - p < 2) /\ l - p # 0
      BY <1>3, <1>10
    <3>2. r.in[1] = out[p + 1]
      BY <1>4, <3>1
    <3> QED BY <1>4, <2>2, <3>1, <3>2
  <2>6. r.in[1][2] = d
    BY <2>5
  <2> DEFINE rest == Left(out, l, p + 2)
             x == [in |-> rest, phase |-> 1, amount |-> d, hash |-> r.hash, sum |-> r.sum]
             y == [r EXCEPT !.in = SubSeq(@, 3, Len(@)), !.amount = r.in[1][2], !.phase = 1]
  <2>7. SubSeq(r.in, 3, Len(r.in)) = rest
    <3> DEFINE k == 2
    <3>1. k \in 0..(l - p) /\ k + 1 = 3
      BY <1>3, <1>10
    <3> HIDE DEF k
    <3>2. SubSeq(Left(out, l, p), k + 1, l - p) = Left(out, l, p + k)
      BY <1>3, <3>1, TakenOff DEF TakesOff
    <3>3. k = 2
      BY DEF k
    <3> QED BY <1>0, <1>4, <3>1, <3>2, <3>3
  <2>8. rest \in Seq(Bytes) /\ Len(rest) = l - (p + 2)
    <3>1. p + 2 \in 0..l
      BY <1>3, <1>10
    <3> QED BY <3>1, LeftIs
  <2>9. y = x
    <3>1. y = [r EXCEPT !.in = SubSeq(r.in, 3, Len(r.in)), !.amount = r.in[1][2], !.phase = 1]
      OBVIOUS
    <3> HIDE DEF rest, y
    <3>2. y = [r EXCEPT !.in = rest, !.amount = d, !.phase = 1]
      BY <2>6, <2>7, <3>1
    <3> QED BY <1>6, <3>2
  <2>10. Read0(r) = [r |-> y, err |-> "none"]
    BY <1>5, <2>5 DEF Read0
  <2> HIDE DEF rest
  <2>11. x \in Readers
    BY <1>5, <1>7, <2>4, <2>8 DEF Readers
  <2>12. At(x, out, l, e, o, j + 1, 0)
    <3>1. x.phase = 1 /\ x.sum = e[j] /\ x.amount = d /\ x.hash = <<>> /\ x.in = rest
      BY <1>0, <1>5
    <3>2. MacPart(e[j + 1], 0) = <<>>
      BY DEF MacPart
    <3>3. e[j] \in e[j]..e[j + 1] /\ d = e[j + 1] - e[j]
      BY <1>3, <2>3, <2>4
    <3>4. p + 2 + (e[j] - e[j]) + 0 = p + 2 /\ p + 2 <= l
      BY <1>3, <1>10
    <3> HIDE DEF x
    <3>5. x.sum \in e[(j + 1) - 1]..e[j + 1] /\ x.amount = e[j + 1] - x.sum /\ x.hash = MacPart(e[j + 1], 0)
      BY <2>1, <3>1, <3>2, <3>3
    <3>6. o[(j + 1) - 1] + 2 + (x.sum - e[(j + 1) - 1]) + 0 = p + 2
      BY <1>0, <2>1, <3>1, <3>4
    <3> QED BY <3>1, <3>4, <3>5, <3>6 DEF At, rest
  <2>13. Within(x, out, l, m, e, o)
    <3>1. 0 \in 0..(HSize - 1)
      BY <2>3
    <3> HIDE DEF x
    <3> QED BY <2>1, <2>12, <3>1 DEF Within
  <2>14. x.sum = r.sum /\ Len(x.in) < Len(r.in)
    BY <1>3, <1>4, <1>10, <2>8
  <2> HIDE DEF x, y
  <2> QED BY <2>9, <2>10, <2>11, <2>13, <2>14
<1>11. l = p \/ l = p + 1 \/ l >= p + 2
  BY <1>3
<1> QED BY <1>8, <1>9, <1>10, <1>11

\* What Read takes from the connection, the data and the code in it, and the reader after it.
Wanted(r, size) == IF size >= r.amount THEN r.amount + HSize - Len(r.hash) ELSE size
Taken(r, size, chunk) == SubSeq(r.in, 1, Least(Wanted(r, size), Least(chunk, Len(r.in))))
DataOf(r, size, chunk) == LET rb == Taken(r, size, chunk) IN SubSeq(rb, 1, Least(Len(rb), r.amount))
HashOf(r, size, chunk) ==
  LET rb == Taken(r, size, chunk) IN r.hash \o SubSeq(rb, Len(DataOf(r, size, chunk)) + 1, Len(rb))
After(r, size, chunk) ==
  LET rb == Taken(r, size, chunk)  data == DataOf(r, size, chunk)  hash == HashOf(r, size, chunk)
      done == Len(hash) = HSize
  IN  [in |-> SubSeq(r.in, Len(rb) + 1, Len(r.in)), phase |-> IF done THEN 0 ELSE 1,
       amount |-> r.amount - Len(data), hash |-> IF done THEN <<>> ELSE hash, sum |-> r.sum + Len(data)]

\* Data, or the code after it, is read.
LEMMA BodyRead ==
  ASSUME NEW out \in Seq(Bytes), NEW m \in Nat, NEW e, NEW o, Framed(out, m, e, o), NEW l \in 0..Len(out),
         NEW r \in Readers, Within(r, out, l, m, e, o), NEW size \in Nat \ {0}, NEW chunk \in Nat \ {0}
  PROVE  LET rb == Taken(r, size, chunk)  data == DataOf(r, size, chunk)
             hash == HashOf(r, size, chunk)  x == After(r, size, chunk)
         IN  /\ Len(data) \in Nat /\ data = DataFrom(r.sum, Len(data)) /\ x \in Readers
             /\ Len(hash) = HSize => hash = Mac(r.sum + Len(data))
             /\ IF rb = <<>> /\ Len(hash) # HSize
                THEN data = <<>> /\ l # o[m]
                ELSE Reads(x, out, l, m, e, o) /\ Len(x.in) < Len(r.in)
<1> DEFINE want == Wanted(r, size)  rb == Taken(r, size, chunk)  data == DataOf(r, size, chunk)
           hash == HashOf(r, size, chunk)  x == After(r, size, chunk)
<1>w. want = IF size >= r.amount THEN r.amount + HSize - Len(r.hash) ELSE size
  BY DEF Wanted
<1>r. rb = SubSeq(r.in, 1, Least(want, Least(chunk, Len(r.in))))
  BY DEF Taken
<1>d. data = SubSeq(rb, 1, Least(Len(rb), r.amount))
  BY DEF DataOf
<1>h. hash = r.hash \o SubSeq(rb, Len(data) + 1, Len(rb))
  BY DEF HashOf
<1>x. x = [in |-> SubSeq(r.in, Len(rb) + 1, Len(r.in)), phase |-> IF Len(hash) = HSize THEN 0 ELSE 1,
           amount |-> r.amount - Len(data), hash |-> IF Len(hash) = HSize THEN <<>> ELSE hash,
           sum |-> r.sum + Len(data)]
  BY DEF After
<1> SUFFICES /\ Len(data) \in Nat /\ data = DataFrom(r.sum, Len(data)) /\ x \in Readers
             /\ Len(hash) = HSize => hash = Mac(r.sum + Len(data))
             /\ IF rb = <<>> /\ Len(hash) # HSize
                THEN data = <<>> /\ l # o[m]
                ELSE Reads(x, out, l, m, e, o) /\ Len(x.in) < Len(r.in)
  OBVIOUS
<1> HIDE DEF want, rb, data, hash, x
<1>1. PICK j \in 1..m, h \in 0..(HSize - 1) : At(r, out, l, e, o, j, h)
  BY DEF Within
<1>2. /\ e \in [0..m -> Nat] /\ o \in [0..m -> Nat] /\ o[m] = Len(out) /\ FrameIs(out, e, o, j)
      /\ j \in 0..m /\ j - 1 \in 0..m /\ m \in 0..m /\ j <= m
  <2>1. j \in 0..m /\ j - 1 \in 0..m /\ m \in 0..m /\ j <= m
    OBVIOUS
  <2> QED BY <2>1 DEF Framed
<1>3. o[j] <= o[m]
  BY <1>2, FramesGrow
<1> DEFINE b == o[j - 1]  f == e[j - 1]  d == e[j] - f  c == r.sum - f  a == r.amount  p == b + 2 + c + h
<1>4. /\ d \in 1..MaxLen /\ o[j] = b + 2 + d + HSize
      /\ \A i \in 1..d : out[b + 2 + i] = <<"data", f + i>>
      /\ \A i \in 1..HSize : out[b + 2 + d + i] = <<"mac", e[j], i>>
  BY <1>2 DEF FrameIs
<1>5. b \in Nat /\ f \in Nat /\ e[j] \in Nat /\ o[m] \in Nat /\ l \in Nat /\ l <= o[m] /\ h \in Nat /\ HSize \in Nat /\ h < HSize
      /\ MaxLen \in Nat /\ a \in Nat /\ r.sum \in Nat
  BY <1>2, FramingAssumption DEF Readers
<1>6. r.phase = 1 /\ r.hash = MacPart(e[j], h) /\ r.in = Left(out, l, p)
  BY <1>1 DEF At
<1>b. r.sum \in f..e[j] /\ a = e[j] - r.sum /\ (h # 0 => a = 0) /\ p <= l
  BY <1>1 DEF At
<1>a. o[j - 1] = b /\ e[j - 1] = f /\ d = e[j] - f /\ c = r.sum - f /\ p = b + 2 + c + h
  OBVIOUS
<1> HIDE DEF b, f, d, c, a, p
<1>7. c \in Nat /\ d \in Nat /\ c + a = d /\ r.sum = f + c /\ e[j] = f + d
  <2> DEFINE s == r.sum  u == e[j]
  <2>1. s \in f..u /\ a = u - s /\ d = u - f /\ c = s - f /\ f \in Nat /\ u \in Nat /\ s \in Nat
    BY <1>a, <1>5, <1>b
  <2> HIDE DEF s, u
  <2>2. c \in Nat /\ d \in Nat /\ c + a = d /\ s = f + c /\ u = f + d
    BY <2>1
  <2> QED BY <2>2 DEF s, u
<1>8. p = b + 2 + c + h /\ p \in 0..l
  <2>1. p = b + 2 + c + h /\ p <= l
    BY <1>a, <1>b
  <2> QED BY <1>5, <1>7, <2>1
<1>9. r.sum + a = e[j]
  BY <1>5, <1>b
<1> DEFINE k == Least(want, Least(chunk, l - p))
<1>10. Len(r.in) = l - p
  <2>1. Len(Left(out, l, p)) = l - p
    BY <1>8, LeftIs
  <2> QED BY <1>6, <2>1
<1>11. Len(r.hash) = h
  <2>1. h \in 0..HSize
    BY <1>5
  <2>2. Len(MacPart(e[j], h)) = h
    BY <1>5, <2>1, MacIs
  <2> QED BY <1>6, <2>2
<1>12. want = IF size >= a THEN a + HSize - h ELSE size
  BY <1>w, <1>11 DEF a
<1>13. k \in 0..(l - p) /\ k <= want /\ (k = 0 => l = p)
  <2>1. want \in Nat \ {0}
    BY <1>5, <1>12
  <2>2. l - p \in Nat
    BY <1>5, <1>8
  <2> QED BY <1>5, <1>8, <2>1, <2>2 DEF Least
<1>14. rb = SubSeq(Left(out, l, p), 1, k)
  BY <1>r, <1>6, <1>10
<1> HIDE DEF k
<1>y. l \in 0..Len(out) /\ p \in 0..l /\ k \in 0..(l - p)
  BY <1>8, <1>13
<1>k. TakesOff(out, l, p, k)
  BY <1>y, TakenOff
<1>15. rb \in Seq(Bytes) /\ Len(rb) = k /\ \A i \in 1..k : rb[i] = out[p + i]
  BY <1>14, <1>k DEF TakesOff
<1>16. x.in = Left(out, l, p + k) /\ SubSeq(r.in, Len(rb) + 1, Len(r.in)) = Left(out, l, p + k)
  <2>1. SubSeq(Left(out, l, p), k + 1, l - p) = Left(out, l, p + k)
    BY <1>k DEF TakesOff
  <2>2. SubSeq(r.in, Len(rb) + 1, Len(r.in)) = Left(out, l, p + k)
    BY <1>6, <1>10, <1>15, <2>1
  <2> QED BY <1>x, <2>2
<1>17. k \in Nat /\ p + k \in 0..l
  BY <1>5, <1>8, <1>13
<1>18. Left(out, l, p + k) \in Seq(Bytes) /\ Len(Left(out, l, p + k)) = l - (p + k)
  BY <1>17, LeftIs
<1> DEFINE n == Least(k, a)
<1>19. n \in 0..k /\ n <= a /\ n \in Nat /\ (k <= a => n = k) /\ (k > a => n = a)
  BY <1>5, <1>17 DEF Least
<1>20. data = SubSeq(rb, 1, n)
  BY <1>d, <1>15 DEF a
<1> HIDE DEF n
<1>21. data \in Seq(Bytes) /\ Len(data) = n /\ \A i \in 1..n : data[i] = rb[i]
  <2>1. 0 \in 0..Len(rb) /\ n \in 0..Len(rb) /\ 0 + 1 = 1
    BY <1>15, <1>17, <1>19
  <2>2. SubSeq(rb, 0 + 1, n) \in Seq(Bytes) /\ Len(SubSeq(rb, 0 + 1, n)) = n - 0 /\ \A i \in 1..(n - 0) : SubSeq(rb, 0 + 1, n)[i] = rb[0 + i]
    BY <1>15, <2>1, PartIs
  <2>3. SubSeq(rb, 0 + 1, n) = data
    BY <1>20, <2>1
  <2> QED BY <1>19, <2>2, <2>3
<1>22. data = DataFrom(r.sum, n)
  <2> DEFINE t == DataFrom(r.sum, n)
  <2>1. t \in Seq(Bytes) /\ Len(t) = n /\ \A i \in 1..n : t[i] = <<"data", r.sum + i>>
    BY <1>5, <1>19, DataIs
  <2> HIDE DEF t
  <2>2. ASSUME NEW i \in 1..n  PROVE data[i] = t[i]
    <3>1. i \in 1..k /\ h = 0
      BY <1>5, <1>b, <1>17, <1>19
    <3>2. data[i] = out[p + i]
      BY <1>15, <1>21, <3>1
    <3>3. c + i \in 1..d /\ p + i = b + 2 + (c + i) /\ f + (c + i) = r.sum + i
      BY <1>5, <1>7, <1>8, <1>19, <3>1
    <3>4. out[b + 2 + (c + i)] = <<"data", f + (c + i)>>
      BY <1>4, <3>3
    <3> QED BY <2>1, <3>2, <3>3, <3>4
  <2>3. data = t
    BY <1>21, <2>1, <2>2, SameSeq
  <2> QED BY <2>3 DEF t
<1> DEFINE tail == SubSeq(rb, n + 1, k)  q == h + (k - n)
<1>23. tail \in Seq(Bytes) /\ Len(tail) = k - n /\ \A i \in 1..(k - n) : tail[i] = rb[n + i]
  <2>1. n \in 0..Len(rb) /\ k \in n..Len(rb)
    BY <1>15, <1>17, <1>19
  <2> QED BY <1>15, <2>1, PartIs
<1>24. hash = r.hash \o tail
  BY <1>h, <1>15, <1>21
<1>25. q \in 0..HSize /\ q \in Nat /\ (k <= a => q = h) /\ (k > a => n = a)
  BY <1>5, <1>12, <1>13, <1>17, <1>19
<1>26. q = h + (k - n) /\ k - n \in Nat
  BY <1>17, <1>19
<1> HIDE DEF tail, q
<1>27. hash = MacPart(e[j], q) /\ hash \in Seq(Bytes) /\ Len(hash) = q
  <2> DEFINE t == MacPart(e[j], q)  u == r.hash
  <2>1. t \in Seq(Bytes) /\ Len(t) = q /\ \A i \in 1..q : t[i] = <<"mac", e[j], i>>
    BY <1>5, <1>25, MacIs
  <2>2. u \in Seq(Bytes) /\ Len(u) = h /\ \A i \in 1..h : u[i] = <<"mac", e[j], i>>
    <3>1. h \in 0..HSize
      BY <1>5
    <3>2. LET y == MacPart(e[j], h) IN y \in Seq(Bytes) /\ Len(y) = h /\ \A i \in 1..h : y[i] = <<"mac", e[j], i>>
      BY <1>5, <3>1, MacIs
    <3> QED BY <1>6, <3>2
  <2> HIDE DEF t, u
  <2>3. Joined(Bytes, u \o tail, u, tail)
    BY <1>23, <2>2, Joins
  <2>4. /\ hash \in Seq(Bytes) /\ Len(hash) = q /\ (\A i \in 1..h : hash[i] = u[i])
        /\ \A i \in 1..(k - n) : hash[h + i] = tail[i]
    <3>1. hash = u \o tail
      BY <1>24 DEF u
    <3> QED BY <1>23, <1>26, <2>2, <2>3, <3>1 DEF Joined
  <2>5. ASSUME NEW i \in 1..q  PROVE hash[i] = t[i]
    <3>1. CASE i <= h
      <4>1. i \in 1..h
        BY <1>5, <1>25, <3>1
      <4> QED BY <2>1, <2>2, <2>4, <4>1
    <3>2. CASE i > h
      <4> DEFINE y == i - h
      <4>1. y \in 1..(k - n) /\ h + y = i /\ k > a /\ n = a
        BY <1>5, <1>17, <1>19, <1>25, <1>26, <3>2
      <4> HIDE DEF y
      <4>2. n + y \in 1..k
        BY <1>17, <1>19, <4>1
      <4>3. hash[i] = out[p + (n + y)]
        <5>1. hash[i] = tail[y]
          BY <2>4, <4>1
        <5>2. tail[y] = rb[n + y]
          BY <1>23, <4>1
        <5> QED BY <1>15, <4>2, <5>1, <5>2
      <4>4. p + (n + y) = b + 2 + d + i
        BY <1>5, <1>7, <1>8, <1>17, <4>1
      <4>5. i \in 1..HSize
        BY <1>5, <1>25
      <4> QED BY <1>4, <2>1, <4>3, <4>4, <4>5
    <3> QED BY <1>5, <1>25, <3>1, <3>2
  <2>6. hash = t
    BY <2>1, <2>4, <2>5, SameSeq
  <2> QED BY <2>4, <2>6 DEF t
<1>28. /\ x = [in |-> Left(out, l, p + k), phase |-> IF q = HSize THEN 0 ELSE 1, amount |-> a - n,
               hash |-> IF q = HSize THEN <<>> ELSE hash, sum |-> r.sum + n]
       /\ a - n \in Nat /\ r.sum + n \in Nat
  <2>1. a - n \in Nat /\ r.sum + n \in Nat
    BY <1>5, <1>19
  <2> QED BY <1>x, <1>16, <1>21, <1>27, <2>1 DEF a
<1>29. x \in Readers
  <2>1. <<>> \in Seq(Bytes)
    OBVIOUS
  <2> QED BY <1>18, <1>27, <1>28, <2>1 DEF Readers
<1>30. ASSUME q = HSize
       PROVE  n = a /\ r.sum + n = e[j] /\ hash = Mac(e[j]) /\ p + k = o[j] /\ k # 0
  <2>1. k > a /\ n = a
    BY <1>5, <1>17, <1>25, <1>30
  <2>2. MacPart(e[j], HSize) = Mac(e[j])
    BY DEF MacPart, Mac
  <2>3. p + k = b + 2 + d + HSize
    BY <1>5, <1>7, <1>8, <1>17, <1>26, <1>30, <2>1
  <2>4. k # 0
    BY <1>5, <1>17, <2>1
  <2> QED BY <1>4, <1>9, <1>27, <1>30, <2>1, <2>2, <2>3, <2>4
<1>z. Len(data) \in Nat /\ data = DataFrom(r.sum, Len(data))
  BY <1>19, <1>21, <1>22
<1>35. Len(x.in) = l - (p + k) /\ Len(r.in) = l - p /\ l \in Nat
  BY <1>5, <1>10, <1>16, <1>18
<1>31. CASE q = HSize
  <2>1. Between(x, out, l, m, e, o)
    <3>1. x.phase = 0 /\ x.hash = <<>> /\ x.amount = 0 /\ x.in = Left(out, l, o[j]) /\ x.sum = e[j] /\ o[j] <= l
      BY <1>5, <1>17, <1>28, <1>30, <1>31
    <3> QED BY <1>2, <3>1 DEF Between
  <2>2. Len(x.in) < Len(r.in)
    <3>1. p \in Nat /\ k > 0
      BY <1>5, <1>8, <1>17, <1>30, <1>31
    <3> QED BY <1>17, <1>35, <3>1
  <2>3. hash = Mac(r.sum + Len(data))
    BY <1>21, <1>30, <1>31
  <2>4. Len(hash) = HSize /\ Reads(x, out, l, m, e, o)
    BY <1>27, <1>29, <1>31, <2>1 DEF Reads
  <2> QED BY <1>z, <1>29, <2>2, <2>3, <2>4
<1>32. CASE q # HSize /\ k = 0
  <2>1. rb = <<>> /\ data = <<>>
    BY <1>15, <1>19, <1>21, <1>32
  <2>2. l # o[m]
    <3>1. l = p
      BY <1>13, <1>32
    <3>2. o[j] \in Nat
      BY <1>2
    <3>3. c <= d /\ HSize \in Nat /\ h < HSize /\ h \in Nat /\ b \in Nat
      BY <1>5, <1>7
    <3>4. o[j] = b + 2 + d + HSize /\ p = b + 2 + c + h
      BY <1>4, <1>8
    <3>5. p < o[j]
      BY <1>7, <3>3, <3>4
    <3> QED BY <1>3, <1>5, <3>1, <3>2, <3>5
  <2>3. Len(hash) # HSize
    BY <1>27, <1>32
  <2> QED BY <1>z, <1>29, <2>1, <2>2, <2>3
<1>33. CASE q # HSize /\ k # 0
  <2>1. rb # <<>>
    BY <1>15, <1>33
  <2>2. At(x, out, l, e, o, j, q)
    <3>1. x.phase = 1 /\ x.sum = r.sum + n /\ x.amount = a - n /\ x.hash = MacPart(e[j], q) /\ x.in = Left(out, l, p + k)
      BY <1>27, <1>28, <1>33
    <3>2. r.sum + n \in f..e[j] /\ a - n = e[j] - (r.sum + n)
      <4> DEFINE s == r.sum  u == e[j]
      <4>1. s \in f..u /\ s + a = u /\ f \in Nat /\ u \in Nat /\ s \in Nat /\ a \in Nat
        BY <1>5, <1>b, <1>9
      <4> HIDE DEF s, u
      <4>2. s + n \in f..u /\ a - n = u - (s + n)
        BY <1>19, <4>1
      <4> QED BY <4>2 DEF s, u
    <3>3. q # 0 => a - n = 0
      <4>1. CASE k <= a
        BY <1>b, <1>5, <1>19, <1>25, <4>1
      <4>2. CASE k > a
        BY <1>5, <1>25, <4>2
      <4> QED BY <1>5, <1>17, <4>1, <4>2
    <3>4. b + 2 + ((r.sum + n) - f) + q = p + k
      BY <1>5, <1>7, <1>8, <1>17, <1>19, <1>26
    <3> HIDE DEF Left
    <3> QED BY <1>17, <1>a, <3>1, <3>2, <3>3, <3>4 DEF At
  <2>3. q \in 0..(HSize - 1)
    BY <1>5, <1>25, <1>33
  <2>4. Within(x, out, l, m, e, o)
    BY <2>2, <2>3 DEF Within
  <2>5. Len(x.in) < Len(r.in)
    <3>1. p \in Nat /\ k > 0
      BY <1>5, <1>8, <1>17, <1>33
    <3> QED BY <1>17, <1>35, <3>1
  <2>6. Len(hash) # HSize /\ Reads(x, out, l, m, e, o)
    BY <1>27, <1>29, <1>33, <2>4 DEF Reads
  <2> QED BY <1>z, <1>29, <2>1, <2>5, <2>6
<1> QED BY <1>31, <1>32, <1>33

Errs == {"none", "EOF", "ErrUnexpectedEOF"}

ErrOf(x, size, chunk) ==
  LET hash == HashOf(x, size, chunk) IN
  IF Len(hash) = HSize /\ hash # Mac(x.sum + Len(DataOf(x, size, chunk))) THEN "ErrInvalidMac"
  ELSE IF Len(hash) # HSize /\ Taken(x, size, chunk) = <<>> THEN "ErrUnexpectedEOF" ELSE "none"

LEMMA ReadIs ==
  ASSUME NEW r, NEW x, Read0(r) = [r |-> x, err |-> "none"], NEW size, NEW chunk
  PROVE  Read(r, size, chunk) =
           [data |-> DataOf(x, size, chunk), err |-> ErrOf(x, size, chunk), r |-> After(x, size, chunk)]
<1>1. Read0(r).r = x /\ Read0(r).err = "none"
  OBVIOUS
<1> QED BY <1>1 DEF Read, Taken, Wanted, DataOf, HashOf, ErrOf, After

\* One Read of r hands out data, says err and leaves x.
Step(r, out, l, m, e, o, k, err, x) ==
  /\ k \in Nat /\ x \in Readers /\ err \in Errs
  /\ \/ err = "none" /\ Reads(x, out, l, m, e, o) /\ x.sum = r.sum + k /\ Len(x.in) < Len(r.in)
     \/ err = "EOF" /\ k = 0 /\ \E j \in 0..m : o[j] = l /\ r.sum = e[j]
     \/ err = "ErrUnexpectedEOF" /\ k = 0 /\ l # o[m]

\* After the header.
LEMMA RestRead ==
  ASSUME NEW out \in Seq(Bytes), NEW m \in Nat, NEW e, NEW o, Framed(out, m, e, o), NEW l \in 0..Len(out),
         NEW r \in Readers, NEW size \in Nat \ {0}, NEW chunk \in Nat \ {0},
         NEW y \in Readers, Read0(r) = [r |-> y, err |-> "none"], Within(y, out, l, m, e, o),
         y.sum = r.sum, Len(y.in) <= Len(r.in)
  PROVE  \E k, err, x :
           /\ Read(r, size, chunk) = [data |-> DataFrom(r.sum, k), err |-> err, r |-> x]
           /\ Step(r, out, l, m, e, o, k, err, x)
<1> DEFINE rb == Taken(y, size, chunk)  data == DataOf(y, size, chunk)  hash == HashOf(y, size, chunk)
           x == After(y, size, chunk)  k == Len(data)  err == ErrOf(y, size, chunk)
<1>1. Read(r, size, chunk) = [data |-> data, err |-> err, r |-> x]
  BY ReadIs
<1>2. /\ k \in Nat /\ data = DataFrom(y.sum, k) /\ x \in Readers
      /\ Len(hash) = HSize => hash = Mac(y.sum + k)
      /\ IF rb = <<>> /\ Len(hash) # HSize
         THEN data = <<>> /\ l # o[m]
         ELSE Reads(x, out, l, m, e, o) /\ Len(x.in) < Len(y.in)
  BY BodyRead
<1>3. x.sum = y.sum + k
  BY DEF After
<1>4. err = IF Len(hash) = HSize /\ hash # Mac(y.sum + k) THEN "ErrInvalidMac"
            ELSE IF Len(hash) # HSize /\ rb = <<>> THEN "ErrUnexpectedEOF" ELSE "none"
  BY DEF ErrOf
<1>5. data = <<>> => k = 0
  OBVIOUS
<1> HIDE DEF rb, data, hash, x, k, err
<1>6. data = DataFrom(r.sum, k) /\ x.sum = r.sum + k
  BY <1>2, <1>3
<1>7. CASE rb = <<>> /\ Len(hash) # HSize
  <2>1. err = "ErrUnexpectedEOF" /\ k = 0 /\ l # o[m]
    BY <1>2, <1>4, <1>5, <1>7
  <2>2. Step(r, out, l, m, e, o, k, err, x)
    <3>1. err \in Errs
      BY <2>1 DEF Errs
    <3>2. k \in Nat /\ x \in Readers
      BY <1>2
    <3> QED BY <2>1, <3>1, <3>2 DEF Step
  <2> QED BY <1>1, <1>6, <2>2
<1>8. CASE ~(rb = <<>> /\ Len(hash) # HSize)
  <2>1. Len(x.in) < Len(r.in)
    <3>1. Len(x.in) \in Nat /\ Len(y.in) \in Nat /\ Len(r.in) \in Nat
      BY <1>2, InLength
    <3>2. Len(x.in) < Len(y.in)
      BY <1>2, <1>8
    <3> QED BY <3>1, <3>2
  <2>2. err = "none" /\ Reads(x, out, l, m, e, o)
    BY <1>2, <1>4, <1>8
  <2>3. Step(r, out, l, m, e, o, k, err, x)
    <3>1. err \in Errs
      BY <2>2 DEF Errs
    <3>2. k \in Nat /\ x \in Readers
      BY <1>2
    <3> QED BY <1>6, <2>1, <2>2, <3>1, <3>2 DEF Step
  <2> QED BY <1>1, <1>6, <2>3
<1> QED BY <1>7, <1>8

LEMMA ReadKeeps ==
  ASSUME NEW out \in Seq(Bytes), NEW m \in Nat, NEW e, NEW o, Framed(out, m, e, o), NEW l \in 0..Len(out),
         NEW r \in Readers, Reads(r, out, l, m, e, o), NEW size \in Nat \ {0}, NEW chunk \in Nat \ {0}
  PROVE  \E k, err, x :
           /\ Read(r, size, chunk) = [data |-> DataFrom(r.sum, k), err |-> err, r |-> x]
           /\ Step(r, out, l, m, e, o, k, err, x)
<1>1. DataFrom(r.sum, 0) = <<>>
  BY DEF DataFrom
<1>2. CASE Within(r, out, l, m, e, o)
  <2>1. r.phase = 1
    BY <1>2 DEF Within, At
  <2>2. Read0(r) = [r |-> r, err |-> "none"]
    BY <2>1 DEF Read0
  <2>3. Len(r.in) <= Len(r.in)
    BY DEF Readers
  <2> QED BY <1>2, <2>2, <2>3, RestRead
<1>3. ASSUME NEW x, NEW err \in {"EOF", "ErrUnexpectedEOF"}, Read0(r) = [r |-> x, err |-> err]
      PROVE  Read(r, size, chunk) = [data |-> DataFrom(r.sum, 0), err |-> err, r |-> x]
  <2>1. Read0(r).err = err /\ Read0(r).r = x
    BY <1>3
  <2>2. err # "none"
    BY <1>3
  <2>3. Read(r, size, chunk) = [data |-> <<>>, err |-> err, r |-> x]
    BY <2>1, <2>2 DEF Read
  <2> QED BY <1>1, <2>3
<1>4. CASE Between(r, out, l, m, e, o)
  <2>1. CASE Read0(r) = [r |-> r, err |-> "EOF"] /\ \E j \in 0..m : o[j] = l /\ r.sum = e[j]
    <3>1. Read(r, size, chunk) = [data |-> DataFrom(r.sum, 0), err |-> "EOF", r |-> r]
      BY <1>3, <2>1
    <3>2. Step(r, out, l, m, e, o, 0, "EOF", r)
      <4>1. 0 \in Nat /\ "EOF" \in Errs
        BY DEF Errs
      <4> QED BY <2>1, <4>1 DEF Step
    <3> QED BY <3>1, <3>2
  <2>2. CASE l # o[m] /\ \E x \in Readers : Read0(r) = [r |-> x, err |-> "ErrUnexpectedEOF"]
    <3>1. PICK x \in Readers : Read0(r) = [r |-> x, err |-> "ErrUnexpectedEOF"]
      BY <2>2
    <3>2. Read(r, size, chunk) = [data |-> DataFrom(r.sum, 0), err |-> "ErrUnexpectedEOF", r |-> x]
      BY <1>3, <3>1
    <3>3. Step(r, out, l, m, e, o, 0, "ErrUnexpectedEOF", x)
      <4>1. 0 \in Nat /\ "ErrUnexpectedEOF" \in Errs
        BY DEF Errs
      <4> QED BY <2>2, <4>1 DEF Step
    <3> QED BY <3>2, <3>3
  <2>3. CASE \E x \in Readers :
               /\ Read0(r) = [r |-> x, err |-> "none"]
               /\ Within(x, out, l, m, e, o) /\ x.sum = r.sum /\ Len(x.in) < Len(r.in)
    <3>1. PICK y \in Readers :
               /\ Read0(r) = [r |-> y, err |-> "none"]
               /\ Within(y, out, l, m, e, o) /\ y.sum = r.sum /\ Len(y.in) < Len(r.in)
      BY <2>3
    <3>2. Len(y.in) <= Len(r.in)
      <4>1. Len(y.in) \in Nat /\ Len(r.in) \in Nat
        BY DEF Readers
      <4> QED BY <3>1, <4>1
    <3> QED BY <3>1, <3>2, RestRead
  <2> QED BY <1>4, <2>1, <2>2, <2>3, HeaderRead
<1> QED BY <1>2, <1>4 DEF Reads

LEMMA DataJoins ==
  ASSUME NEW k \in Nat, NEW n \in Nat
  PROVE  DataFrom(0, k) \o DataFrom(k, n) = DataFrom(0, k + n)
<1> DEFINE s == DataFrom(0, k)  t == DataFrom(k, n)  u == DataFrom(0, k + n)  v == s \o t
<1>1. s \in Seq(Bytes) /\ Len(s) = k /\ \A i \in 1..k : s[i] = <<"data", 0 + i>>
  BY DataIs
<1>2. t \in Seq(Bytes) /\ Len(t) = n /\ \A i \in 1..n : t[i] = <<"data", k + i>>
  BY DataIs
<1>3. u \in Seq(Bytes) /\ Len(u) = k + n /\ \A i \in 1..(k + n) : u[i] = <<"data", 0 + i>>
  <2>1. 0 \in Nat /\ k + n \in Nat
    OBVIOUS
  <2> QED BY <2>1, DataIs
<1> HIDE DEF s, t, u
<1>4. Joined(Bytes, s \o t, s, t)
  BY <1>1, <1>2, Joins
<1>5. v \in Seq(Bytes) /\ Len(v) = k + n /\ (\A i \in 1..k : v[i] = s[i]) /\ \A i \in 1..n : v[k + i] = t[i]
  BY <1>1, <1>2, <1>4 DEF Joined
<1> HIDE DEF v
<1>6. ASSUME NEW i \in 1..(k + n)  PROVE v[i] = u[i]
  <2>1. CASE i \in 1..k
    BY <1>1, <1>3, <1>5, <2>1
  <2>2. CASE i > k
    <3> DEFINE y == i - k
    <3>1. y \in 1..n /\ k + y = i /\ 0 + i = i
      BY <2>2
    <3> HIDE DEF y
    <3> QED BY <1>2, <1>3, <1>5, <3>1
  <2> QED BY <2>1, <2>2
<1>7. v = u
  BY <1>3, <1>5, <1>6, SameSeq
<1> QED BY <1>7 DEF v, s, t, u

\* What reading has come to.
Got(p, out, l, m, e, o) ==
  \E k \in 0..e[m] :
    /\ p.data = DataFrom(0, k)
    /\ \/ p.err = "none" /\ Reads(p.r, out, l, m, e, o) /\ p.r.sum = k
       \/ p.err = "EOF" /\ \E j \in 0..m : o[j] = l /\ k = e[j]
       \/ p.err = "ErrUnexpectedEOF" /\ l # o[m]

Gotten(out, l, m, e, o) ==
  {p \in [data : Seq(Bytes), err : Errs, r : Readers] : Got(p, out, l, m, e, o)}

LEMMA SumWithin ==
  ASSUME NEW out, NEW m \in Nat, NEW e, NEW o, Framed(out, m, e, o), NEW l, NEW r \in Readers,
         Reads(r, out, l, m, e, o)
  PROVE  r.sum \in 0..e[m] /\ e[m] \in Nat
<1>1. e \in [0..m -> Nat] /\ m \in 0..m
  BY DEF Framed
<1>2. r.sum \in Nat /\ e[m] \in Nat
  BY <1>1 DEF Readers
<1>3. CASE Between(r, out, l, m, e, o)
  <2>1. PICK j \in 0..m : r.sum = e[j]
    BY <1>3 DEF Between
  <2>2. e[j] <= e[m]
    <3>1. j <= m
      OBVIOUS
    <3> QED BY <1>1, <3>1, FramesGrow
  <2> QED BY <1>2, <2>1, <2>2
<1>4. CASE Within(r, out, l, m, e, o)
  <2>1. PICK j \in 1..m : r.sum \in e[j - 1]..e[j]
    BY <1>4 DEF Within, At
  <2>2. e[j] <= e[m] /\ e[j] \in Nat /\ e[j - 1] \in Nat
    <3>1. j <= m /\ j \in 0..m /\ j - 1 \in 0..m
      OBVIOUS
    <3>2. e[j] <= e[m]
      BY <1>1, <3>1, FramesGrow
    <3> QED BY <1>1, <3>1, <3>2
  <2> QED BY <1>2, <2>1, <2>2
<1> QED BY <1>3, <1>4 DEF Reads

\* One more Read after p.
Then(p, size, chunk) ==
  LET n == Read(p.r, size, chunk)
  IN  IF p.err # "none" THEN p ELSE [data |-> p.data \o n.data, err |-> n.err, r |-> n.r]

LEMMA ThenKeeps ==
  ASSUME NEW out \in Seq(Bytes), NEW m \in Nat, NEW e, NEW o, Framed(out, m, e, o), NEW l \in 0..Len(out),
         NEW p \in Gotten(out, l, m, e, o), NEW size \in Nat \ {0}, NEW chunk \in Nat \ {0}
  PROVE  LET q == Then(p, size, chunk) IN
         /\ q \in Gotten(out, l, m, e, o)
         /\ q.err = "none" => p.err = "none" /\ Len(q.r.in) < Len(p.r.in)
<1>1. CASE p.err # "none"
  <2>1. Then(p, size, chunk) = p
    BY <1>1 DEF Then
  <2> QED BY <1>1, <2>1
<1>2. CASE p.err = "none"
  <2> DEFINE r == p.r  q == Then(p, size, chunk)
  <2>1. PICK k \in 0..e[m] : p.data = DataFrom(0, k) /\ Reads(r, out, l, m, e, o) /\ r.sum = k
    BY <1>2 DEF Gotten, Got
  <2>2. r \in Readers
    BY DEF Gotten
  <2> HIDE DEF r
  <2>3. PICK n, err, x :
          /\ Read(r, size, chunk) = [data |-> DataFrom(r.sum, n), err |-> err, r |-> x]
          /\ Step(r, out, l, m, e, o, n, err, x)
    <3>1. Reads(r, out, l, m, e, o) /\ r \in Readers
      BY <2>1, <2>2
    <3> QED BY <3>1, ReadKeeps
  <2>0. n \in Nat /\ x \in Readers /\ err \in Errs
    BY <2>3 DEF Step
  <2>4. r.sum = k /\ k \in Nat /\ e[m] \in Nat
    <3>1. r.sum \in 0..e[m] /\ e[m] \in Nat
      BY <2>1, <2>2, SumWithin
    <3> QED BY <2>1, <3>1
  <2>5. q = [data |-> DataFrom(0, k) \o DataFrom(k, n), err |-> err, r |-> x]
    <3>1. q = [data |-> p.data \o Read(r, size, chunk).data, err |-> Read(r, size, chunk).err, r |-> Read(r, size, chunk).r]
      BY <1>2 DEF Then, r
    <3> HIDE DEF q
    <3>2. /\ Read(r, size, chunk).data = DataFrom(r.sum, n) /\ Read(r, size, chunk).err = err
          /\ Read(r, size, chunk).r = x
      BY <2>3
    <3> QED BY <2>1, <2>4, <3>1, <3>2
  <2>6. q = [data |-> DataFrom(0, k + n), err |-> err, r |-> x]
    BY <2>0, <2>4, <2>5, DataJoins
  <2> HIDE DEF q
  <2>7. DataFrom(0, k + n) \in Seq(Bytes) /\ k + n \in Nat
    <3>1. k + n \in Nat /\ 0 \in Nat
      BY <2>0, <2>4
    <3> QED BY <3>1, DataIs
  <2>8. q \in [data : Seq(Bytes), err : Errs, r : Readers]
    BY <2>0, <2>6, <2>7
  <2>9. q.data = DataFrom(0, k + n) /\ q.err = err /\ q.r = x
    BY <2>6
  <2>10. CASE err = "none" /\ Reads(x, out, l, m, e, o) /\ x.sum = r.sum + n /\ Len(x.in) < Len(r.in)
    <3>1. k + n \in 0..e[m]
      BY <2>0, <2>4, <2>10, SumWithin
    <3>2. Got(q, out, l, m, e, o)
      BY <2>4, <2>9, <2>10, <3>1 DEF Got
    <3> QED BY <1>2, <2>8, <2>9, <2>10, <3>2 DEF Gotten, q, r
  <2>11. CASE err = "EOF" /\ n = 0 /\ \E j \in 0..m : o[j] = l /\ r.sum = e[j]
    <3>1. k + n = k
      BY <2>4, <2>11
    <3>2. Got(q, out, l, m, e, o)
      BY <2>4, <2>9, <2>11, <3>1 DEF Got
    <3>3. err # "none"
      BY <2>11
    <3> QED BY <2>8, <2>9, <3>2, <3>3 DEF Gotten, q
  <2>12. CASE err = "ErrUnexpectedEOF" /\ n = 0 /\ l # o[m]
    <3>1. k + n = k
      BY <2>4, <2>12
    <3>2. Got(q, out, l, m, e, o)
      <4>1. k \in 0..e[m] /\ q.data = DataFrom(0, k) /\ q.err = "ErrUnexpectedEOF" /\ l # o[m]
        BY <2>1, <2>9, <2>12, <3>1
      <4> QED BY <4>1 DEF Got
    <3>3. err # "none"
      BY <2>12
    <3> QED BY <2>8, <2>9, <3>2, <3>3 DEF Gotten, q
  <2> QED BY <2>3, <2>10, <2>11, <2>12 DEF Step
<1> QED BY <1>1, <1>2

LEMMA CycleIs ==
  ASSUME NEW S, NEW s \in Seq(S), s # <<>>, NEW i \in Nat \ {0}
  PROVE  Cycle(s, i) \in S
<1> DEFINE n == Len(s)  a == i - 1  k == a % n
<1>1. n \in Nat \ {0} /\ a \in Nat
  OBVIOUS
<1> HIDE DEF n, a
<1>2. k \in 0..(n - 1)
  BY <1>1
<1> HIDE DEF k
<1>3. k + 1 \in 1..n
  BY <1>1, <1>2
<1>4. s[k + 1] \in S
  BY <1>3 DEF n
<1> QED BY <1>4 DEF Cycle, k, a, n

\* Before the first Read.
LEMMA FirstIs ==
  ASSUME NEW out \in Seq(Bytes), NEW m \in Nat, NEW e, NEW o, Framed(out, m, e, o), NEW l \in 0..Len(out)
  PROVE  LET in == SubSeq(out, 1, l)  p == [data |-> <<>>, err |-> "none", r |-> NewReader(in)] IN
         p \in Gotten(out, l, m, e, o) /\ Len(p.r.in) = l
<1> DEFINE in == SubSeq(out, 1, l)  r == NewReader(in)  p == [data |-> <<>>, err |-> "none", r |-> r]
<1>1. in \in Seq(Bytes) /\ Len(in) = l
  OBVIOUS
<1>2. Left(out, l, 0) = in
  <2>1. Left(out, l, 0) = SubSeq(in, 1, l)
    BY DEF Left
  <2> HIDE DEF in
  <2>2. SubSeq(in, 1, Len(in)) = in
    BY <1>1
  <2> QED BY <1>1, <2>1, <2>2
<1> HIDE DEF in
<1>3. e \in [0..m -> Nat] /\ e[0] = 0 /\ o[0] = 0
  BY DEF Framed
<1>4. r \in Readers /\ r.in = in /\ r.sum = 0 /\ r.phase = 0 /\ r.hash = <<>> /\ r.amount = 0
  <2>1. <<>> \in Seq(Bytes)
    OBVIOUS
  <2> QED BY <1>1, <2>1 DEF NewReader, Readers
<1> HIDE DEF r
<1>5. 0 \in 0..m /\ o[0] <= l /\ r.in = Left(out, l, o[0]) /\ r.sum = e[0]
  BY <1>2, <1>3, <1>4
<1>6. Reads(r, out, l, m, e, o)
  BY <1>4, <1>5 DEF Reads, Between
<1>7. DataFrom(0, 0) = <<>> /\ 0 \in 0..e[m]
  <2>1. e[m] \in Nat
    BY <1>3
  <2> QED BY <2>1 DEF DataFrom
<1>8. p.data = <<>> /\ p.err = "none" /\ p.r = r
  OBVIOUS
<1>9. p \in [data : Seq(Bytes), err : Errs, r : Readers]
  <2>1. <<>> \in Seq(Bytes) /\ "none" \in Errs
    BY DEF Errs
  <2> QED BY <1>4, <2>1
<1> HIDE DEF p
<1>10. Got(p, out, l, m, e, o)
  BY <1>4, <1>6, <1>7, <1>8 DEF Got
<1>11. p \in Gotten(out, l, m, e, o)
  BY <1>9, <1>10 DEF Gotten
<1>12. Len(p.r.in) = l
  BY <1>1, <1>4, <1>8
<1> QED BY <1>11, <1>12 DEF p, r, in

\* Reading to the end.
LEMMA ReadAllIs ==
  ASSUME NEW out \in Seq(Bytes), NEW m \in Nat, NEW e, NEW o, Framed(out, m, e, o), NEW l \in 0..Len(out),
         NEW sizes \in Seq(Nat \ {0}), sizes # <<>>, NEW chunks \in Seq(Nat \ {0}), chunks # <<>>
  PROVE  LET p == ReadAll(SubSeq(out, 1, l), sizes, chunks) IN p \in Gotten(out, l, m, e, o) /\ p.err # "none"
<1> DEFINE in == SubSeq(out, 1, l)
           S == Gotten(out, l, m, e, o)
           base == [data |-> <<>>, err |-> "none", r |-> NewReader(in)]
           last == 2 * Len(in) + 2
           step == [i \in 1..last |-> [p \in S |-> Then(p, Cycle(sizes, i), Cycle(chunks, i))]]
           P(g) == g = [i \in 0..last |->
                          IF i = 0 THEN [data |-> <<>>, err |-> "none", r |-> NewReader(in)]
                          ELSE LET p == g[i - 1]  n == Read(p.r, Cycle(sizes, i), Cycle(chunks, i))
                               IN  IF p.err # "none" THEN p
                                   ELSE [data |-> p.data \o n.data, err |-> n.err, r |-> n.r]]
           g == CHOOSE g : P(g)
<1>1. in \in Seq(Bytes) /\ Len(in) = l /\ l \in Nat /\ last = 2 * l + 2
  OBVIOUS
<1>2. last \in Nat /\ l < last
  BY <1>1
<1>3. base \in S /\ Len(base.r.in) = l /\ base.err = "none"
  BY FirstIs
<1>4. ReadAll(in, sizes, chunks) = g[last]
  BY DEF ReadAll
<1>5. \A f : P(f) <=> f = [i \in 0..last |-> IF i = 0 THEN base ELSE Then(f[i - 1], Cycle(sizes, i), Cycle(chunks, i))]
  <2> HIDE DEF last
  <2> QED BY DEF Then
<1>6. \A i \in 1..last : Cycle(sizes, i) \in Nat \ {0} /\ Cycle(chunks, i) \in Nat \ {0}
  <2>1. \A i \in 1..last : i \in Nat \ {0}
    BY <1>2
  <2> HIDE DEF last
  <2> QED BY <2>1, CycleIs
<1> HIDE DEF in, base, last, P, g
<1>7. ASSUME NEW p \in S, NEW i \in 1..last
      PROVE  LET q == Then(p, Cycle(sizes, i), Cycle(chunks, i)) IN
             /\ q \in S
             /\ q.err = "none" => p.err = "none" /\ Len(q.r.in) < Len(p.r.in)
  <2>1. Cycle(sizes, i) \in Nat \ {0} /\ Cycle(chunks, i) \in Nat \ {0}
    BY <1>6
  <2> QED BY <2>1, ThenKeeps
<1>20. ASSUME NEW p \in S  PROVE Len(p.r.in) \in Nat
  <2>1. p.r \in Readers
    BY DEF Gotten
  <2>2. p.r.in \in Seq(Bytes)
    BY <2>1 DEF Readers
  <2> QED BY <2>2
<1> HIDE DEF S
<1>8. step \in [1..last -> [S -> S]]
  BY <1>7
<1>9. PICK f : Grows(f, last, base, step) /\ \A i \in 0..last : f[i] \in S
  <2> HIDE DEF step
  <2> QED BY <1>2, <1>3, <1>8, Recursion
<1>10. P(f)
  <2>1. f = [i \in 0..last |-> f[i]] /\ f[0] = base /\ \A i \in 1..last : f[i] = step[i][f[i - 1]]
    <3> HIDE DEF step
    <3> QED BY <1>9 DEF Grows
  <2>2. ASSUME NEW i \in 1..last
        PROVE  f[i] = Then(f[i - 1], Cycle(sizes, i), Cycle(chunks, i))
    <3>1. i - 1 \in 0..last
      BY <1>2
    <3>2. f[i - 1] \in S
      BY <1>9, <3>1
    <3> QED BY <2>1, <3>2
  <2>3. \A i \in 0..last : f[i] = IF i = 0 THEN base ELSE Then(f[i - 1], Cycle(sizes, i), Cycle(chunks, i))
    <3>1. \A i \in 0..last : i = 0 \/ i \in 1..last
      BY <1>2
    <3> HIDE DEF step
    <3> QED BY <2>1, <2>2, <3>1
  <2> HIDE DEF step
  <2> QED BY <1>5, <2>1, <2>3
<1>11. P(g)
  BY <1>10 DEF g
<1>12. g = [i \in 0..last |-> IF i = 0 THEN base ELSE Then(g[i - 1], Cycle(sizes, i), Cycle(chunks, i))]
  BY <1>5, <1>11
<1>13. g[0] = base /\ \A i \in 1..last : g[i] = Then(g[i - 1], Cycle(sizes, i), Cycle(chunks, i))
  <2>1. 0 \in 0..last /\ \A i \in 1..last : i \in 0..last /\ i # 0
    BY <1>2
  <2> QED BY <1>12, <2>1
<1> DEFINE Q(i) == i <= last => g[i] \in S /\ (g[i].err = "none" => Len(g[i].r.in) + i <= l)
           R == {i \in Nat : Q(i)}
<1>14. Q(0)
  BY <1>1, <1>3, <1>13
<1>15. ASSUME NEW i \in Nat, Q(i)  PROVE Q(i + 1)
  <2> HAVE i + 1 <= last
  <2>1. i + 1 \in 1..last /\ (i + 1) - 1 = i /\ i <= last
    BY <1>2
  <2>2. g[i] \in S /\ (g[i].err = "none" => Len(g[i].r.in) + i <= l)
    BY <1>15, <2>1
  <2>3. g[i + 1] = Then(g[i], Cycle(sizes, i + 1), Cycle(chunks, i + 1))
    BY <1>13, <2>1
  <2>4. g[i + 1] \in S /\ (g[i + 1].err = "none" => g[i].err = "none" /\ Len(g[i + 1].r.in) < Len(g[i].r.in))
    BY <1>7, <2>1, <2>2, <2>3
  <2>5. Len(g[i + 1].r.in) \in Nat /\ Len(g[i].r.in) \in Nat
    BY <1>20, <2>2, <2>4
  <2> DEFINE a == Len(g[i + 1].r.in)  b == Len(g[i].r.in)
  <2>6. ASSUME g[i + 1].err = "none"  PROVE a + (i + 1) <= l
    <3>1. a < b /\ b + i <= l /\ a \in Nat /\ b \in Nat
      BY <2>2, <2>4, <2>5, <2>6
    <3> HIDE DEF a, b
    <3> QED BY <1>1, <3>1
  <2> QED BY <2>4, <2>6
<1> HIDE DEF Q
<1>16. 0 \in R /\ \A i \in Nat : i \in R => i + 1 \in R
  BY <1>14, <1>15
<1>17. last \in R
  <2> HIDE DEF R
  <2> QED BY <1>2, <1>16, Induction
<1>18. g[last] \in S /\ (g[last].err = "none" => Len(g[last].r.in) + last <= l)
  <2>1. last <= last
    BY <1>2
  <2> QED BY <1>17, <2>1 DEF Q
<1>19. g[last].err # "none"
  <2>1. Len(g[last].r.in) \in Nat
    BY <1>18, <1>20
  <2> DEFINE a == Len(g[last].r.in)
  <2>2. ~(a + last <= l)
    <3>1. a \in Nat
      BY <2>1
    <3> HIDE DEF a
    <3> QED BY <1>1, <1>2, <3>1
  <2> QED BY <1>18, <2>2
<1> QED BY <1>4, <1>18, <1>19 DEF S, in

Written(w, n) == Write(w, [i \in 1..n |-> <<"data", w.sum + i>>])

LEMMA WrittenIs ==
  ASSUME NEW w \in Writers, NEW n \in Nat
  PROVE  /\ Written(w, n) \in Writers
         /\ Flushes(w, MaxLen - 1) => Written(w, n).sum = w.sum + n /\ Flushes(Written(w, n), MaxLen - 1)
<1>1. Written(w, n) = Write(w, DataFrom(w.sum, n))
  BY DEF Written, DataFrom
<1>2. LET r == Write(w, DataFrom(w.sum, n)) IN
      r \in Writers /\ (Flushes(w, MaxLen - 1) => r.sum = w.sum + n /\ Flushes(r, MaxLen - 1))
  BY WriteKeeps
<1> QED BY <1>1, <1>2

WriteAll(w, data) == FoldLeft(LAMBDA v, n : Write(v, [i \in 1..n |-> <<"data", v.sum + i>>]), w, data)

LEMMA WritesChain ==
  ASSUME NEW w \in Writers, NEW data \in Seq(Nat)
  PROVE  \E c \in [0..Len(data) -> Writers] :
           /\ c[0] = w
           /\ WriteAll(w, data) = c[Len(data)]
           /\ \A i \in 1..Len(data) : c[i] = Written(c[i - 1], data[i])
<1> DEFINE n == Len(data)
           step == [i \in 1..n |-> [x \in Writers |-> Written(x, data[i])]]
           P(g) == g = [s \in SUBSET DOMAIN data |->
                          IF s = {} THEN w
                          ELSE Write(g[s \ {Max(s)}], [i \in 1..data[Max(s)] |-> <<"data", g[s \ {Max(s)}].sum + i>>])]
<1>1. n \in Nat /\ DOMAIN data = 1..n
  OBVIOUS
<1>2. \A i \in 1..n : data[i] \in Nat
  OBVIOUS
<1>3. step \in [1..n -> [Writers -> Writers]]
  BY <1>2, WrittenIs
<1>4. PICK f : FoldsBy(f, n, w, step) /\ \A s \in SUBSET (1..n) : f[s] \in Writers
  <2> HIDE DEF n, step
  <2> QED BY <1>1, <1>3, FoldIsThere
<1>0. \A g : P(g) <=> g = [s \in SUBSET DOMAIN data |-> IF s = {} THEN w ELSE Written(g[s \ {Max(s)}], data[Max(s)])]
  BY DEF Written
<1> DEFINE g == CHOOSE g : P(g)
<1>6. WriteAll(w, data) = g[DOMAIN data]
  BY DEF WriteAll, FoldLeft, MapThenFoldSet
<1> HIDE DEF P
<1>5. P(f)
  <2>1. ASSUME NEW s \in SUBSET (1..n), s # {}
        PROVE  f[s] = Written(f[s \ {Max(s)}], data[Max(s)])
    <3>1. Max(s) \in 1..n
      <4> HIDE DEF n
      <4> QED BY <1>1, <2>1, MaxInside
    <3>2. f[s \ {Max(s)}] \in Writers
      BY <1>4
    <3>3. f[s] = step[Max(s)][f[s \ {Max(s)}]]
      <4> HIDE DEF n, step
      <4> QED BY <1>4, <2>1 DEF FoldsBy
    <3> QED BY <3>1, <3>2, <3>3
  <2>2. f = [s \in SUBSET (1..n) |-> f[s]] /\ f[{}] = w
    BY <1>4 DEF FoldsBy
  <2>3. \A s \in SUBSET (1..n) : f[s] = IF s = {} THEN w ELSE Written(f[s \ {Max(s)}], data[Max(s)])
    BY <2>1, <2>2
  <2> HIDE DEF n
  <2> QED BY <1>0, <1>1, <2>2, <2>3
<1>7. P(g)
  BY <1>5
<1> HIDE DEF g
<1>g. g = [s \in SUBSET DOMAIN data |-> IF s = {} THEN w ELSE Written(g[s \ {Max(s)}], data[Max(s)])]
  BY <1>0, <1>7
<1> DEFINE c == [i \in 0..n |-> g[1..i]]
<1>8. c[0] = w
  <2>1. 1..0 = {}
    OBVIOUS
  <2> QED BY <1>1, <1>g, <2>1
<1>9. ASSUME NEW i \in 1..n  PROVE c[i] = Written(c[i - 1], data[i])
  <2>1. Max(1..i) = i /\ (1..i) \ {i} = 1..(i - 1) /\ 1..i # {}
    BY UpToAll
  <2>2. g[1..i] = Written(g[(1..i) \ {Max(1..i)}], data[Max(1..i)])
    <3>1. 1..i \in SUBSET DOMAIN data
      BY <1>1
    <3> QED BY <1>g, <2>1, <3>1
  <2>3. i \in 0..n /\ i - 1 \in 0..n
    BY <1>1
  <2>4. c[i] = g[1..i] /\ c[i - 1] = g[1..(i - 1)]
    BY <2>3
  <2> HIDE DEF c
  <2> QED BY <2>1, <2>2, <2>4
<1>10. g[DOMAIN data] = c[n]
  BY <1>1
<1>11. c = [i \in 0..n |-> c[i]]
  OBVIOUS
<1> HIDE DEF c
<1> DEFINE S == {i \in Nat : i <= n => c[i] \in Writers}
<1>12. 0 \in S
  BY <1>8
<1>13. ASSUME NEW i \in Nat, i \in S  PROVE i + 1 \in S
  <2>1. CASE i + 1 <= n
    <3>1. i + 1 \in 1..n /\ (i + 1) - 1 = i /\ c[i] \in Writers
      BY <1>1, <1>13, <2>1
    <3>2. c[i + 1] = Written(c[i], data[i + 1]) /\ data[i + 1] \in Nat
      BY <1>2, <1>9, <3>1
    <3> QED BY <3>1, <3>2, WrittenIs
  <2>2. CASE ~(i + 1 <= n)
    BY <2>2
  <2> QED BY <2>1, <2>2
<1>14. \A i \in Nat : i \in S
  <2> HIDE DEF S
  <2> QED BY <1>12, <1>13, Induction
<1>15. c \in [0..n -> Writers]
  BY <1>1, <1>11, <1>14
<1> QED BY <1>6, <1>8, <1>9, <1>10, <1>15

LEMMA SumsChain ==
  ASSUME NEW data \in Seq(Nat)
  PROVE  \E c \in [0..Len(data) -> Nat] :
           /\ c[0] = 0 /\ FoldLeft(LAMBDA m, n : m + n, 0, data) = c[Len(data)]
           /\ \A i \in 1..Len(data) : c[i] = c[i - 1] + data[i]
<1> DEFINE n == Len(data)
           step == [i \in 1..n |-> [x \in Nat |-> x + data[i]]]
           P(g) == g = [s \in SUBSET DOMAIN data |-> IF s = {} THEN 0 ELSE g[s \ {Max(s)}] + data[Max(s)]]
           g == CHOOSE g : P(g)
<1>1. n \in Nat /\ DOMAIN data = 1..n
  OBVIOUS
<1>2. \A i \in 1..n : data[i] \in Nat
  OBVIOUS
<1>3. step \in [1..n -> [Nat -> Nat]]
  BY <1>2
<1>4. PICK f : FoldsBy(f, n, 0, step) /\ \A s \in SUBSET (1..n) : f[s] \in Nat
  <2>1. 0 \in Nat
    OBVIOUS
  <2> HIDE DEF n, step
  <2> QED BY <1>1, <1>3, <2>1, FoldIsThere
<1>5. P(f)
  <2>1. ASSUME NEW s \in SUBSET (1..n), s # {}
        PROVE  f[s] = f[s \ {Max(s)}] + data[Max(s)]
    <3>1. Max(s) \in 1..n
      <4> HIDE DEF n
      <4> QED BY <1>1, <2>1, MaxInside
    <3>2. f[s \ {Max(s)}] \in Nat
      BY <1>4
    <3>3. f[s] = step[Max(s)][f[s \ {Max(s)}]]
      <4> HIDE DEF n, step
      <4> QED BY <1>4, <2>1 DEF FoldsBy
    <3> QED BY <3>1, <3>2, <3>3
  <2>2. f = [s \in SUBSET (1..n) |-> f[s]] /\ f[{}] = 0
    BY <1>4 DEF FoldsBy
  <2>3. \A s \in SUBSET (1..n) : f[s] = IF s = {} THEN 0 ELSE f[s \ {Max(s)}] + data[Max(s)]
    BY <2>1, <2>2
  <2> HIDE DEF n
  <2> QED BY <1>1, <2>2, <2>3
<1>6. FoldLeft(LAMBDA m, k : m + k, 0, data) = g[DOMAIN data]
  BY DEF FoldLeft, MapThenFoldSet
<1>7. P(g)
  <2> HIDE DEF P
  <2> QED BY <1>5
<1> HIDE DEF g
<1> DEFINE c == [i \in 0..n |-> g[1..i]]
<1>8. c[0] = 0
  <2>1. 1..0 = {}
    OBVIOUS
  <2> QED BY <1>1, <1>7, <2>1
<1>9. ASSUME NEW i \in 1..n  PROVE c[i] = c[i - 1] + data[i]
  <2>1. Max(1..i) = i /\ (1..i) \ {i} = 1..(i - 1) /\ 1..i # {}
    BY UpToAll
  <2>2. g[1..i] = g[(1..i) \ {Max(1..i)}] + data[Max(1..i)]
    <3>1. 1..i \in SUBSET DOMAIN data
      BY <1>1
    <3> QED BY <1>7, <2>1, <3>1
  <2>3. i \in 0..n /\ i - 1 \in 0..n
    BY <1>1
  <2>4. c[i] = g[1..i] /\ c[i - 1] = g[1..(i - 1)]
    BY <2>3
  <2> HIDE DEF c
  <2> QED BY <2>1, <2>2, <2>4
<1>10. g[DOMAIN data] = c[n]
  BY <1>1
<1>11. c = [i \in 0..n |-> c[i]]
  OBVIOUS
<1> HIDE DEF c
<1> DEFINE S == {i \in Nat : i <= n => c[i] \in Nat}
<1>12. 0 \in S
  BY <1>8
<1>13. ASSUME NEW i \in Nat, i \in S  PROVE i + 1 \in S
  <2>1. CASE i + 1 <= n
    <3>1. i + 1 \in 1..n /\ (i + 1) - 1 = i /\ c[i] \in Nat
      BY <1>1, <1>13, <2>1
    <3>2. c[i + 1] = c[i] + data[i + 1] /\ data[i + 1] \in Nat
      BY <1>2, <1>9, <3>1
    <3> QED BY <3>1, <3>2
  <2>2. CASE ~(i + 1 <= n)
    BY <2>2
  <2> QED BY <2>1, <2>2
<1>14. \A i \in Nat : i \in S
  <2> HIDE DEF S
  <2> QED BY <1>12, <1>13, Induction
<1>15. c \in [0..n -> Nat]
  BY <1>1, <1>11, <1>14
<1> QED BY <1>6, <1>8, <1>9, <1>10, <1>15

LEMMA NewWriterIs == NewWriter \in Writers /\ NewWriter.sum = 0 /\ Flushes(NewWriter, MaxLen - 1)
<1>1. <<>> \in Seq(Bytes)
  OBVIOUS
<1>2. NewWriter \in Writers /\ NewWriter.sum = 0 /\ NewWriter.buf = <<>> /\ NewWriter.out = <<>>
  BY <1>1 DEF NewWriter, Writers
<1> DEFINE e == [i \in 0..0 |-> 0]
<1>3. e \in [0..0 -> Nat] /\ e[0] = 0
  OBVIOUS
<1>4. Framed(<<>>, 0, e, e)
  <2>1. 1..0 = {} /\ Len(<<>>) = 0
    OBVIOUS
  <2> HIDE DEF e
  <2> QED BY <1>3, <2>1 DEF Framed
<1>5. DataFrom(0, 0) = <<>>
  BY DEF DataFrom
<1>6. 0 \in 0..(MaxLen - 1)
  BY FramingAssumption
<1> HIDE DEF e
<1>7. 0 - e[0] = 0
  BY <1>3
<1> DEFINE w == NewWriter
<1>8. Framed(w.out, 0, e, e) /\ w.sum - e[0] \in 0..(MaxLen - 1) /\ w.buf = DataFrom(e[0], w.sum - e[0])
  BY <1>2, <1>3, <1>4, <1>5, <1>6, <1>7
<1> HIDE DEF w
<1>9. Flushes(w, MaxLen - 1)
  <2>1. 0 \in Nat
    OBVIOUS
  <2> QED BY <1>3, <1>8, <2>1 DEF Flushes
<1> QED BY <1>2, <1>9 DEF w

\* What a writer has written are frames with all the data.
LEMMA StreamIs ==
  ASSUME NEW writes \in Seq(Nat)
  PROVE  LET total == FoldLeft(LAMBDA m, n : m + n, 0, writes) IN
         total \in Nat /\ \E m \in Nat : FramesEnd(Stream(writes), m, total)
<1> DEFINE k == Len(writes)
           total == FoldLeft(LAMBDA m, n : m + n, 0, writes)
           w == WriteAll(NewWriter, writes)
<1>1. PICK t \in [0..k -> Nat] : t[0] = 0 /\ total = t[k] /\ \A i \in 1..k : t[i] = t[i - 1] + writes[i]
  BY SumsChain
<1>2. PICK c \in [0..k -> Writers] : c[0] = NewWriter /\ w = c[k] /\ \A i \in 1..k : c[i] = Written(c[i - 1], writes[i])
  BY NewWriterIs, WritesChain
<1>3. Stream(writes) = Flush(w).out
  BY DEF Stream, WriteAll
<1>4. k \in Nat /\ \A i \in 1..k : writes[i] \in Nat
  OBVIOUS
<1> HIDE DEF k, total, w
<1> DEFINE Q(i) == i <= k => c[i].sum = t[i] /\ Flushes(c[i], MaxLen - 1)
           R == {i \in Nat : Q(i)}
<1>5. Q(0)
  BY <1>1, <1>2, NewWriterIs
<1>6. ASSUME NEW i \in Nat, Q(i)  PROVE Q(i + 1)
  <2> HAVE i + 1 <= k
  <2>1. i + 1 \in 1..k /\ (i + 1) - 1 = i /\ i <= k /\ i \in 0..k
    BY <1>4
  <2>2. c[i] \in Writers /\ c[i].sum = t[i] /\ Flushes(c[i], MaxLen - 1) /\ writes[i + 1] \in Nat
    BY <1>4, <1>6, <2>1
  <2>3. c[i + 1] = Written(c[i], writes[i + 1]) /\ t[i + 1] = t[i] + writes[i + 1]
    BY <1>1, <1>2, <2>1
  <2> QED BY <2>2, <2>3, WrittenIs
<1> HIDE DEF Q
<1>7. 0 \in R /\ \A i \in Nat : i \in R => i + 1 \in R
  BY <1>5, <1>6
<1>8. k \in R
  <2> HIDE DEF R
  <2> QED BY <1>4, <1>7, Induction
<1>9. w \in Writers /\ w.sum = total /\ Flushes(w, MaxLen - 1) /\ total \in Nat
  <2>1. k <= k /\ k \in 0..k
    BY <1>4
  <2> QED BY <1>1, <1>2, <1>8, <2>1 DEF Q
<1>10. Flush(w) \in Writers /\ Flush(w).sum = total /\ Flushes(Flush(w), 0)
  <2>1. Flushes(w, MaxLen)
    <3>1. MaxLen \in Nat /\ MaxLen - 1 \in Nat /\ MaxLen - 1 <= MaxLen
      BY FramingAssumption
    <3> QED BY <1>9, <3>1, FlushesMore
  <2> QED BY <1>9, <2>1, FlushKeeps
<1> DEFINE v == Flush(w)
<1>11. v \in Writers /\ v.sum = total /\ Flushes(v, 0)
  BY <1>10
<1> HIDE DEF v
<1>12. PICK m \in Nat : \E e, o \in [0..m -> Nat] : Framed(v.out, m, e, o) /\ v.sum - e[m] \in 0..0
  BY <1>11 DEF Flushes
<1>13. PICK e \in [0..m -> Nat], o \in [0..m -> Nat] : Framed(v.out, m, e, o) /\ v.sum - e[m] \in 0..0
  BY <1>12
<1>14. e[m] = total
  <2>1. m \in 0..m
    OBVIOUS
  <2>2. e[m] \in Nat
    BY <2>1
  <2> QED BY <1>9, <1>11, <1>13, <2>2
<1>15. FramesEnd(v.out, m, total)
  <2>1. v.out \in Seq(Bytes)
    BY <1>11 DEF Writers
  <2> QED BY <1>13, <1>14, <2>1 DEF FramesEnd
<1> QED BY <1>3, <1>9, <1>15 DEF total, v

\* What arrives of a stream, what is read of it and how much was written.
Arrives(c) == Max({0, Len(Stream(c.writes)) - c.cut})
GotOf(c)   == ReadAll(SubSeq(Stream(c.writes), 1, Arrives(c)), c.sizes, c.chunks)
TotalOf(c) == FoldLeft(LAMBDA m, n : m + n, 0, c.writes)

LEMMA LessIs ==
  ASSUME NEW n \in Nat, NEW cut \in Nat
  PROVE  LET l == Max({0, n - cut}) IN
         l \in 0..n /\ (cut = 0 => l = n) /\ (cut < n => l = n - cut) /\ (cut >= n => l = 0)
<1>1. CASE n - cut >= 0
  <2>1. {0, n - cut} \in SUBSET Int /\ n - cut \in {0, n - cut} /\ \A x \in {0, n - cut} : x <= n - cut
    BY <1>1
  <2>2. Max({0, n - cut}) = n - cut
    BY <2>1, MaxIs
  <2> QED BY <1>1, <2>2
<1>2. CASE ~(n - cut >= 0)
  <2>1. {0, n - cut} \in SUBSET Int /\ 0 \in {0, n - cut} /\ \A x \in {0, n - cut} : x <= 0
    BY <1>2
  <2>2. Max({0, n - cut}) = 0
    BY <2>1, MaxIs
  <2> QED BY <1>2, <2>2
<1> QED BY <1>1, <1>2

LEMMA ReadsAll ==
  ASSUME NEW c \in Streams
  PROVE  /\ TotalOf(c) \in Nat
         /\ \E k \in 0..TotalOf(c) :
              /\ GotOf(c).data = DataFrom(0, k)
              /\ c.cut = 0 => k = TotalOf(c) /\ GotOf(c).err = "EOF"
              /\ c.cut \in 1..(HSize + 2) /\ TotalOf(c) # 0 => GotOf(c).err = "ErrUnexpectedEOF"
<1>1. c.writes \in Seq(Nat) /\ c.cut \in Nat /\ c.sizes \in Seq(Nat \ {0}) /\ c.sizes # <<>>
      /\ c.chunks \in Seq(Nat \ {0}) /\ c.chunks # <<>>
  BY StreamsAssumption
<1> DEFINE out == Stream(c.writes)  cut == c.cut  l == Arrives(c)  got == GotOf(c)  total == TotalOf(c)
<1>2. total \in Nat /\ \E m \in Nat : FramesEnd(out, m, total)
  BY <1>1, StreamIs DEF TotalOf
<1>3. PICK m \in Nat : FramesEnd(out, m, total)
  BY <1>2
<1>4. PICK e \in [0..m -> Nat], o \in [0..m -> Nat] : Framed(out, m, e, o) /\ e[m] = total
  BY <1>3 DEF FramesEnd
<1>5. out \in Seq(Bytes) /\ cut \in Nat
  BY <1>1, <1>3 DEF FramesEnd
<1>6. l = Max({0, Len(out) - cut})
  BY DEF Arrives
<1>7. got = ReadAll(SubSeq(out, 1, l), c.sizes, c.chunks)
  BY DEF GotOf
<1> SUFFICES \E k \in 0..total :
              /\ got.data = DataFrom(0, k)
              /\ cut = 0 => k = total /\ got.err = "EOF"
              /\ cut \in 1..(HSize + 2) /\ total # 0 => got.err = "ErrUnexpectedEOF"
  BY <1>2
<1> HIDE DEF out, l, got, total, cut
<1> DEFINE n == Len(out)
<1>8. l \in 0..n /\ n \in Nat /\ (cut = 0 => l = n) /\ (cut < n => l = n - cut) /\ (cut >= n => l = 0)
  <2>1. n \in Nat
    BY <1>5
  <2> HIDE DEF n
  <2>2. l = Max({0, n - cut})
    BY <1>6 DEF n
  <2>3. cut \in Nat
    BY <1>5
  <2>4. l \in 0..n /\ (cut = 0 => l = n) /\ (cut < n => l = n - cut) /\ (cut >= n => l = 0)
    <3> DEFINE x == Max({0, n - cut})
    <3>1. x \in 0..n /\ (cut = 0 => x = n) /\ (cut < n => x = n - cut) /\ (cut >= n => x = 0)
      BY <2>1, <2>3, LessIs
    <3> QED BY <2>2, <3>1
  <2> QED BY <2>1, <2>4
<1>9. got \in Gotten(out, l, m, e, o) /\ got.err # "none"
  <2>1. l \in 0..Len(out)
    BY <1>8
  <2> QED BY <2>1, <1>1, <1>4, <1>5, <1>7, <1>8, ReadAllIs
<1>10. PICK k \in 0..e[m] :
        /\ got.data = DataFrom(0, k)
        /\ \/ got.err = "EOF" /\ \E j \in 0..m : o[j] = l /\ k = e[j]
           \/ got.err = "ErrUnexpectedEOF" /\ l # o[m]
  BY <1>9 DEF Gotten, Got
<1>11. o[m] = n /\ o[m] \in Nat /\ \A j \in 0..m : o[j] \in Nat
  <2>1. m \in 0..m
    OBVIOUS
  <2> QED BY <1>4, <2>1 DEF Framed
<1> HIDE DEF n
<1>12. ASSUME cut = 0  PROVE k = total /\ got.err = "EOF"
  <2>1. l = o[m]
    BY <1>8, <1>11, <1>12
  <2>2. PICK j \in 0..m : o[j] = l /\ k = e[j]
    BY <1>10, <2>1
  <2>3. j = m
    <3> SUFFICES ASSUME j # m  PROVE FALSE
      OBVIOUS
    <3>1. j + 1 \in 1..m /\ (j + 1) - 1 = j /\ j + 1 \in 0..m /\ j + 1 <= m /\ m \in 0..m
      OBVIOUS
    <3>2. o[(j + 1) - 1] + 2 < o[j + 1]
      BY <1>4, <3>1, FramesGrow
    <3>3. o[j + 1] <= o[m]
      BY <1>4, <3>1, FramesGrow
    <3>4. o[j + 1] \in Nat /\ o[j] \in Nat /\ o[j] + 2 < o[j + 1]
      BY <1>11, <3>1, <3>2
    <3> QED BY <1>11, <2>1, <2>2, <3>3, <3>4
  <2> QED BY <1>4, <1>10, <2>1, <2>2, <2>3
<1>13. ASSUME cut \in 1..(HSize + 2), total # 0  PROVE got.err = "ErrUnexpectedEOF"
  <2> SUFFICES ASSUME NEW j \in 0..m, o[j] = l  PROVE FALSE
    BY <1>10
  <2>1. m # 0
    BY <1>4, <1>13 DEF Framed
  <2>2. m \in 1..m /\ m - 1 \in 0..m /\ m \in 0..m
    BY <2>1
  <2>3. o[m] = o[m - 1] + 2 + (e[m] - e[m - 1]) + HSize /\ e[m] - e[m - 1] \in 1..MaxLen
    <3>1. FrameIs(out, e, o, m)
      BY <1>4, <2>2 DEF Framed
    <3> QED BY <3>1 DEF FrameIs
  <2> DEFINE d == e[m] - e[m - 1]  b == o[m - 1]
  <2>4. d \in Nat \ {0} /\ b \in Nat /\ o[m] = b + 2 + d + HSize /\ HSize \in Nat
    <3>1. b \in Nat /\ HSize \in Nat /\ MaxLen \in Nat
      BY <1>11, <2>2, FramingAssumption
    <3>2. d \in 1..MaxLen /\ o[m] = b + 2 + d + HSize
      BY <2>3
    <3> HIDE DEF d, b
    <3> QED BY <3>1, <3>2
  <2> HIDE DEF d, b
  <2>5. b < l /\ l < o[m]
    BY <1>8, <1>11, <1>13, <2>4
  <2>6. j # m
    BY <1>11, <2>2, <2>5
  <2>7. j <= m - 1
    BY <2>6
  <2>8. o[j] <= o[m - 1]
    BY <1>4, <2>2, <2>7, FramesGrow
  <2>9. o[j] <= b
    BY <2>8 DEF b
  <2> QED BY <1>8, <2>4, <2>5, <2>9
<1> QED BY <1>4, <1>10, <1>12, <1>13

LEMMA PrefixesOfData ==
  ASSUME NEW n \in Nat, NEW k \in 0..n
  PROVE  IsPrefix(DataFrom(0, k), DataFrom(0, n))
<1> DEFINE s == DataFrom(0, k)  t == DataFrom(0, n)
<1>1. s \in Seq(Bytes) /\ Len(s) = k /\ \A i \in 1..k : s[i] = <<"data", 0 + i>>
  <2>1. k \in Nat /\ 0 \in Nat
    OBVIOUS
  <2> QED BY <2>1, DataIs
<1>2. t \in Seq(Bytes) /\ Len(t) = n /\ \A i \in 1..n : t[i] = <<"data", 0 + i>>
  BY DataIs
<1> HIDE DEF s, t
<1>3. Len(s) <= Len(t) /\ \A i \in 1..Len(s) : s[i] = t[i]
  BY <1>1, <1>2
<1>4. IsPrefix(s, t)
  BY <1>1, <1>2, <1>3, PrefixIs
<1> QED BY <1>4 DEF s, t

LEMMA ReadersInStep ==
  ASSUME case \in Streams
  PROVE  ReadsWhatWasWritten
<1> DEFINE got == GotOf(case)  total == TotalOf(case)
<1>1. total \in Nat
      /\ \E k \in 0..total :
              /\ got.data = DataFrom(0, k)
              /\ case.cut = 0 => k = total /\ got.err = "EOF"
              /\ case.cut \in 1..(HSize + 2) /\ total # 0 => got.err = "ErrUnexpectedEOF"
  BY ReadsAll
<1>2. Data = [i \in 1..total |-> <<"data", i>>]
  BY DEF Data, TotalOf
<1> SUFFICES /\ IsPrefix(got.data, Data)
             /\ case.cut = 0 => got.data = Data /\ got.err = "EOF"
             /\ case.cut \in 1..(HSize + 2) /\ Data # <<>> => got.err = "ErrUnexpectedEOF"
  BY DEF ReadsWhatWasWritten, GotOf, Arrives
<1> HIDE DEF got, total
<1>3. Data = DataFrom(0, total)
  <2>1. \A i \in 1..total : 0 + i = i
    BY <1>1
  <2> QED BY <1>2, <2>1 DEF DataFrom
<1>4. Data # <<>> => total # 0
  BY <1>3 DEF DataFrom
<1>5. PICK k \in 0..total :
              /\ got.data = DataFrom(0, k)
              /\ case.cut = 0 => k = total /\ got.err = "EOF"
              /\ case.cut \in 1..(HSize + 2) /\ total # 0 => got.err = "ErrUnexpectedEOF"
  BY <1>1
<1>6. IsPrefix(got.data, Data)
  BY <1>1, <1>3, <1>5, PrefixesOfData
<1> QED BY <1>3, <1>4, <1>5, <1>6

LEMMA DivMod ==
  ASSUME NEW a \in Nat, NEW b \in Nat \ {0}
  PROVE  \E q \in Nat, r \in 0..(b - 1) : q = a \div b /\ r = a % b /\ a = q * b + r
<1> DEFINE q == a \div b  r == a % b
<1>1. r \in 0..(b - 1) /\ q \in Nat
  OBVIOUS
<1>2. q = a \div b /\ r = a % b
  OBVIOUS
<1> HIDE DEF q, r
<1>3. a = q * b + r
  BY <1>2
<1> QED BY <1>1, <1>2, <1>3

LEMMA NoRest ==
  ASSUME NEW q \in Nat, NEW b \in Nat \ {0}
  PROVE  (q * b) % b = 0
<1> DEFINE a == q * b
<1>1. a \in Nat
  OBVIOUS
<1>3. a = q * b
  OBVIOUS
<1> HIDE DEF a
<1>2. PICK p \in Nat, r \in 0..(b - 1) : p = a \div b /\ r = a % b /\ a = p * b + r
  BY <1>1, DivMod
<1>4. (q - p) * b = r
  BY <1>1, <1>2, <1>3
<1>5. CASE q - p >= 1
  <2>1. (q - p) * b >= b
    BY <1>2, <1>5
  <2> QED BY <1>2, <1>4, <2>1
<1>6. CASE q - p <= -1
  <2>1. (q - p) * b <= -b
    BY <1>2, <1>6
  <2> QED BY <1>2, <1>4, <2>1
<1>7. CASE q - p = 0
  <2>1. r = 0
    BY <1>2, <1>4, <1>7
  <2> QED BY <1>2, <2>1 DEF a
<1> QED BY <1>2, <1>5, <1>6, <1>7

\* Rounding up to whole pieces.
LEMMA Pieces ==
  ASSUME NEW n \in Nat, NEW b \in Nat \ {0}
  PROVE  LET t == ((n + b - 1) \div b) * b IN t \in Nat /\ t >= n /\ (n % b # 0 => t > n)
<1> DEFINE a == n + b - 1
<1>1. a \in Nat /\ a = n + b - 1
  OBVIOUS
<1> HIDE DEF a
<1>0. PICK q \in Nat, r \in 0..(b - 1) : q = a \div b /\ r = a % b /\ a = q * b + r
  BY <1>1, DivMod
<1> DEFINE t == q * b
<1>2. a = t + r
  BY <1>0
<1>3. t \in Nat
  OBVIOUS
<1>4. (q * b) % b = 0
  BY NoRest
<1>5. t = q * b
  OBVIOUS
<1> HIDE DEF t
<1>6. t >= n
  BY <1>1, <1>2, <1>3
<1>7. ASSUME n % b # 0  PROVE t > n
  <2>1. t # n
    BY <1>4, <1>5, <1>7
  <2> QED BY <1>3, <1>6, <2>1
<1>8. t \in Nat /\ t >= n /\ (n % b # 0 => t > n)
  BY <1>3, <1>6, <1>7
<1>9. t = (a \div b) * b
  BY <1>0, <1>5
<1> QED BY <1>8, <1>9 DEF a

\* A sequence cut in two after its first n elements.
LEMMA TailInTwo ==
  ASSUME NEW S, NEW s \in Seq(S), NEW n \in 0..Len(s), NEW k \in n..Len(s)
  PROVE  SubSeq(s, n + 1, k) \o SubSeq(s, k + 1, Len(s)) = SubSeq(s, n + 1, Len(s))
<1> DEFINE l == Len(s)  u == SubSeq(s, n + 1, k)  v == SubSeq(s, k + 1, l)  w == SubSeq(s, n + 1, l)  x == u \o v
<1>1. l \in Nat /\ n \in 0..l /\ k \in n..l /\ k \in 0..l /\ l \in k..l /\ l \in n..l
  OBVIOUS
<1>2. u \in Seq(S) /\ Len(u) = k - n /\ \A i \in 1..(k - n) : u[i] = s[n + i]
  BY PartIs
<1>3. v \in Seq(S) /\ Len(v) = l - k /\ \A i \in 1..(l - k) : v[i] = s[k + i]
  BY <1>1, PartIs
<1>4. w \in Seq(S) /\ Len(w) = l - n /\ \A i \in 1..(l - n) : w[i] = s[n + i]
  BY <1>1, PartIs
<1> HIDE DEF u, v, w, l
<1>5. Joined(S, u \o v, u, v)
  BY <1>2, <1>3, Joins
<1>6. x \in Seq(S) /\ Len(x) = l - n /\ (\A i \in 1..(k - n) : x[i] = u[i]) /\ \A i \in 1..(l - k) : x[(k - n) + i] = v[i]
  <2>1. /\ x \in Seq(S) /\ Len(x) = Len(u) + Len(v)
        /\ (\A i \in 1..Len(u) : x[i] = u[i]) /\ \A i \in 1..Len(v) : x[Len(u) + i] = v[i]
    BY <1>5 DEF Joined
  <2>2. (k - n) + (l - k) = l - n
    BY <1>1
  <2> HIDE DEF x
  <2> QED BY <1>2, <1>3, <2>1, <2>2
<1> HIDE DEF x
<1>7. ASSUME NEW i \in 1..(l - n)  PROVE x[i] = w[i]
  <2>1. CASE i <= k - n
    BY <1>1, <1>2, <1>4, <1>6, <2>1
  <2>2. CASE i > k - n
    <3> DEFINE y == i - (k - n)
    <3>1. y \in 1..(l - k) /\ (k - n) + y = i /\ k + y = n + i
      BY <1>1, <2>2
    <3> HIDE DEF y
    <3> QED BY <1>3, <1>4, <1>6, <3>1
  <2> QED BY <1>1, <2>1, <2>2
<1>8. x = w
  BY <1>1, <1>4, <1>6, <1>7, SameSeq
<1> QED BY <1>8 DEF x, u, v, w, l

LEMMA SuffixIs ==
  ASSUME NEW S, NEW s \in Seq(S), NEW t \in Seq(S)
  PROVE  IsSuffix(t, s \o t)
<1> DEFINE x == s \o t  a == Len(s)  b == Len(t)  u == Reverse(t)  v == Reverse(x)
<1>1. Joined(S, s \o t, s, t)
  BY Joins
<1>2. x \in Seq(S) /\ Len(x) = a + b /\ \A i \in 1..b : x[a + i] = t[i]
  BY <1>1 DEF Joined
<1>3. a \in Nat /\ b \in Nat
  OBVIOUS
<1> HIDE DEF x
<1>4. u \in Seq(S) /\ Len(u) = b /\ \A i \in 1..b : u[i] = t[b - i + 1]
  <2>1. u = [i \in 1..b |-> t[b - i + 1]]
    BY DEF Reverse
  <2> HIDE DEF u
  <2>2. \A i \in 1..b : t[b - i + 1] \in S
    OBVIOUS
  <2> HIDE DEF b
  <2>3. u \in [1..b -> S]
    BY <2>1, <2>2
  <2> QED BY <1>3, <2>1, <2>3
<1>5. v \in Seq(S) /\ Len(v) = a + b /\ \A i \in 1..(a + b) : v[i] = x[a + b - i + 1]
  <2> DEFINE c == a + b
  <2>1. v = [i \in 1..c |-> x[c - i + 1]]
    BY <1>2 DEF Reverse
  <2>2. Len(x) = c /\ c \in Nat
    BY <1>2, <1>3
  <2> HIDE DEF v, c
  <2>3. \A i \in 1..c : x[c - i + 1] \in S
    BY <1>2, <2>2
  <2>4. v \in [1..c -> S]
    BY <2>1, <2>3
  <2>5. v \in Seq(S) /\ Len(v) = c /\ \A i \in 1..c : v[i] = x[c - i + 1]
    BY <2>1, <2>2, <2>4
  <2> QED BY <2>5 DEF c
<1> HIDE DEF u, v, a, b
<1>6. \A i \in 1..b : u[i] = v[i]
  <2> TAKE i \in 1..b
  <2> DEFINE y == b - i + 1
  <2>1. y \in 1..b /\ a + y = a + b - i + 1 /\ i \in 1..(a + b)
    BY <1>3
  <2>2. u[i] = t[y]
    BY <1>4
  <2> HIDE DEF y
  <2> QED BY <1>2, <1>5, <2>1, <2>2
<1>7. IsPrefix(u, v)
  <2>1. Len(u) <= Len(v) /\ \A i \in 1..Len(u) : u[i] = v[i]
    BY <1>3, <1>4, <1>5, <1>6
  <2> QED BY <1>4, <1>5, <2>1, PrefixIs
<1> QED BY <1>7 DEF IsSuffix, u, v, x

\* What follows a value v in the stream.
LEMMA AfterValue ==
  ASSUME NEW S, NEW v \in Seq(S), NEW t \in Seq(S)
  PROVE  /\ v \o t \in Seq(S) /\ Len(v \o t) = Len(v) + Len(t)
         /\ SubSeq(v \o t, Len(v) + 1, Len(v \o t)) = t
<1> DEFINE x == v \o t  n == Len(v)  y == SubSeq(x, n + 1, Len(x))
<1>1. Joined(S, v \o t, v, t)
  BY Joins
<1>2. x \in Seq(S) /\ Len(x) = n + Len(t) /\ \A i \in 1..Len(t) : x[n + i] = t[i]
  BY <1>1 DEF Joined
<1>3. n \in Nat /\ Len(t) \in Nat
  OBVIOUS
<1> HIDE DEF x, n
<1>4. n \in 0..Len(x) /\ Len(x) \in n..Len(x)
  BY <1>2, <1>3
<1>5. y \in Seq(S) /\ Len(y) = Len(x) - n /\ \A i \in 1..(Len(x) - n) : y[i] = x[n + i]
  BY <1>2, <1>4, PartIs
<1> HIDE DEF y
<1>6. Len(x) - n = Len(t)
  BY <1>2, <1>3
<1>7. y = t
  BY <1>2, <1>5, <1>6, SameSeq
<1> QED BY <1>2, <1>7 DEF x, y, n

\* What is read next, of a value v, a newline and what is encrypted.
NextOf(v, nl, cipher, n, chunk) ==
  LET in  == v \o <<nl>> \o cipher
      buf == Buffered(in, n, chunk)
      r   == SubSeq(in, n + Len(buf) + 1, Len(in))
  IN  IF buf = <<nl>> THEN r ELSE buf \o r

\* What the decoder hands over: what follows the value, or that without the newline.
LEMMA HandedOver ==
  ASSUME NEW S, NEW v \in Seq(S), NEW nl \in S, NEW cipher \in Seq(S), NEW chunk \in Nat \ {0}
  PROVE  LET n == Len(v)  next == NextOf(v, nl, cipher, n, chunk) IN
             /\ next \in {cipher, <<nl>> \o cipher}
             /\ Len(cipher) = 0 /\ n % chunk # 0 => next = <<>>
<1> DEFINE n == Len(v)  in == v \o <<nl>> \o cipher  l == Len(in)  t == <<nl>> \o cipher
           size == ((n + chunk - 1) \div chunk) * chunk
           k == Least(size, l)
           buf == Buffered(in, n, chunk)
           r == SubSeq(in, n + Len(buf) + 1, l)
<1>1. <<nl>> \in Seq(S) /\ n \in Nat /\ Len(<<nl>>) = 1 /\ Len(cipher) \in Nat
  OBVIOUS
<1> DEFINE u == <<nl>>
<1>u. u \in Seq(S) /\ Len(u) = 1
  BY <1>1
<1>2. in = v \o t /\ in = (v \o u) \o cipher
  <2>1. (v \o u) \o cipher = v \o (u \o cipher)
    <3> HIDE DEF u
    <3> QED BY <1>u, ConcatAssociative
  <2> QED BY <2>1
<1>3. t \in Seq(S) /\ Len(t) = 1 + Len(cipher)
  <2>1. u \o cipher \in Seq(S) /\ Len(u \o cipher) = Len(u) + Len(cipher)
    <3> HIDE DEF u
    <3> QED BY <1>u, AfterValue
  <2> QED BY <1>u, <2>1
<1>4. v \o u \in Seq(S) /\ Len(v \o u) = n + 1
  <2> HIDE DEF u
  <2> QED BY <1>u, AfterValue
<1>5. in \in Seq(S) /\ l = n + 1 + Len(cipher) /\ SubSeq(in, n + 1, l) = t
  <2> HIDE DEF t, u
  <2>1. v \o t \in Seq(S) /\ Len(v \o t) = Len(v) + Len(t) /\ SubSeq(v \o t, Len(v) + 1, Len(v \o t)) = t
    BY <1>3, AfterValue
  <2> QED BY <1>1, <1>2, <1>3, <2>1
<1>6. SubSeq(in, n + 2, l) = cipher
  <2> DEFINE w == v \o u
  <2>1. w \in Seq(S) /\ Len(w) = n + 1 /\ in = w \o cipher
    BY <1>2, <1>4
  <2> HIDE DEF w, in
  <2>2. SubSeq(w \o cipher, Len(w) + 1, Len(w \o cipher)) = cipher
    BY <2>1, AfterValue
  <2>3. Len(w) + 1 = n + 2
    BY <1>1, <2>1
  <2> QED BY <2>1, <2>2, <2>3
<1>7. size \in Nat /\ size >= n /\ (n % chunk # 0 => size > n)
  <2> HIDE DEF n
  <2> QED BY <1>1, Pieces
<1>8. buf = SubSeq(in, n + 1, k)
  BY DEF Buffered
<1> HIDE DEF size, n, in, l, t
<1>9. l \in Nat /\ n \in 0..l /\ k \in n..l /\ (n % chunk # 0 => k > n)
  BY <1>1, <1>5, <1>7 DEF Least
<1> HIDE DEF k
<1>10. buf \in Seq(S) /\ Len(buf) = k - n /\ \A i \in 1..(k - n) : buf[i] = in[n + i]
  <2>1. n \in 0..Len(in) /\ k \in n..Len(in)
    BY <1>9 DEF l
  <2>2. /\ SubSeq(in, n + 1, k) \in Seq(S) /\ Len(SubSeq(in, n + 1, k)) = k - n
        /\ \A i \in 1..(k - n) : SubSeq(in, n + 1, k)[i] = in[n + i]
    BY <1>5, <2>1, PartIs
  <2> QED BY <1>8, <2>2
<1> HIDE DEF buf
<1>11. r = SubSeq(in, k + 1, l)
  <2>1. n + Len(buf) + 1 = k + 1
    BY <1>9, <1>10
  <2> QED BY <2>1
<1> HIDE DEF r
<1>12. buf \o r = t
  <2>1. n \in 0..Len(in) /\ k \in n..Len(in)
    BY <1>9 DEF l
  <2>2. SubSeq(in, n + 1, k) \o SubSeq(in, k + 1, Len(in)) = SubSeq(in, n + 1, Len(in))
    BY <1>5, <2>1, TailInTwo
  <2> QED BY <1>5, <1>8, <1>11, <2>2 DEF l
<1> DEFINE next == IF buf = <<nl>> THEN r ELSE buf \o r
<1>13. ASSUME buf = <<nl>>  PROVE r = cipher
  <2>1. k - n = 1
    BY <1>1, <1>10, <1>13
  <2>2. k + 1 = n + 2
    BY <1>9, <2>1
  <2> QED BY <1>6, <1>11, <2>2
<1>14. next \in {cipher, t}
  BY <1>12, <1>13
<1>15. ASSUME Len(cipher) = 0, n % chunk # 0  PROVE next = <<>>
  <2>1. k = n + 1 /\ l = n + 1
    BY <1>1, <1>5, <1>9, <1>15
  <2>2. t[1] = nl
    <3>1. \A i \in 1..Len(u) : (u \o cipher)[i] = u[i]
      <4> HIDE DEF u
      <4> QED BY <1>u, ConcatIs
    <3>2. 1 \in 1..Len(u) /\ u[1] = nl
      BY <1>u
    <3> QED BY <3>1, <3>2 DEF t
  <2>3. buf = t
    BY <1>5, <1>8, <2>1
  <2>4. t \in Seq(S) /\ Len(t) = 1
    BY <1>3, <1>15
  <2>5. u[1] = nl
    OBVIOUS
  <2>6. t = u
    <3> HIDE DEF u
    <3>1. \A i \in 1..Len(t) : t[i] = u[i]
      BY <2>2, <2>4, <2>5
    <3> QED BY <1>u, <2>4, <3>1, SameSeq
  <2>7. cipher = <<>>
    BY <1>15
  <2> QED BY <1>13, <2>3, <2>6, <2>7
<1>16. next = NextOf(v, nl, cipher, n, chunk)
  BY DEF NextOf, next, r, buf, l, in
<1> QED BY <1>14, <1>15, <1>16 DEF t, n

\* Values, encrypted bytes and a newline.
Handed(nl) == {<<"value", i>> : i \in Nat} \cup {<<"cipher", i>> : i \in Nat} \cup {nl}

LEMMA HandedIs ==
  ASSUME NEW nl, NEW n \in Nat, NEW more \in Nat
  PROVE  LET v == [i \in 1..n |-> <<"value", i>>]  cipher == [i \in 1..more |-> <<"cipher", i>>] IN
         /\ v \in Seq(Handed(nl)) /\ Len(v) = n
         /\ cipher \in Seq(Handed(nl)) /\ Len(cipher) = more
         /\ nl \in Handed(nl)
<1> DEFINE v == [i \in 1..n |-> <<"value", i>>]  cipher == [i \in 1..more |-> <<"cipher", i>>]
<1>1. nl \in Handed(nl) /\ (\A i \in Nat : <<"value", i>> \in Handed(nl) /\ <<"cipher", i>> \in Handed(nl))
  BY DEF Handed
<1> DEFINE S == Handed(nl)
<1> HIDE DEF S
<1>2. (\A i \in 1..n : <<"value", i>> \in S) /\ \A i \in 1..more : <<"cipher", i>> \in S
  <2>1. (\A i \in 1..n : i \in Nat) /\ \A i \in 1..more : i \in Nat
    OBVIOUS
  <2> QED BY <1>1, <2>1 DEF S
<1>3. v \in [1..n -> S] /\ cipher \in [1..more -> S]
  BY <1>2
<1>4. v \in Seq(S) /\ Len(v) = n /\ cipher \in Seq(S) /\ Len(cipher) = more
  BY <1>3
<1> QED BY <1>1, <1>4 DEF S

LEMMA HandoversInStep ==
  ASSUME case \in Handovers
  PROVE  HandoverInStep
<1> DEFINE nl == "\n"
           S == Handed(nl)
           v == [i \in 1..case.n |-> <<"value", i>>]
           cipher == [i \in 1..case.more |-> <<"cipher", i>>]
           chunk == case.chunk
           next == JSON(v \o <<"\n">> \o cipher, case.n, chunk)
<1>1. case.n \in Nat /\ case.more \in Nat /\ chunk \in Nat \ {0}
  BY HandoversAssumption
<1>2. v \in Seq(S) /\ Len(v) = case.n /\ cipher \in Seq(S) /\ Len(cipher) = case.more /\ nl \in S
  <2> HIDE DEF nl
  <2> QED BY <1>1, HandedIs
<1> SUFFICES IsSuffix(cipher, next) /\ (case.more = 0 /\ case.n % case.chunk # 0 => next = <<>>)
  BY Zenon DEF HandoverInStep
<1>5. next = NextOf(v, nl, cipher, case.n, chunk)
  BY Zenon DEF JSON, NextOf
<1> HIDE DEF S, v, cipher, nl, next, chunk
<1>6. next \in {cipher, <<nl>> \o cipher} /\ (Len(cipher) = 0 /\ Len(v) % chunk # 0 => next = <<>>)
  BY <1>1, <1>2, <1>5, HandedOver
<1>7. IsSuffix(cipher, next)
  <2>1. <<>> \in Seq(S) /\ <<nl>> \in Seq(S) /\ <<>> \o cipher = cipher
    BY <1>2
  <2>2. IsSuffix(cipher, <<>> \o cipher) /\ IsSuffix(cipher, <<nl>> \o cipher)
    BY <1>2, <2>1, SuffixIs
  <2> QED BY <1>6, <2>1, <2>2
<1> QED BY <1>1, <1>2, <1>6, <1>7 DEF chunk

\* StreamInStep for all writes, reads and cuts: whatever a writer writes, the
\* reader hands out all of it in order and nothing else (crypto/rw.go), and
\* nothing of the stream is lost to the JSON decoder (server/channel/msg.go).
THEOREM StreamsStayInStep == Spec => []StreamInStep
<1>1. Init => StreamInStep
  <2>1. ASSUME Init, case.kind = "frame"  PROVE ReadsWhatWasWritten
    <3>1. case \in Streams
      BY <2>1, WrapsAssumption, InputsAssumption, HandoversAssumption, ShakesAssumption,
         CompletionsAssumption, GamesAssumption DEF Init, ChatCases
    <3> QED BY <3>1, ReadersInStep
  <2>2. ASSUME Init, case.kind = "json"  PROVE HandoverInStep
    <3>1. case \in Handovers
      BY <2>2, WrapsAssumption, InputsAssumption, StreamsAssumption, ShakesAssumption,
         CompletionsAssumption, GamesAssumption DEF Init, ChatCases
    <3> QED BY <3>1, HandoversInStep
  <2>3. case.kind # "frame" => ReadsWhatWasWritten
    BY Zenon DEF ReadsWhatWasWritten
  <2>4. case.kind # "json" => HandoverInStep
    BY Zenon DEF HandoverInStep
  <2> QED BY <2>1, <2>2, <2>3, <2>4 DEF StreamInStep
<1>2. Init /\ [Next]_case => Init'
  BY DEF Next, Init
<1> QED BY <1>1, <1>2, PTL DEF Spec

-----------------------------------------------------------------------------
(* The trivia bot *)

Ends   == {"no", "error", "panic"}
Open   == Questions \cup {B!NoQuestion}
Reply  == [reply : {"ok", "bad", "down"}, list : Seq(Questions)]
Counts == [Players -> Nat]

Bot(q, s, a, c, e) == [questions |-> q, scores |-> s, answered |-> a, current |-> c, end |-> e]

Bots == [questions : Seq(Questions), scores : Counts, answered : Counts, current : [Players -> Open], end : Ends]

LEMMA BotIs ==
  /\ \A t \in Bots : t = Bot(t.questions, t.scores, t.answered, t.current, t.end)
  /\ \A q \in Seq(Questions), s, a \in Counts, c \in [Players -> Open], e \in Ends : Bot(q, s, a, c, e) \in Bots
  /\ \A q, s, a, c, e :
       LET t == Bot(q, s, a, c, e) IN
       t.questions = q /\ t.scores = s /\ t.answered = a /\ t.current = c /\ t.end = e
BY DEF Bot, Bots

LEMMA NoQuestionIs == \A q \in Questions : q # B!NoQuestion /\ q.value \in Nat \ {0}
<1>1. \A q \in Questions : q.id # 0 /\ q.value \in {1, 2, 5}
  BY DEF Questions
<1>2. B!NoQuestion.id = 0
  BY DEF B!NoQuestion
<1> QED BY <1>1, <1>2

\* Fetching adds what the service sends, or nothing.
Fetched(q, served, e, qs) ==
  /\ qs \in Seq(Questions) /\ e \in Ends
  /\ qs = q \/ qs = q \o served.list
  /\ e = "panic" => served.reply = "down"
  /\ e = "no" /\ qs = <<>> => served.list = <<>>

LEMMA FetchIs ==
  ASSUME NEW q \in Seq(Questions), NEW s, NEW a, NEW c, NEW served \in Reply
  PROVE  \E e, qs : B!Fetch(Bot(q, s, a, c, "no"), served) = Bot(qs, s, a, c, e) /\ Fetched(q, served, e, qs)
<1> DEFINE t == Bot(q, s, a, c, "no")  f == B!Fetch(t, served)
<1>1. t.questions = q
  BY BotIs
<1>2. Few \in Nat \ {0} /\ served.list \in Seq(Questions) /\ served.reply \in {"ok", "bad", "down"}
  BY GamesAssumption DEF Reply
<1>3. CASE Len(q) >= Few
  <2>1. f = Bot(q, s, a, c, "no")
    BY <1>1, <1>3 DEF B!Fetch
  <2>2. q # <<>>
    BY <1>2, <1>3
  <2>3. Fetched(q, served, "no", q)
    BY <2>2 DEF Fetched, Ends
  <2> QED BY <2>1, <2>3
<1>4. CASE ~(Len(q) >= Few) /\ served.reply = "down"
  <2>1. f = [t EXCEPT !.end = "panic"]
    BY <1>1, <1>4 DEF B!Fetch
  <2>2. f = Bot(q, s, a, c, "panic")
    BY <2>1 DEF Bot
  <2>3. Fetched(q, served, "panic", q)
    BY <1>4 DEF Fetched, Ends
  <2> QED BY <2>2, <2>3
<1>5. CASE ~(Len(q) >= Few) /\ served.reply # "down"
  <2> DEFINE e == IF served.reply = "bad" THEN "error" ELSE "no"
             qs == q \o served.list
  <2>1. f = [t EXCEPT !.questions = t.questions \o served.list, !.end = e]
    BY <1>1, <1>5 DEF B!Fetch
  <2>2. f = [t EXCEPT !.questions = qs, !.end = e]
    BY <1>1, <2>1
  <2>3. e \in Ends /\ e # "panic"
    BY DEF Ends
  <2>4. qs \in Seq(Questions) /\ (qs = <<>> => served.list = <<>>)
    BY <1>2
  <2> HIDE DEF e, f
  <2>5. f = Bot(qs, s, a, c, e)
    <3> HIDE DEF qs
    <3> QED BY <2>2 DEF Bot
  <2>6. Fetched(q, served, e, qs)
    BY <2>3, <2>4 DEF Fetched
  <2> QED BY <2>5, <2>6 DEF f
<1> QED BY <1>3, <1>4, <1>5

\* What a command of u comes to, the service's questions fetched.
Asked(t, r, u)    == /\ t.current[u] = B!NoQuestion /\ r.current[u] \in Questions
                     /\ \A v \in Players : v # u => r.current[v] = t.current[v]
                     /\ r.scores = t.scores /\ r.answered = t.answered
Answered(t, r, u) == /\ t.current[u] \in Questions /\ r.current[u] = B!NoQuestion
                     /\ \A v \in Players : v # u => /\ r.current[v] = t.current[v]
                                                    /\ r.scores[v] = t.scores[v] /\ r.answered[v] = t.answered[v]
                     /\ r.answered[u] = t.answered[u] + 1
                     /\ r.scores[u] <= t.scores[u] + t.current[u].value
Cleared(r)        == \A v \in Players : r.current[v] = B!NoQuestion /\ r.scores[v] = 0 /\ r.answered[v] = 0
Kept(t, r)        == r.current = t.current /\ r.scores = t.scores /\ r.answered = t.answered

\* The questions left: all there are, or all but the one that u is asked.
Left1(t, r, u, served) ==
  \E qs \in Seq(Questions) :
    /\ qs = t.questions \/ qs = t.questions \o served.list
    /\ \/ r.questions = qs /\ \A v \in Players : r.current[v] \in {t.current[v], B!NoQuestion}
       \/ qs # <<>> /\ r.questions = Tail(qs) /\ r.current[u] = Head(qs) /\ Asked(t, r, u)

Comes(t, r, u, cmd, served) ==
  /\ r \in Bots
  /\ r.end = "panic" => served.reply = "down" \/ served.list = <<>>
  /\ \/ cmd = "reset" /\ r.end = "no" /\ Cleared(r)
     \/ ~(cmd = "reset" /\ r.end = "no") /\ (Kept(t, r) \/ Asked(t, r, u) \/ Answered(t, r, u))
  /\ Left1(t, r, u, served)

LEMMA MessageComes ==
  ASSUME NEW t \in Bots, NEW u \in Players, NEW cmd, NEW served \in Reply
  PROVE  Comes(t, B!Message(t, u, cmd, served), u, cmd, served)
<1> DEFINE r == B!Message(t, u, cmd, served)
           s == t.scores  a == t.answered  c == t.current
<1>1. t.questions \in Seq(Questions) /\ s \in Counts /\ a \in Counts /\ c \in [Players -> Open]
      /\ t = Bot(t.questions, s, a, c, t.end)
  BY BotIs DEF Bots
<1>2. [t EXCEPT !.end = "no"] = Bot(t.questions, s, a, c, "no")
  BY <1>1 DEF Bot
<1>3. PICK e, qs : /\ B!Fetch(Bot(t.questions, s, a, c, "no"), served) = Bot(qs, s, a, c, e)
                   /\ Fetched(t.questions, served, e, qs)
  BY <1>1, FetchIs
<1> DEFINE f == Bot(qs, s, a, c, e)
<1>4. /\ f \in Bots /\ f.questions = qs /\ f.scores = s /\ f.answered = a /\ f.current = c /\ f.end = e
      /\ qs \in Seq(Questions) /\ (qs = t.questions \/ qs = t.questions \o served.list) /\ e \in Ends
      /\ (e = "panic" => served.reply = "down") /\ (e = "no" /\ qs = <<>> => served.list = <<>>)
  <2>1. /\ qs \in Seq(Questions) /\ (qs = t.questions \/ qs = t.questions \o served.list) /\ e \in Ends
        /\ (e = "panic" => served.reply = "down") /\ (e = "no" /\ qs = <<>> => served.list = <<>>)
    BY <1>3 DEF Fetched
  <2>2. f \in Bots
    <3> HIDE DEF s, a, c
    <3> QED BY <1>1, <2>1, BotIs
  <2>3. f.questions = qs /\ f.scores = s /\ f.answered = a /\ f.current = c /\ f.end = e
    <3> HIDE DEF s, a, c
    <3> QED BY DEF Bot
  <2> QED BY <2>1, <2>2, <2>3
<1>5. r = IF f.end # "no" \/ cmd = "score" THEN f
          ELSE IF cmd = "reset" THEN B!Reset(f)
          ELSE IF f.current[u] = B!NoQuestion THEN B!Question(f, u)
          ELSE B!Answer(f, u, B!Choice(cmd))
  BY <1>2, <1>3 DEF B!Message
<1> HIDE DEF r, f, s, a, c
<1>s. s = t.scores /\ a = t.answered /\ c = t.current
  BY DEF s, a, c
<1>f. f = Bot(qs, s, a, c, e)
  BY DEF f
<1> SUFFICES Comes(t, r, u, cmd, served)
  BY DEF r
<1>6. CASE f.end # "no" \/ cmd = "score"
  <2>1. r = f
    BY <1>5, <1>6
  <2>2. Kept(t, r) /\ Left1(t, r, u, served)
    BY <1>4, <1>s, <2>1 DEF Kept, Left1
  <2>3. ~(cmd = "reset" /\ r.end = "no")
    BY <1>6, <2>1
  <2> QED BY <1>4, <2>1, <2>2, <2>3 DEF Comes
<1>7. CASE ~(f.end # "no" \/ cmd = "score") /\ cmd = "reset"
  <2> DEFINE z == [v \in Players |-> 0]  n == [v \in Players |-> B!NoQuestion]
  <2>1. r = B!Reset(f)
    BY <1>5, <1>7
  <2>2. B!NewTriviaBot = Bot(<<>>, z, z, n, "no")
    BY DEF B!NewTriviaBot, Bot
  <2>3. z \in Counts /\ n \in [Players -> Open]
    BY DEF Counts, Open
  <2>4. Cleared(Bot(qs, z, z, n, "no"))
    BY BotIs DEF Cleared
  <2>5. \A v \in Players : n[v] = B!NoQuestion
    OBVIOUS
  <2> HIDE DEF z, n
  <2>6. r = [Bot(<<>>, z, z, n, "no") EXCEPT !.questions = qs]
    BY <1>4, <2>1, <2>2 DEF B!Reset
  <2>7. r = Bot(qs, z, z, n, "no")
    BY <2>6 DEF Bot
  <2>8. r \in Bots /\ r.end = "no" /\ r.questions = qs /\ r.current = n
    <3>1. "no" \in Ends
      BY DEF Ends
    <3> QED BY <1>4, <2>3, <2>7, <3>1, BotIs
  <2>9. Left1(t, r, u, served)
    BY <1>4, <2>5, <2>8 DEF Left1
  <2> QED BY <1>7, <2>4, <2>7, <2>8, <2>9 DEF Comes
<1>8. CASE ~(f.end # "no" \/ cmd = "score") /\ cmd # "reset" /\ f.current[u] = B!NoQuestion
  <2>1. r = B!Question(f, u)
    BY <1>5, <1>8
  <2>2. CASE qs = <<>>
    <3>1. r = [f EXCEPT !.end = "panic"]
      BY <1>4, <2>1, <2>2 DEF B!Question
    <3>2. r = Bot(qs, s, a, c, "panic")
      BY <1>f, <3>1 DEF Bot
    <3>3. r \in Bots /\ r.questions = qs /\ Kept(t, r) /\ r.current = t.current
      <4>1. "panic" \in Ends
        BY DEF Ends
      <4> QED BY <1>1, <1>s, <1>4, <3>2, <4>1, BotIs DEF Kept
    <3>4. Left1(t, r, u, served)
      BY <1>4, <3>3 DEF Left1
    <3>5. served.list = <<>>
      BY <1>4, <1>8, <2>2
    <3> QED BY <1>8, <3>3, <3>4, <3>5 DEF Comes
  <2>3. CASE qs # <<>>
    <3> DEFINE h == Head(qs)  rest == Tail(qs)  d == [c EXCEPT ![u] = h]
    <3>1. r = [f EXCEPT !.current[u] = h, !.questions = rest]
      BY <1>4, <2>1, <2>3 DEF B!Question
    <3>2. h \in Questions /\ rest \in Seq(Questions)
      BY <1>4, <2>3
    <3>3. d \in [Players -> Open] /\ d[u] = h /\ \A v \in Players : v # u => d[v] = c[v]
      BY <1>1, <3>2 DEF Open
    <3>4. r = [f EXCEPT !.current = d, !.questions = rest]
      BY <1>4, <3>1
    <3> HIDE DEF h, rest, d
    <3>5. r = Bot(rest, s, a, d, e)
      BY <1>f, <3>4 DEF Bot
    <3>6. r \in Bots /\ r.questions = rest /\ r.scores = s /\ r.answered = a /\ r.current = d /\ r.end = e
      BY <1>1, <1>4, <3>2, <3>3, <3>5, BotIs
    <3>7. Asked(t, r, u)
      BY <1>4, <1>s, <1>8, <3>2, <3>3, <3>6 DEF Asked
    <3>8. Left1(t, r, u, served)
      BY <1>4, <2>3, <3>3, <3>6, <3>7 DEF Left1, h, rest
    <3> QED BY <1>4, <1>8, <3>6, <3>7, <3>8 DEF Comes
  <2> QED BY <2>2, <2>3
<1>9. CASE ~(f.end # "no" \/ cmd = "score") /\ cmd # "reset" /\ f.current[u] # B!NoQuestion
  <2> DEFINE q == f.current[u]  n == B!Choice(cmd)
  <2>1. r = B!Answer(f, u, n)
    BY <1>5, <1>9
  <2>2. q \in Questions /\ q = c[u]
    BY <1>1, <1>4, <1>9 DEF Open
  <2> HIDE DEF n, q
  <2>3. CASE n \notin 1..q.choices
    <3>1. r = f
      BY <2>1, <2>3 DEF B!Answer, q
    <3>2. Kept(t, r) /\ Left1(t, r, u, served)
      BY <1>4, <1>s, <3>1 DEF Kept, Left1
    <3> QED BY <1>4, <1>9, <3>1, <3>2 DEF Comes
  <2>4. CASE n \in 1..q.choices
    <3> DEFINE won == IF n = q.right THEN q.value ELSE 0
               b == [a EXCEPT ![u] = a[u] + 1]
               d == [c EXCEPT ![u] = B!NoQuestion]
               p == [s EXCEPT ![u] = s[u] + won]
    <3>1. r = [f EXCEPT !.answered[u] = @ + 1, !.current[u] = B!NoQuestion, !.scores[u] = @ + won]
      BY <2>1, <2>4 DEF B!Answer, q
    <3>2. won \in Nat /\ won <= q.value
      BY <2>2, NoQuestionIs
    <3> HIDE DEF won
    <3>3. b \in Counts /\ b[u] = a[u] + 1 /\ \A v \in Players : v # u => b[v] = a[v]
      BY <1>1 DEF Counts
    <3>4. d \in [Players -> Open] /\ d[u] = B!NoQuestion /\ \A v \in Players : v # u => d[v] = c[v]
      BY <1>1 DEF Open
    <3>5. p \in Counts /\ p[u] = s[u] + won /\ \A v \in Players : v # u => p[v] = s[v]
      BY <1>1, <3>2 DEF Counts
    <3>6. r = [f EXCEPT !.answered = b, !.current = d, !.scores = p]
      BY <1>4, <3>1
    <3> HIDE DEF b, d, p
    <3>7. r = Bot(qs, p, b, d, e)
      BY <1>f, <3>6 DEF Bot
    <3>8. r \in Bots /\ r.questions = qs /\ r.scores = p /\ r.answered = b /\ r.current = d /\ r.end = e
      BY <1>4, <3>3, <3>4, <3>5, <3>7, BotIs
    <3>9. Answered(t, r, u)
      <4>1. p[u] <= s[u] + q.value
        <5>1. s[u] \in Nat /\ q.value \in Nat
          BY <1>1, <2>2, NoQuestionIs DEF Counts
        <5> QED BY <3>2, <3>5, <5>1
      <4> QED BY <1>s, <2>2, <3>3, <3>4, <3>5, <3>8, <4>1 DEF Answered
    <3>10. Left1(t, r, u, served)
      <4>1. \A v \in Players : d[v] \in {c[v], B!NoQuestion}
        BY <3>4
      <4> QED BY <1>4, <1>s, <3>8, <4>1 DEF Left1
    <3> QED BY <1>4, <1>9, <3>8, <3>9, <3>10 DEF Comes
  <2> QED BY <2>3, <2>4
<1> QED BY <1>6, <1>7, <1>8, <1>9

Commands == Len(case.cmd)

\* The game as it is played: each command comes to what MessageComes says.
LEMMA GameIs ==
  ASSUME case \in Games
  PROVE  /\ Commands \in Nat
         /\ \A i \in 0..Commands : Game[i] \in Bots
         /\ \A i \in 1..Commands : case.who[i] \in Players /\ case.says[i] \in Reply
         /\ Game[0] = B!NewTriviaBot
         /\ \A i \in 1..Commands :
              \/ Game[i - 1].end = "panic" /\ Game[i] = Game[i - 1]
              \/ Comes(Game[i - 1], Game[i], case.who[i], case.cmd[i], case.says[i])
<1> DEFINE n == Commands
           Do(t, i) == IF t.end = "panic" THEN t ELSE B!Message(t, case.who[i], case.cmd[i], case.says[i])
           step == [i \in 1..n |-> [t \in Bots |-> Do(t, i)]]
           base == B!NewTriviaBot
           P(g) == g = [i \in 0..n |->
                          IF i = 0 THEN B!NewTriviaBot
                          ELSE LET t == g[i - 1]
                               IN  IF t.end = "panic" THEN t ELSE B!Message(t, case.who[i], case.cmd[i], case.says[i])]
           g == CHOOSE g : P(g)
<1>1. /\ n \in Nat /\ case.who \in Seq(Players) /\ case.says \in Seq(Reply)
      /\ Len(case.who) = n /\ Len(case.says) = n
  <2>1. /\ case.who \in Seq(Players) /\ case.cmd \in Seq(STRING)
        /\ case.says \in Seq([reply : {"ok", "bad", "down"}, list : Seq(Questions)])
        /\ Len(case.who) = Len(case.cmd) /\ Len(case.says) = Len(case.cmd)
    BY GamesAssumption
  <2>2. Len(case.cmd) \in Nat
    BY <2>1
  <2> QED BY <2>1, <2>2 DEF Commands, Reply
<1>2. Game = g
  BY DEF Game, Commands
<1>3. \A f : P(f) <=> f = [i \in 0..n |-> IF i = 0 THEN base ELSE Do(f[i - 1], i)]
  OBVIOUS
<1> HIDE DEF n, P, g
<1>4. \A i \in 1..n : case.who[i] \in Players /\ case.says[i] \in Reply
  BY <1>1
<1>5. base \in Bots
  <2> DEFINE z == [v \in Players |-> 0]  c == [v \in Players |-> B!NoQuestion]
  <2>1. base = Bot(<<>>, z, z, c, "no")
    BY DEF B!NewTriviaBot, Bot
  <2>2. z \in Counts /\ c \in [Players -> Open] /\ "no" \in Ends /\ <<>> \in Seq(Questions)
    BY DEF Counts, Open, Ends
  <2> HIDE DEF z, c, base
  <2> QED BY <2>1, <2>2, BotIs
<1> HIDE DEF base
<1>6. ASSUME NEW t \in Bots, NEW i \in 1..n
      PROVE  /\ Do(t, i) \in Bots
             /\ (t.end = "panic" /\ Do(t, i) = t) \/ Comes(t, Do(t, i), case.who[i], case.cmd[i], case.says[i])
  <2>1. CASE t.end = "panic"
    BY <2>1
  <2>2. CASE t.end # "panic"
    <3>1. Do(t, i) = B!Message(t, case.who[i], case.cmd[i], case.says[i])
      BY <2>2
    <3>2. Comes(t, Do(t, i), case.who[i], case.cmd[i], case.says[i])
      BY <1>4, <3>1, MessageComes
    <3>3. Do(t, i) \in Bots
      <4> HIDE DEF Do
      <4> QED BY <3>2 DEF Comes
    <3> QED BY <3>2, <3>3
  <2> QED BY <2>1, <2>2
<1> HIDE DEF Do
<1>7. step \in [1..n -> [Bots -> Bots]]
  BY <1>6
<1>8. PICK f : Grows(f, n, base, step) /\ \A i \in 0..n : f[i] \in Bots
  <2> HIDE DEF step
  <2> QED BY <1>1, <1>5, <1>7, Recursion
<1>9. P(f)
  <2>1. f = [i \in 0..n |-> f[i]] /\ f[0] = base /\ \A i \in 1..n : f[i] = step[i][f[i - 1]]
    <3> HIDE DEF step
    <3> QED BY <1>8 DEF Grows
  <2>2. ASSUME NEW i \in 1..n  PROVE f[i] = Do(f[i - 1], i)
    <3>1. i - 1 \in 0..n
      BY <1>1
    <3> QED BY <1>8, <2>1, <3>1
  <2>3. \A i \in 0..n : f[i] = IF i = 0 THEN base ELSE Do(f[i - 1], i)
    <3>1. \A i \in 0..n : i = 0 \/ i \in 1..n
      BY <1>1
    <3> HIDE DEF step
    <3> QED BY <2>1, <2>2, <3>1
  <2> HIDE DEF step
  <2> QED BY <1>3, <2>1, <2>3
<1>10. P(g)
  BY <1>9 DEF g
<1>11. g[0] = base /\ \A i \in 1..n : g[i] = Do(g[i - 1], i)
  <2>1. 0 \in 0..n /\ \A i \in 1..n : i \in 0..n /\ i # 0
    BY <1>1
  <2>2. g = [i \in 0..n |-> IF i = 0 THEN base ELSE Do(g[i - 1], i)]
    BY <1>3, <1>10
  <2> QED BY <2>1, <2>2
<1> DEFINE S == {i \in Nat : i <= n => g[i] \in Bots}
<1>12. 0 \in S /\ \A i \in Nat : i \in S => i + 1 \in S
  <2>1. 0 \in S
    BY <1>5, <1>11
  <2>2. ASSUME NEW i \in Nat, i \in S, i + 1 <= n  PROVE g[i + 1] \in Bots
    <3>1. i + 1 \in 1..n /\ (i + 1) - 1 = i /\ g[i] \in Bots
      BY <1>1, <2>2
    <3> QED BY <1>6, <1>11, <3>1
  <2> QED BY <2>1, <2>2
<1>13. \A i \in Nat : i \in S
  <2> HIDE DEF S
  <2> QED BY <1>12, Induction
<1>14. \A i \in 0..n : g[i] \in Bots
  BY <1>1, <1>13
<1>15. ASSUME NEW i \in 1..n
       PROVE  \/ g[i - 1].end = "panic" /\ g[i] = g[i - 1]
              \/ Comes(g[i - 1], g[i], case.who[i], case.cmd[i], case.says[i])
  <2>1. i - 1 \in 0..n
    BY <1>1
  <2> QED BY <1>6, <1>11, <1>14, <2>1
<1> QED BY <1>1, <1>2, <1>4, <1>11, <1>14, <1>15 DEF n, base

\* A command that u gets a question at, and no other.
LEMMA Steps ==
  ASSUME case \in Games, NEW i \in 1..Commands
  PROVE  LET g == Game  t == g[i - 1]  r == g[i]  u == case.who[i] IN
         /\ u \in Players /\ t \in Bots /\ r \in Bots
         /\ IsReset(g, i) => Cleared(r)
         /\ ~IsReset(g, i) => Kept(t, r) \/ Asked(t, r, u) \/ Answered(t, r, u)
         /\ (r.questions = t.questions /\ r = t) \/ Left1(t, r, u, case.says[i])
         /\ r.end = "panic" => t.end = "panic" \/ case.says[i].reply = "down" \/ case.says[i].list = <<>>
<1> DEFINE g == Game  t == g[i - 1]  r == g[i]  u == case.who[i]
<1>1. /\ u \in Players /\ t \in Bots /\ r \in Bots
      /\ (t.end = "panic" /\ r = t) \/ Comes(t, r, u, case.cmd[i], case.says[i])
  <2>1. Commands \in Nat
    BY GameIs
  <2>2. i \in 0..Commands /\ i - 1 \in 0..Commands
    BY <2>1
  <2> QED BY <2>2, GameIs
<1>2. IsReset(g, i) <=> case.cmd[i] = "reset" /\ r.end = "no"
  BY DEF IsReset
<1> HIDE DEF g, t, r, u
<1>3. CASE t.end = "panic" /\ r = t
  <2>1. ~IsReset(g, i)
    BY <1>2, <1>3
  <2>2. Kept(t, r)
    BY <1>3 DEF Kept
  <2> QED BY <1>1, <1>3, <2>1, <2>2 DEF g, t, r, u
<1>4. CASE Comes(t, r, u, case.cmd[i], case.says[i])
  <2>1. /\ r.end = "panic" => case.says[i].reply = "down" \/ case.says[i].list = <<>>
        /\ IsReset(g, i) => Cleared(r) \/ Kept(t, r) \/ Asked(t, r, u) \/ Answered(t, r, u)
        /\ Left1(t, r, u, case.says[i])
    BY <1>4 DEF Comes
  <2>2. IsReset(g, i) => Cleared(r)
    BY <1>2, <1>4 DEF Comes
  <2>3. ~IsReset(g, i) => Kept(t, r) \/ Asked(t, r, u) \/ Answered(t, r, u)
    BY <1>2, <1>4 DEF Comes
  <2> QED BY <1>1, <2>1, <2>2, <2>3 DEF g, t, r, u
<1> QED BY <1>1, <1>3, <1>4

\* Who gets a question at a command.
LEMMA GetsIs ==
  ASSUME case \in Games, NEW i \in 1..Commands, NEW v \in Players, ~IsReset(Game, i)
  PROVE  LET g == Game  t == g[i - 1]  r == g[i]  u == case.who[i] IN
         /\ Asked(t, r, u) => (Gets(g, v, i) <=> v = u)
         /\ Kept(t, r) \/ Answered(t, r, u) => ~Gets(g, v, i)
<1> DEFINE g == Game  t == g[i - 1]  r == g[i]  u == case.who[i]
<1>1. Gets(g, v, i) <=> r.current[v] \notin {B!NoQuestion, t.current[v]}
  BY DEF Gets
<1> HIDE DEF g, t, r
<1>2. ASSUME Asked(t, r, u)  PROVE Gets(g, v, i) <=> v = u
  BY <1>1, <1>2, NoQuestionIs DEF Asked
<1>3. ASSUME Kept(t, r)  PROVE ~Gets(g, v, i)
  BY <1>1, <1>3 DEF Kept
<1>4. ASSUME Answered(t, r, u)  PROVE ~Gets(g, v, i)
  BY <1>1, <1>4 DEF Answered
<1> QED BY <1>2, <1>3, <1>4 DEF g, t, r

\* What the questions are worth, a command at a time.
LEMMA WorthIs ==
  ASSUME case \in Games, NEW v \in Players
  PROVE  \E w \in [0..Commands -> Nat] :
           /\ Worth(Game, v) = w[Commands] /\ w[0] = 0
           /\ \A i \in 1..Commands :
                w[i] = w[i - 1] + (IF i \in Since(Game, v) THEN Game[i].current[v].value ELSE 0)
<1> DEFINE n == Commands
           g == Game
           since == Since(g, v)
           add(i) == IF i \in since THEN g[i].current[v].value ELSE 0
           step == [i \in 1..n |-> [x \in Nat |-> x + add(i)]]
           P(w) == w = [i \in 0..n |-> IF i = 0 THEN 0 ELSE w[i - 1] + (IF i \in since THEN g[i].current[v].value ELSE 0)]
           w == CHOOSE w : P(w)
<1>1. n \in Nat /\ \A i \in 0..n : g[i] \in Bots
  BY GameIs
<1>2. Worth(g, v) = w[n]
  BY DEF Worth, Commands
<1>3. ASSUME NEW i \in 1..n  PROVE add(i) \in Nat
  <2>1. CASE i \in since
    <3>1. g[i].current[v] # B!NoQuestion
      BY <2>1 DEF Since, Gets
    <3>2. g[i].current[v] \in Open
      <4>1. i \in 0..n
        BY <1>1
      <4>2. g[i] \in Bots
        BY <1>1, <4>1
      <4> HIDE DEF g
      <4> QED BY <4>2 DEF Bots
    <3>3. g[i].current[v] \in Questions
      BY <3>1, <3>2 DEF Open
    <3> HIDE DEF g
    <3> QED BY <2>1, <3>3, NoQuestionIs
  <2>2. CASE i \notin since
    BY <2>2
  <2> QED BY <2>1, <2>2
<1>4. \A x : P(x) <=> x = [i \in 0..n |-> IF i = 0 THEN 0 ELSE x[i - 1] + add(i)]
  OBVIOUS
<1> HIDE DEF n, add, P, w, g, since
<1>5. step \in [1..n -> [Nat -> Nat]]
  BY <1>3
<1>6. PICK f : Grows(f, n, 0, step) /\ \A i \in 0..n : f[i] \in Nat
  <2>1. 0 \in Nat
    OBVIOUS
  <2> HIDE DEF step
  <2> QED BY <1>1, <1>5, <2>1, Recursion
<1>7. P(f)
  <2>1. f = [i \in 0..n |-> f[i]] /\ f[0] = 0 /\ \A i \in 1..n : f[i] = step[i][f[i - 1]]
    <3> HIDE DEF step
    <3> QED BY <1>6 DEF Grows
  <2>2. ASSUME NEW i \in 1..n  PROVE f[i] = f[i - 1] + add(i)
    <3>1. i - 1 \in 0..n
      BY <1>1
    <3> QED BY <1>6, <2>1, <3>1
  <2>3. \A i \in 0..n : f[i] = IF i = 0 THEN 0 ELSE f[i - 1] + add(i)
    <3>1. \A i \in 0..n : i = 0 \/ i \in 1..n
      BY <1>1
    <3> HIDE DEF step
    <3> QED BY <2>1, <2>2, <3>1
  <2> HIDE DEF step
  <2> QED BY <1>4, <2>1, <2>3
<1>8. P(w)
  BY <1>7 DEF w
<1>9. w[0] = 0 /\ \A i \in 1..n : w[i] = w[i - 1] + add(i)
  <2>1. 0 \in 0..n /\ \A i \in 1..n : i \in 0..n /\ i # 0
    BY <1>1
  <2>2. w = [i \in 0..n |-> IF i = 0 THEN 0 ELSE w[i - 1] + add(i)]
    BY <1>4, <1>8
  <2> QED BY <2>1, <2>2
<1>0. w = [i \in 0..n |-> w[i]]
  <2>1. w = [i \in 0..n |-> IF i = 0 THEN 0 ELSE w[i - 1] + add(i)]
    BY <1>4, <1>8
  <2> QED BY <2>1
<1> DEFINE S == {i \in Nat : i <= n => w[i] \in Nat}
<1>10. 0 \in S /\ \A i \in Nat : i \in S => i + 1 \in S
  <2>1. 0 \in S
    BY <1>9
  <2>2. ASSUME NEW i \in Nat, i \in S, i + 1 <= n  PROVE w[i + 1] \in Nat
    <3>1. i + 1 \in 1..n /\ (i + 1) - 1 = i /\ w[i] \in Nat
      BY <1>1, <2>2
    <3> QED BY <1>3, <1>9, <3>1
  <2> QED BY <2>1, <2>2
<1>11. \A i \in Nat : i \in S
  <2> HIDE DEF S
  <2> QED BY <1>10, Induction
<1>12. w \in [0..n -> Nat]
  BY <1>0, <1>1, <1>11
<1> QED BY <1>2, <1>9, <1>12 DEF n, add, g, since

\* One element more in an interval.
LEMMA OneMore ==
  ASSUME NEW S, NEW k \in Nat
  PROVE  /\ IsFiniteSet(S \cap (1..k)) /\ Cardinality(S \cap (1..k)) \in Nat
         /\ Cardinality(S \cap (1..(k + 1))) = Cardinality(S \cap (1..k)) + (IF k + 1 \in S THEN 1 ELSE 0)
<1>1. IsFiniteSet(1..k)
  BY FS_Interval
<1>2. IsFiniteSet(S \cap (1..k))
  BY <1>1, FS_Subset
<1>3. Cardinality(S \cap (1..k)) \in Nat
  BY <1>2, FS_CardinalityType
<1>4. CASE k + 1 \in S
  <2>1. S \cap (1..(k + 1)) = (S \cap (1..k)) \cup {k + 1} /\ k + 1 \notin S \cap (1..k)
    BY <1>4
  <2>2. Cardinality((S \cap (1..k)) \cup {k + 1}) = Cardinality(S \cap (1..k)) + 1
    BY <1>2, <2>1, FS_AddElement
  <2> QED BY <1>2, <1>3, <1>4, <2>1, <2>2
<1>5. CASE k + 1 \notin S
  <2>1. S \cap (1..(k + 1)) = S \cap (1..k)
    BY <1>5
  <2> QED BY <1>2, <1>3, <1>5, <2>1
<1> QED BY <1>4, <1>5

IsOpen(t, v) == IF t.current[v] = B!NoQuestion THEN 0 ELSE 1
Stake(t, v)  == IF t.current[v] = B!NoQuestion THEN 0 ELSE t.current[v].value

\* What is settled after m commands, if nothing is reset after them.
Settled(g, v, w, m) ==
  /\ g[m].answered[v] + IsOpen(g[m], v) = Cardinality(Since(g, v) \cap (1..m))
  /\ g[m].scores[v] + Stake(g[m], v) <= w[m]

LEMMA StepSettles ==
  ASSUME case \in Games, NEW v \in Players, NEW w \in [0..Commands -> Nat],
         \A i \in 1..Commands :
           w[i] = w[i - 1] + (IF i \in Since(Game, v) THEN Game[i].current[v].value ELSE 0),
         NEW m \in Nat, m + 1 <= Commands, \A k \in (m + 2)..Commands : ~IsReset(Game, k),
         ~IsReset(Game, m + 1) => Settled(Game, v, w, m)
  PROVE  Settled(Game, v, w, m + 1)
<1> DEFINE n == Commands  g == Game  t == g[m]  r == g[m + 1]  u == case.who[m + 1]
           since == Since(g, v)  i == m + 1
           card == Cardinality(since \cap (1..m))
<1>1. n \in Nat /\ i \in 1..n /\ i - 1 = m /\ m \in 0..n /\ i \in 0..n
  BY GameIs
<1>2. /\ u \in Players /\ t \in Bots /\ r \in Bots
      /\ IsReset(g, i) => Cleared(r)
      /\ ~IsReset(g, i) => Kept(t, r) \/ Asked(t, r, u) \/ Answered(t, r, u)
  BY <1>1, Steps
<1>3. i \in since <=> Gets(g, v, i) /\ ~IsReset(g, i)
  <2>1. since = {k \in 1..n : Gets(g, v, k) /\ \A l \in k..n : ~IsReset(g, l)}
    BY DEF Since, Commands
  <2>2. (\A l \in i..n : ~IsReset(g, l)) <=> ~IsReset(g, i)
    <3>1. i \in i..n /\ \A l \in i..n : l = i \/ l \in (m + 2)..n
      BY <1>1
    <3> QED BY <3>1
  <2> QED BY <1>1, <2>1, <2>2
<1>4. w[i] = w[m] + (IF i \in since THEN r.current[v].value ELSE 0) /\ w[m] \in Nat /\ w[i] \in Nat
  BY <1>1
<1>5. card \in Nat /\ Cardinality(since \cap (1..i)) = card + (IF i \in since THEN 1 ELSE 0)
  BY OneMore
<1>6. /\ t.answered[v] \in Nat /\ t.scores[v] \in Nat /\ r.answered[v] \in Nat /\ r.scores[v] \in Nat
      /\ t.current[v] \in Open /\ r.current[v] \in Open
  <2> HIDE DEF t, r
  <2> QED BY <1>2 DEF Bots, Counts
<1>7. ~IsReset(g, i) => t.answered[v] + IsOpen(t, v) = card /\ t.scores[v] + Stake(t, v) <= w[m]
  BY DEF Settled
<1>8. CASE IsReset(g, i)
  <2>1. r.answered[v] = 0 /\ r.scores[v] = 0 /\ r.current[v] = B!NoQuestion
    BY <1>2, <1>8 DEF Cleared
  <2>2. since \cap (1..i) = {}
    <3>1. \A k \in since : k \in 1..n /\ \A l \in k..n : ~IsReset(g, l)
      BY DEF Since, Commands
    <3>2. ASSUME NEW k \in since, k \in 1..i  PROVE FALSE
      <4>1. i \in k..n
        BY <1>1, <3>2
      <4> QED BY <1>8, <3>1, <4>1
    <3> QED BY <3>2
  <2>3. Cardinality(since \cap (1..i)) = 0
    BY <2>2, FS_EmptySet
  <2>4. IsOpen(r, v) = 0 /\ Stake(r, v) = 0
    BY <2>1 DEF IsOpen, Stake
  <2> QED BY <1>4, <2>1, <2>3, <2>4 DEF Settled
<1>9. CASE ~IsReset(g, i)
  <2>1. t.answered[v] + IsOpen(t, v) = card /\ t.scores[v] + Stake(t, v) <= w[m]
    BY <1>7, <1>9
  <2>2. /\ Asked(t, r, u) => (i \in since <=> v = u)
        /\ Kept(t, r) \/ Answered(t, r, u) => i \notin since
    BY <1>1, <1>3, <1>9, GetsIs
  <2>3. IsOpen(t, v) \in Nat /\ IsOpen(r, v) \in Nat /\ Stake(t, v) \in Nat /\ Stake(r, v) \in Nat
    BY <1>6, NoQuestionIs DEF IsOpen, Stake, Open
  <2> SUFFICES /\ r.answered[v] + IsOpen(r, v) = card + (IF i \in since THEN 1 ELSE 0)
               /\ r.scores[v] + Stake(r, v) <= w[m] + (IF i \in since THEN r.current[v].value ELSE 0)
    BY <1>4, <1>5 DEF Settled
  <2> HIDE DEF t, r, g, since, card, i, n, u
  <2>4. CASE Kept(t, r)
    <3>1. r.answered[v] = t.answered[v] /\ r.scores[v] = t.scores[v] /\ r.current[v] = t.current[v]
      BY <2>4 DEF Kept
    <3>2. IsOpen(r, v) = IsOpen(t, v) /\ Stake(r, v) = Stake(t, v) /\ i \notin since
      BY <2>2, <2>4, <3>1 DEF IsOpen, Stake
    <3> QED BY <1>4, <1>5, <1>6, <2>1, <2>3, <3>1, <3>2
  <2>5. CASE Asked(t, r, u)
    <3>1. r.answered[v] = t.answered[v] /\ r.scores[v] = t.scores[v]
      BY <2>5 DEF Asked
    <3>2. CASE v = u
      <4>1. i \in since /\ t.current[v] = B!NoQuestion /\ r.current[v] \in Questions
        BY <2>2, <2>5, <3>2 DEF Asked
      <4>2. IsOpen(t, v) = 0 /\ IsOpen(r, v) = 1 /\ Stake(t, v) = 0 /\ Stake(r, v) = r.current[v].value
        BY <4>1, NoQuestionIs DEF IsOpen, Stake
      <4>3. r.current[v].value \in Nat
        BY <4>1, NoQuestionIs
      <4>4. r.answered[v] + IsOpen(r, v) = card + 1
        BY <1>6, <2>1, <3>1, <4>2
      <4>5. r.scores[v] + Stake(r, v) <= w[m] + r.current[v].value
        BY <1>4, <1>6, <2>1, <3>1, <4>2, <4>3
      <4> QED BY <4>1, <4>4, <4>5
    <3>3. CASE v # u
      <4>1. i \notin since /\ r.current[v] = t.current[v]
        BY <2>2, <2>5, <3>3 DEF Asked
      <4>2. IsOpen(r, v) = IsOpen(t, v) /\ Stake(r, v) = Stake(t, v)
        BY <4>1 DEF IsOpen, Stake
      <4> QED BY <1>4, <1>5, <1>6, <2>1, <2>3, <3>1, <4>1, <4>2
    <3> QED BY <3>2, <3>3
  <2>6. CASE Answered(t, r, u)
    <3>1. i \notin since
      BY <2>2, <2>6
    <3>2. CASE v = u
      <4>1. /\ t.current[v] \in Questions /\ r.current[v] = B!NoQuestion
            /\ r.answered[v] = t.answered[v] + 1 /\ r.scores[v] <= t.scores[v] + t.current[v].value
        BY <2>6, <3>2 DEF Answered
      <4>2. IsOpen(t, v) = 1 /\ IsOpen(r, v) = 0 /\ Stake(t, v) = t.current[v].value /\ Stake(r, v) = 0
        BY <4>1, NoQuestionIs DEF IsOpen, Stake
      <4>3. t.current[v].value \in Nat
        BY <4>1, NoQuestionIs
      <4> QED BY <1>4, <1>5, <1>6, <2>1, <3>1, <4>1, <4>2, <4>3
    <3>3. CASE v # u
      <4>1. r.answered[v] = t.answered[v] /\ r.scores[v] = t.scores[v] /\ r.current[v] = t.current[v]
        BY <2>6, <3>3 DEF Answered
      <4>2. IsOpen(r, v) = IsOpen(t, v) /\ Stake(r, v) = Stake(t, v)
        BY <4>1 DEF IsOpen, Stake
      <4> QED BY <1>4, <1>5, <1>6, <2>1, <2>3, <3>1, <4>1, <4>2
    <3> QED BY <3>2, <3>3
  <2> QED BY <1>2, <1>9, <2>4, <2>5, <2>6 DEF g, i
<1> QED BY <1>8, <1>9

\* Every question since the last reset is open, or answered and scored at most its value.
LEMMA AllSettled ==
  ASSUME case \in Games, NEW v \in Players
  PROVE  LET g == Game  n == Commands IN
         /\ g[n].answered[v] + IsOpen(g[n], v) = Cardinality(Since(g, v))
         /\ g[n].scores[v] <= Worth(g, v)
<1> DEFINE g == Game  n == Commands  since == Since(g, v)
<1>1. PICK w \in [0..n -> Nat] :
           /\ Worth(g, v) = w[n] /\ w[0] = 0
           /\ \A i \in 1..n : w[i] = w[i - 1] + (IF i \in since THEN g[i].current[v].value ELSE 0)
  BY WorthIs
<1>2. n \in Nat /\ g[0] = B!NewTriviaBot /\ g[n] \in Bots
  <2>1. n \in Nat
    BY GameIs
  <2>2. n \in 0..n
    BY <2>1
  <2> QED BY <2>1, <2>2, GameIs
<1> DEFINE Q(m) == m <= n /\ (\A k \in (m + 1)..n : ~IsReset(g, k)) => Settled(g, v, w, m)
           S == {m \in Nat : Q(m)}
<1>3. Settled(g, v, w, 0)
  <2>1. g[0].answered[v] = 0 /\ g[0].scores[v] = 0 /\ g[0].current[v] = B!NoQuestion
    BY <1>2 DEF B!NewTriviaBot
  <2>2. IsOpen(g[0], v) = 0 /\ Stake(g[0], v) = 0
    BY <2>1 DEF IsOpen, Stake
  <2>3. since \cap (1..0) = {} /\ Cardinality({}) = 0
    BY FS_EmptySet
  <2> HIDE DEF g
  <2> QED BY <1>1, <2>1, <2>2, <2>3 DEF Settled
<1>4. Q(0)
  BY <1>3
<1>5. ASSUME NEW m \in Nat, Q(m)  PROVE Q(m + 1)
  <2> SUFFICES ASSUME m + 1 <= n, \A k \in ((m + 1) + 1)..n : ~IsReset(g, k)
               PROVE  Settled(g, v, w, m + 1)
    OBVIOUS
  <2>1. \A k \in (m + 2)..n : ~IsReset(g, k)
    <3>1. \A k \in (m + 2)..n : k \in ((m + 1) + 1)..n
      OBVIOUS
    <3> QED BY <3>1
  <2>2. ASSUME ~IsReset(g, m + 1)  PROVE Settled(g, v, w, m)
    <3>1. m <= n /\ \A k \in (m + 1)..n : k = m + 1 \/ k \in (m + 2)..n
      BY <1>2
    <3>2. \A k \in (m + 1)..n : ~IsReset(g, k)
      BY <2>1, <2>2, <3>1
    <3> QED BY <1>5, <3>1, <3>2
  <2> QED BY <1>1, <2>1, <2>2, StepSettles
<1> HIDE DEF Q
<1>6. 0 \in S /\ \A m \in Nat : m \in S => m + 1 \in S
  BY <1>4, <1>5
<1>7. n \in S
  <2> HIDE DEF S
  <2> QED BY <1>2, <1>6, Induction
<1>8. Settled(g, v, w, n)
  <2>1. n <= n /\ (n + 1)..n = {}
    BY <1>2
  <2> QED BY <1>7, <2>1 DEF Q
<1>9. since \cap (1..n) = since
  BY DEF Since, Commands
<1>10. g[n].scores[v] \in Nat /\ Stake(g[n], v) \in Nat /\ w[n] \in Nat
  <2>1. g[n].scores[v] \in Nat /\ g[n].current[v] \in Open
    BY <1>2 DEF Bots, Counts
  <2>2. n \in 0..n
    BY <1>2
  <2> QED BY <2>1, <2>2, NoQuestionIs DEF Stake, Open
<1>11. g[n].scores[v] <= w[n]
  <2> DEFINE a == g[n].scores[v]  b == Stake(g[n], v)  c == w[n]
  <2>1. a + b <= c /\ a \in Nat /\ b \in Nat /\ c \in Nat
    BY <1>8, <1>10 DEF Settled
  <2> HIDE DEF a, b, c
  <2>2. a <= c
    BY <2>1
  <2> QED BY <2>2 DEF a, c
<1> QED BY <1>1, <1>8, <1>9, <1>11 DEF Settled

\* What the service has sent in the first m commands; Distinct questions.
SentBy(q, m) == \E k \in 1..m : \E j \in DOMAIN case.says[k].list : q = case.says[k].list[j]
Unlike(s)    == \A a, b \in DOMAIN s : s[a] = s[b] => a = b

\* The questions in qs are sent, not yet given out in m commands, and no two the same.
Fresh(g, qs, m, last) ==
  /\ qs \in Seq(Questions) /\ Unlike(qs)
  /\ \A a \in DOMAIN qs : SentBy(qs[a], last)
  /\ \A u \in Players, k \in 1..m :
       Gets(g, u, k) => SentBy(g[k].current[u], last) /\ \A a \in DOMAIN qs : qs[a] # g[k].current[u]

\* No question is given out twice in m commands.
Once(g, m) ==
  \A u, v \in Players, i, j \in 1..m :
    Gets(g, u, i) /\ Gets(g, v, j) /\ g[i].current[u] = g[j].current[v] => u = v /\ i = j

\* Questions that are sent now have not been sent before.
LEMMA NewAreNew ==
  ASSUME case \in Games, NEW m \in Nat, m + 1 <= Commands
  PROVE  LET list == case.says[m + 1].list IN
         /\ list \in Seq(Questions) /\ Unlike(list)
         /\ \A j \in DOMAIN list : ~SentBy(list[j], m) /\ SentBy(list[j], m + 1)
         /\ \A q : SentBy(q, m) => SentBy(q, m + 1)
<1> DEFINE list == case.says[m + 1].list
<1>1. /\ Commands \in Nat /\ m + 1 \in 1..Commands
      /\ \A i \in 1..Commands : case.says[i] \in Reply
  BY GameIs
<1>2. DOMAIN case.says = 1..Commands
  <2>1. case.says \in Seq([reply : {"ok", "bad", "down"}, list : Seq(Questions)]) /\ Len(case.says) = Commands
    BY GamesAssumption DEF Commands
  <2> QED BY <2>1
<1>3. \A i, k \in DOMAIN case.says : \A j \in DOMAIN case.says[i].list, l \in DOMAIN case.says[k].list :
        case.says[i].list[j] = case.says[k].list[l] => i = k /\ j = l
  BY GamesAssumption
<1>4. list \in Seq(Questions)
  BY <1>1 DEF Reply
<1>5. Unlike(list)
  BY <1>1, <1>2, <1>3 DEF Unlike
<1>6. ASSUME NEW j \in DOMAIN list  PROVE ~SentBy(list[j], m) /\ SentBy(list[j], m + 1)
  <2>1. \A k \in 1..m : k \in 1..Commands /\ k # m + 1
    BY <1>1
  <2>2. ~SentBy(list[j], m)
    BY <1>1, <1>2, <1>3, <2>1 DEF SentBy
  <2>3. m + 1 \in 1..(m + 1)
    OBVIOUS
  <2> QED BY <2>2, <2>3 DEF SentBy
<1>7. \A q : SentBy(q, m) => SentBy(q, m + 1)
  <2>1. \A k \in 1..m : k \in 1..(m + 1)
    OBVIOUS
  <2> QED BY <2>1 DEF SentBy
<1> QED BY <1>4, <1>5, <1>6, <1>7

\* Fetching leaves what is left fresh.
LEMMA FetchesFresh ==
  ASSUME case \in Games, NEW m \in Nat, m + 1 <= Commands, NEW g, NEW qs,
         Fresh(g, qs, m, m)
  PROVE  /\ Fresh(g, qs, m, m + 1)
         /\ Fresh(g, qs \o case.says[m + 1].list, m, m + 1)
<1> DEFINE list == case.says[m + 1].list  all == qs \o list
<1>1. /\ list \in Seq(Questions) /\ Unlike(list)
      /\ \A j \in DOMAIN list : ~SentBy(list[j], m) /\ SentBy(list[j], m + 1)
      /\ \A q : SentBy(q, m) => SentBy(q, m + 1)
  BY NewAreNew
<1>2. /\ qs \in Seq(Questions) /\ Unlike(qs)
      /\ \A a \in DOMAIN qs : SentBy(qs[a], m)
      /\ \A u \in Players, k \in 1..m :
           Gets(g, u, k) => SentBy(g[k].current[u], m) /\ \A a \in DOMAIN qs : qs[a] # g[k].current[u]
  BY DEF Fresh
<1>3. Fresh(g, qs, m, m + 1)
  BY <1>1, <1>2 DEF Fresh
<1> HIDE DEF list
<1>4. all \in Seq(Questions)
  BY <1>1, <1>2
<1>5. \A a \in DOMAIN all :
        \/ a \in DOMAIN qs /\ all[a] = qs[a]
        \/ a - Len(qs) \in DOMAIN list /\ all[a] = list[a - Len(qs)] /\ a \in Nat
  <2>1. Len(all) = Len(qs) + Len(list) /\ Len(qs) \in Nat /\ Len(list) \in Nat
    BY <1>1, <1>2
  <2>2. DOMAIN all = 1..(Len(qs) + Len(list)) /\ DOMAIN qs = 1..Len(qs) /\ DOMAIN list = 1..Len(list)
    BY <1>1, <1>2, <1>4, <2>1
  <2>3. \A a \in 1..(Len(qs) + Len(list)) : all[a] = IF a <= Len(qs) THEN qs[a] ELSE list[a - Len(qs)]
    BY <1>1, <1>2
  <2> HIDE DEF all
  <2>4. TAKE a \in DOMAIN all
  <2>5. CASE a <= Len(qs)
    BY <2>1, <2>2, <2>3, <2>5
  <2>6. CASE ~(a <= Len(qs))
    <3>1. a \in Nat /\ a \in 1..(Len(qs) + Len(list)) /\ a - Len(qs) \in 1..Len(list)
      BY <2>1, <2>2, <2>6
    <3> QED BY <2>2, <2>3, <2>6, <3>1
  <2> QED BY <2>5, <2>6
<1>6. Len(qs) \in Nat
  BY <1>2
<1>d. DOMAIN qs = 1..Len(qs)
  BY <1>2
<1> HIDE DEF all
<1>7. Unlike(all)
  <2> SUFFICES ASSUME NEW a \in DOMAIN all, NEW b \in DOMAIN all, all[a] = all[b]  PROVE a = b
    BY DEF Unlike
  <2>1. CASE a \in DOMAIN qs /\ all[a] = qs[a]
    <3>1. ~(b - Len(qs) \in DOMAIN list /\ all[b] = list[b - Len(qs)])
      BY <1>1, <1>2, <2>1
    <3>2. b \in DOMAIN qs /\ all[b] = qs[b]
      BY <1>5, <3>1
    <3> QED BY <1>2, <2>1, <3>2 DEF Unlike
  <2>2. CASE a - Len(qs) \in DOMAIN list /\ all[a] = list[a - Len(qs)] /\ a \in Nat
    <3>1. ~(b \in DOMAIN qs /\ all[b] = qs[b])
      BY <1>1, <1>2, <2>2
    <3>2. b - Len(qs) \in DOMAIN list /\ all[b] = list[b - Len(qs)] /\ b \in Nat
      BY <1>5, <3>1
    <3>3. a - Len(qs) = b - Len(qs)
      BY <1>1, <2>2, <3>2 DEF Unlike
    <3> QED BY <1>6, <2>2, <3>2, <3>3
  <2> QED BY <1>5, <2>1, <2>2
<1>8. \A a \in DOMAIN all : SentBy(all[a], m + 1)
  BY <1>1, <1>2, <1>5
<1>9. ASSUME NEW u \in Players, NEW k \in 1..m, Gets(g, u, k)
      PROVE  SentBy(g[k].current[u], m + 1) /\ \A a \in DOMAIN all : all[a] # g[k].current[u]
  <2>1. SentBy(g[k].current[u], m) /\ \A a \in DOMAIN qs : qs[a] # g[k].current[u]
    BY <1>2, <1>9
  <2> QED BY <1>1, <1>5, <2>1
<1>10. Fresh(g, all, m, m + 1)
  BY <1>4, <1>7, <1>8, <1>9 DEF Fresh
<1> QED BY <1>3, <1>10 DEF all, list

\* The rest of a list of unlike questions does not have its first.
LEMMA RestIsUnlike ==
  ASSUME NEW qs \in Seq(Questions), qs # <<>>, Unlike(qs)
  PROVE  LET rest == Tail(qs) IN
         /\ rest \in Seq(Questions) /\ Unlike(rest) /\ 1 \in DOMAIN qs /\ Head(qs) = qs[1]
         /\ \A a \in DOMAIN rest : a + 1 \in DOMAIN qs /\ rest[a] = qs[a + 1] /\ rest[a] # qs[1]
<1> DEFINE rest == Tail(qs)
<1>1. /\ rest \in Seq(Questions) /\ Len(rest) = Len(qs) - 1 /\ Len(qs) \in Nat \ {0}
      /\ \A a \in 1..Len(rest) : rest[a] = qs[a + 1]
  BY EmptySeq
<1>2. DOMAIN rest = 1..Len(rest) /\ DOMAIN qs = 1..Len(qs) /\ Head(qs) = qs[1]
  BY <1>1
<1> HIDE DEF rest
<1>3. \A a \in DOMAIN rest : a \in Nat /\ a + 1 \in DOMAIN qs /\ 1 \in DOMAIN qs /\ a + 1 # 1
  BY <1>1, <1>2
<1>4. \A a \in DOMAIN rest : rest[a] # qs[1]
  BY <1>1, <1>2, <1>3 DEF Unlike
<1>5. Unlike(rest)
  <2> SUFFICES ASSUME NEW a \in DOMAIN rest, NEW b \in DOMAIN rest, rest[a] = rest[b]  PROVE a = b
    BY DEF Unlike
  <2>1. a + 1 = b + 1
    BY <1>1, <1>2, <1>3 DEF Unlike
  <2> QED BY <1>3, <2>1
<1>6. 1 \in DOMAIN qs
  BY <1>1, <1>2
<1> QED BY <1>1, <1>2, <1>3, <1>4, <1>5, <1>6 DEF rest

LEMMA StepGivesOnce ==
  ASSUME case \in Games, NEW m \in Nat, m + 1 <= Commands,
         Fresh(Game, Game[m].questions, m, m), Once(Game, m)
  PROVE  Fresh(Game, Game[m + 1].questions, m + 1, m + 1) /\ Once(Game, m + 1)
<1> DEFINE g == Game  t == g[m]  r == g[m + 1]  w == case.who[m + 1]  i == m + 1
           list == case.says[i].list
<1>1. i \in 1..Commands /\ i - 1 = m /\ \A k \in 1..i : k \in 1..m \/ k = i
  BY GameIs
<1>2. /\ w \in Players /\ t \in Bots /\ r \in Bots
      /\ (r.questions = t.questions /\ r = t) \/ Left1(t, r, w, case.says[i])
  BY <1>1, Steps
<1>3. \A v \in Players : Gets(g, v, i) <=> r.current[v] \notin {B!NoQuestion, t.current[v]}
  BY <1>1 DEF Gets
<1>4. Fresh(g, t.questions, m, i) /\ Fresh(g, t.questions \o list, m, i)
  BY FetchesFresh
<1>5. Once(g, m)
  OBVIOUS
<1> HIDE DEF g, t, r, w, list
<1>6. ASSUME NEW qs, Fresh(g, qs, m, i), r.questions = qs, \A v \in Players : ~Gets(g, v, i)
      PROVE  Fresh(g, r.questions, i, i) /\ Once(g, i)
  <2> HIDE DEF i
  <2>1. Fresh(g, r.questions, i, i)
    BY <1>1, <1>6 DEF Fresh
  <2>2. Once(g, i)
    BY <1>1, <1>5, <1>6 DEF Once
  <2> QED BY <2>1, <2>2
<1>7. CASE r.questions = t.questions /\ r = t
  <2>1. \A v \in Players : ~Gets(g, v, i)
    BY <1>3, <1>7
  <2> QED BY <1>4, <1>6, <1>7, <2>1 DEF g, r
<1>8. CASE Left1(t, r, w, case.says[i])
  <2>1. PICK qs \in Seq(Questions) :
          /\ qs = t.questions \/ qs = t.questions \o list
          /\ \/ r.questions = qs /\ \A v \in Players : r.current[v] \in {t.current[v], B!NoQuestion}
             \/ qs # <<>> /\ r.questions = Tail(qs) /\ r.current[w] = Head(qs) /\ Asked(t, r, w)
    BY <1>8 DEF Left1, list
  <2>2. Fresh(g, qs, m, i)
    BY <1>4, <2>1
  <2>3. CASE r.questions = qs /\ \A v \in Players : r.current[v] \in {t.current[v], B!NoQuestion}
    <3>1. \A v \in Players : ~Gets(g, v, i)
      BY <1>3, <2>3
    <3> QED BY <1>6, <2>2, <2>3, <3>1 DEF g, r
  <2>4. CASE qs # <<>> /\ r.questions = Tail(qs) /\ r.current[w] = Head(qs) /\ Asked(t, r, w)
    <3> DEFINE rest == Tail(qs)
    <3>1. /\ rest \in Seq(Questions) /\ Unlike(rest) /\ 1 \in DOMAIN qs /\ Head(qs) = qs[1]
          /\ \A a \in DOMAIN rest : a + 1 \in DOMAIN qs /\ rest[a] = qs[a + 1] /\ rest[a] # qs[1]
      BY <2>2, <2>4, RestIsUnlike DEF Fresh
    <3> HIDE DEF rest
    <3>2. \A v \in Players : Gets(g, v, i) => v = w
      BY <1>3, <2>4 DEF Asked
    <3>3. g[i].current[w] = qs[1]
      BY <2>4, <3>1 DEF r, i
    <3>4. /\ \A a \in DOMAIN qs : SentBy(qs[a], i)
          /\ \A u \in Players, k \in 1..m :
               Gets(g, u, k) => SentBy(g[k].current[u], i) /\ \A a \in DOMAIN qs : qs[a] # g[k].current[u]
      BY <2>2 DEF Fresh
    <3> HIDE DEF i
    <3>5. ASSUME NEW u \in Players, NEW k \in 1..i, Gets(g, u, k)
          PROVE  SentBy(g[k].current[u], i) /\ \A a \in DOMAIN rest : rest[a] # g[k].current[u]
      <4>1. CASE k \in 1..m
        BY <3>1, <3>4, <3>5, <4>1
      <4>2. CASE k = i
        BY <3>1, <3>2, <3>3, <3>4, <3>5, <4>2
      <4> QED BY <1>1, <4>1, <4>2
    <3>6. \A a \in DOMAIN rest : SentBy(rest[a], i)
      BY <3>1, <3>4
    <3>7. Fresh(g, rest, i, i)
      BY <3>1, <3>5, <3>6 DEF Fresh
    <3>8. Once(g, i)
      <4> SUFFICES ASSUME NEW u \in Players, NEW v \in Players, NEW k \in 1..i, NEW l \in 1..i,
                          Gets(g, u, k), Gets(g, v, l), g[k].current[u] = g[l].current[v]
                   PROVE  u = v /\ k = l
        BY DEF Once
      <4>1. CASE k \in 1..m /\ l \in 1..m
        BY <1>5, <4>1 DEF Once
      <4>2. CASE k \in 1..m /\ l = i
        <5>1. v = w /\ g[l].current[v] = qs[1]
          BY <3>2, <3>3, <4>2
        <5>2. qs[1] # g[k].current[u]
          BY <3>1, <3>4, <4>2
        <5> QED BY <5>1, <5>2
      <4>3. CASE k = i /\ l \in 1..m
        <5>1. u = w /\ g[k].current[u] = qs[1]
          BY <3>2, <3>3, <4>3
        <5>2. qs[1] # g[l].current[v]
          BY <3>1, <3>4, <4>3
        <5> QED BY <5>1, <5>2
      <4>4. CASE k = i /\ l = i
        BY <3>2, <4>4
      <4> QED BY <1>1, <4>1, <4>2, <4>3, <4>4
    <3> QED BY <2>4, <3>7, <3>8 DEF g, r, i, rest
  <2> QED BY <2>1, <2>3, <2>4
<1> QED BY <1>2, <1>7, <1>8

\* No question is given out twice, and what ends the process.
LEMMA AllOnce ==
  ASSUME case \in Games
  PROVE  /\ Once(Game, Commands)
         /\ Game[Commands].end = "panic" =>
              \E i \in 1..Commands : case.says[i].reply = "down" \/ case.says[i].list = <<>>
<1> DEFINE g == Game  n == Commands
           Q(m) == m <= n =>
                     /\ Fresh(g, g[m].questions, m, m) /\ Once(g, m)
                     /\ g[m].end = "panic" => \E i \in 1..m : case.says[i].reply = "down" \/ case.says[i].list = <<>>
           S == {m \in Nat : Q(m)}
<1>1. n \in Nat /\ g[0] = B!NewTriviaBot
  BY GameIs
<1>2. Q(0)
  <2>1. g[0].questions = <<>> /\ g[0].end = "no"
    BY <1>1 DEF B!NewTriviaBot
  <2>2. DOMAIN g[0].questions = {} /\ g[0].questions \in Seq(Questions) /\ 1..0 = {}
    BY <2>1
  <2> HIDE DEF g
  <2> QED BY <2>1, <2>2 DEF Fresh, Once, Unlike
<1>3. ASSUME NEW m \in Nat, Q(m)  PROVE Q(m + 1)
  <2> SUFFICES ASSUME m + 1 <= n
               PROVE  /\ Fresh(g, g[m + 1].questions, m + 1, m + 1) /\ Once(g, m + 1)
                      /\ g[m + 1].end = "panic" =>
                           \E i \in 1..(m + 1) : case.says[i].reply = "down" \/ case.says[i].list = <<>>
    OBVIOUS
  <2>1. m <= n /\ m + 1 \in 1..n /\ (m + 1) - 1 = m /\ m + 1 \in 1..(m + 1) /\ \A i \in 1..m : i \in 1..(m + 1)
    BY <1>1
  <2>2. Fresh(g, g[m].questions, m, m) /\ Once(g, m)
    BY <1>3, <2>1
  <2>3. Fresh(g, g[m + 1].questions, m + 1, m + 1) /\ Once(g, m + 1)
    BY <2>2, StepGivesOnce
  <2>4. g[m + 1].end = "panic" => \/ g[m].end = "panic"
                                  \/ case.says[m + 1].reply = "down" \/ case.says[m + 1].list = <<>>
    BY <2>1, Steps
  <2> HIDE DEF g
  <2> QED BY <1>3, <2>1, <2>3, <2>4
<1> HIDE DEF Q
<1>4. 0 \in S /\ \A m \in Nat : m \in S => m + 1 \in S
  BY <1>2, <1>3
<1>5. n \in S
  <2> HIDE DEF S
  <2> QED BY <1>1, <1>4, Induction
<1>6. n <= n
  BY <1>1
<1> QED BY <1>5, <1>6 DEF Q

LEMMA GamesAreFair == Init => FairGame
<1> SUFFICES ASSUME case \in Games  PROVE FairGame
  <2> SUFFICES ASSUME Init, case.kind = "trivia"  PROVE case \in Games
    BY DEF FairGame
  <2> QED BY WrapsAssumption, InputsAssumption, StreamsAssumption, HandoversAssumption, ShakesAssumption,
             CompletionsAssumption DEF Init, ChatCases
<1>1. Once(Game, Commands)
  BY AllOnce
<1>2. Game[Commands].end = "panic" =>
        \E i \in 1..Commands : case.says[i].reply = "down" \/ case.says[i].list = <<>>
  BY AllOnce
<1>3. \A u \in Players :
        /\ Game[Commands].answered[u] + IsOpen(Game[Commands], u) = Cardinality(Since(Game, u))
        /\ Game[Commands].scores[u] <= Worth(Game, u)
  BY AllSettled
<1> HIDE DEF Game, Worth, Since, Gets
<1> QED BY <1>1, <1>2, <1>3 DEF FairGame, Once, IsOpen, Commands

\* FairGame for all games: however the players mix their commands and whatever
\* the service sends, no question is given out twice, each that was given since
\* the last reset is open or answered once and scored at most its value, and
\* only a service that is down or sends nothing ends the process (trivia.go).
THEOREM GamesStayFair == Spec => []FairGame
<1>1. Init => FairGame
  BY GamesAreFair
<1>2. Init /\ [Next]_case => Init'
  BY DEF Next, Init
<1> QED BY <1>1, <1>2, PTL DEF Spec
=============================================================================
