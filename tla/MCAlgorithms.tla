---------------------------- MODULE MCAlgorithms ----------------------------
(***************************************************************************)
(* Every small input of the algorithms.                                    *)
(***************************************************************************)
EXTENDS Algorithms

UpTo(n, S) == UNION {[1..k -> S] : k \in 0..n}
Rep(c, n)  == [i \in 1..n |-> c]

\* Texts are put together from words of one-, two- and three-byte characters.
a == V!Char("a", 1, 1)
e == V!Char("e", 2, 1)
s == V!Char("s", 3, 2)

Texts == {FlattenSeq(p) : p \in UpTo(4, {Rep(a, 1), Rep(a, 3), Rep(a, 9), <<V!Space>>, Rep(e, 6), Rep(s, 3)})}

SmallWraps == [kind : {"wrap"}, text : Texts, w : {12, 13, 16}, meta : {0, 2}]

SmallInputs ==
  {c \in [kind : {"input"}, text : UpTo(5, {a, e, s}), cursor : 0..5, max : {3, 4}] : c.cursor <= Len(c.text)}

SmallStreams ==
  [kind : {"frame"}, writes : UpTo(3, {0, 1, 2, 4}) \ {<<>>}, sizes : {<<1>>, <<3>>, <<4>>, <<2, 3>>},
   chunks : {<<1>>, <<9>>, <<3, 2>>}, cut : {0, 1, 4, 5}]

SmallHandovers == [kind : {"json"}, n : 1..4, more : 0..4, chunk : 1..6]

SmallShakes ==
  LET Key == [id : {"k1", "k2"}, size : {127, 128, 512}]
      Srv == [key : Key, policy : {"fixed", "allow", "world"}, list : [{"k1", "k2"} -> {"ann", "", "error"}]]
      Cl  == [key : Key, name : {"bob", ""}, channels : {{"chat"}, {"chat", "new"}}, version : {"v1", "v2"},
              proto : {"json", "none"}, trust : {"k1", H!Nobody}]
  IN  [kind : {"shake"}, srv : Srv, cl : Cl, n : 0..8]

SmallLetters == {"a", "b", "@", C!Blank}

SmallCompletions ==
  LET Words == UpTo(2, {"a", "b"}) \cup {<<"a", C!Blank, "b">>} IN
  {c \in [kind : {"complete"}, input : UpTo(4, SmallLetters), prefix : {<<"@">>, <<>>},
          list : UpTo(2, Words), excludes : {{}, {<<"a">>}}] : \A i \in DOMAIN c.list : c.list[i] # <<>>}

\* Four commands of two players; the service is asked anew at the third.
SmallGames ==
  LET Q(k) == [id |-> k, value |-> IF k % 2 = 0 THEN 5 ELSE 1, right |-> 1 + (k % 2), choices |-> 2]
      List(says, i) == CASE says = "two" -> <<Q(2 * i), Q(2 * i + 1)>> [] says = "bad" -> <<Q(2 * i)>> [] OTHER -> <<>>
      Reply(says) == IF says \in {"none", "two"} THEN "ok" ELSE says
      Says == {"down", "bad", "none", "two"}
  IN  {[kind |-> "trivia", who |-> <<"ann">> \o w, cmd |-> c,
        says |-> [i \in 1..4 |-> LET y == IF i < 3 THEN y1 ELSE y2 IN [reply |-> Reply(y), list |-> List(y, i)]]] :
       w \in [1..3 -> {"ann", "bob"}], c \in [1..4 -> {"", "1", "2", "reset"}], y1 \in Says, y2 \in Says}
=============================================================================
