----------------------------- MODULE MCTerminal -----------------------------
(***************************************************************************)
(* A chat or a remote in a terminal of two sizes.                          *)
(***************************************************************************)
EXTENDS Terminal

TwoSizes    == {[w |-> 1, h |-> 3], [w |-> 2, h |-> 2]}
EvenLong(m) == m % 2 = 0
HitOf(m, q) == m % 3 # 2
SecondActive(m) == m > 10 /\ m % 10 = 2
=============================================================================
