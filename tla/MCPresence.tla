----------------------------- MODULE MCPresence -----------------------------
(* Instances of Presence for TLC. *)
EXTENDS Presence

CONSTANTS c1, c2, c3

\* One user on two connections, and another one.
MCName == [c \in Conns |-> IF c = c3 THEN "bob" ELSE "ann"]

TwoChannels == <<"chat", "music">>
MCSubscribed == [c \in Conns |-> IF c = c2 THEN {"music"} ELSE {"chat", "music"}]
=============================================================================
