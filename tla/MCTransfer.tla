----------------------------- MODULE MCTransfer -----------------------------
(* Transfer with two songs of at most two bytes: both there, or one of them. *)
EXTENDS Transfer
CONSTANTS a, b
ASSUME Songs = {a, b}
MCFiles == {[s \in Songs |-> IF s = a THEN 2 ELSE n] : n \in 0..1}
=============================================================================
