----------------------------- MODULE MCRecords ------------------------------
(* Instances of Records for TLC. *)
EXTENDS Records

File(v, k) == [v |-> v, n |-> k, items |-> [i \in 1..k |-> i]]

\* Nothing stored yet, and files of both formats.
AnyStored == {NoFile, File("v1", 1), File("v1", 2), File("v2", 2)}
=============================================================================
