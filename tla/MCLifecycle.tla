---------------------------- MODULE MCLifecycle ----------------------------
(* Lifecycle with two process slots, and the files a first start may find.  *)
EXTENDS Lifecycle

MCFound == {NoFile, [str |-> "mine", ptr |-> "empty", num |-> "neg", opt |-> "missing"]}
=============================================================================
