----------------------------- MODULE MCSession ------------------------------
(* Instances of Session for TLC. *)
EXTENDS Session

\* The client is not in the policy file yet.
NotYet == {"unlisted", "bad"}
=============================================================================
