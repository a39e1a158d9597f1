--------------------------- MODULE BatchLifetime ----------------------------
(***************************************************************************)
(* What BroadcastBatch promises the owner of a batch of messages: the      *)
(* messages may be used, for the recipients chosen when the call starts,   *)
(* until each of those uses is settled; only then are they closed, once.   *)
(* A song file sent to several clients is such a message: Close releases   *)
(* the file that every recipient's writer reads.                           *)
(***************************************************************************)
CONSTANTS Calls, Uses

VARIABLES
  status,  \* status[k]: "idle", "open" or "closed"
  owed     \* owed[k]: the uses of its messages not yet settled

vars == <<status, owed>>

Init ==
  /\ status = [k \in Calls |-> "idle"]
  /\ owed = [k \in Calls |-> {}]

Open(k) ==
  /\ status[k] = "idle"
  /\ status' = [status EXCEPT ![k] = "open"]
  /\ owed' = [owed EXCEPT ![k] = owed'[k]]
  /\ owed'[k] \subseteq Uses

\* Uses end: the message was written, or its recipient has gone.
Settle(k) ==
  /\ status[k] = "open"
  /\ owed' = [owed EXCEPT ![k] = owed'[k]]
  /\ owed'[k] \subseteq owed[k]
  /\ UNCHANGED status

Close(k) ==
  /\ status[k] = "open"
  /\ owed[k] = {}
  /\ status' = [status EXCEPT ![k] = "closed"]
  /\ UNCHANGED owed

Next == \E k \in Calls : Open(k) \/ Settle(k) \/ Close(k)

Spec == Init /\ [][Next]_vars
=============================================================================
