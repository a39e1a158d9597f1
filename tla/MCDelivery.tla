----------------------------- MODULE MCDelivery -----------------------------
(* Instances of Delivery for TLC. *)
EXTENDS Delivery

CONSTANTS c1, c2, d1

Msg(h, to, m) == [h |-> h, to |-> to, msg |-> m]

TwoSubs == {<<c1, "chat", 1>>, <<c2, "history", 1>>, <<c2, "chat", 2>>}

\* A history answer to c2, the reset and then the log on another channel,
\* with a message everybody gets.
HistoryBatch ==
  { << Msg("history", {c2}, "reset"), Msg("chat", {c1, c2}, "text") >> }

\* The first of them asked for "chat" twice.
ThreeSubs == TwoSubs \cup {<<c1, "chat", 2>>}

\* Also a batch to merge, around a filter without a channel, that ends with a
\* state its client already has.
MixedBatches ==
  HistoryBatch \cup
  { << Msg("chat", {c1}, "text"), Msg(None, {c1}, "text"),
       Msg("chat", {c1, c2}, "state"), Msg("chat", {c1}, "state") >> }

\* One connection, one message.
OneSub   == {<<c1, "chat", 1>>}
OneBatch == { << Msg("chat", {c1}, "text") >> }

MCNeverEqual == {"reset", "text"}
=============================================================================
