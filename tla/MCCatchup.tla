----------------------------- MODULE MCCatchup ------------------------------
(* Instances of Catchup for TLC. *)
EXTENDS Catchup

CONSTANTS c1, c2, ann, bob, bot

MCName == [c \in Conns |-> IF c = c1 THEN ann ELSE bob]

Text(lead, at, mentions) == [lead |-> lead, at |-> at, mentions |-> mentions]

\* To all, to one, and to one by mention.
Public  == Text("", None, {})
Private == Text("", ann, {})
Mention == Text("", None, {{ann}})
Silent  == Text("//", None, {})

Texts    == {Mention, Private, Silent}
BotTexts == {Public}
=============================================================================
