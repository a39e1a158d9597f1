------------------------------ MODULE Console -------------------------------
(***************************************************************************)
(* The keyboard of the command line client: the bytes of the keys pressed  *)
(* are read one at a time (cmd/client/client.go), go through the escape    *)
(* automaton and the key map with its vi modes (cmd/client/keys.go), and   *)
(* edit the input line, bytes with a cursor that counts characters         *)
(* (ui/term.go), which is kept in a history.                               *)
(***************************************************************************)
EXTENDS Integers, Sequences, SequencesExt, FiniteSetsExt

CONSTANTS
  Keys,       \* the keys that are pressed
  MaxInputs,  \* lines in the history, 100 in the code
  Remote,     \* the mode: a music remote, or the chat
  MaxPressed  \* bound: how many keys are pressed

Arrows == {"up", "down", "right", "left"}

\* A character of two bytes; every other key that prints has one.
Wide == "wide"
Printing(k) == k \in {"x", "i", "[", Wide}

ASSUME ConsoleAssumption ==
  /\ \A k \in Keys : k \in Arrows \cup {"backspace", "enter", "clear", "esc"} \/ Printing(k)
  /\ MaxInputs \in Nat \ {0, 1}
  /\ Remote \in BOOLEAN
  /\ MaxPressed \in Nat

VARIABLES
  tty,      \* bytes of pressed keys, not read yet
  escape,   \* how much of an escape sequence has been read
  insert,   \* vi mode: insert, or normal
  input,    \* the input line
  cursor,   \* its cursor, in characters
  inputs,   \* the history, with the unsent line at its end
  current,  \* which of them is in the input line
  \* history variables: what was pressed, and what it should have come to
  pressed,  \* how many keys
  last,     \* the last one, if it is an arrow or an escape that may still count
  line,     \* the line, in characters, and the cursor
  normal,   \* normal mode
  draft     \* the line that was left for the history, <<>> or <<line>>

reader      == <<tty, escape, insert, input, cursor, inputs, current>>
ideal       == <<pressed, last, line, normal, draft>>
consolevars == <<tty, escape, insert, input, cursor, inputs, current, pressed, last, line, normal, draft>>

-----------------------------------------------------------------------------
Bytes(k) ==
  CASE k = Wide    -> <<"w1", "w2">>
    [] k = "up"    -> <<"esc", "[", "A">>
    [] k = "down"  -> <<"esc", "[", "B">>
    [] k = "right" -> <<"esc", "[", "C">>
    [] k = "left"  -> <<"esc", "[", "D">>
    [] OTHER       -> <<k>>

Encode(text) == FlattenSeq([i \in DOMAIN text |-> Bytes(text[i])])

\* Where characters begin: everywhere but inside a complete wide one; a lone
\* byte of one counts as a character.
Starts(b) == {i \in DOMAIN b : ~(b[i] = "w2" /\ i > 1 /\ b[i - 1] = "w1")}

RuneCount(b) == Cardinality(Starts(b))

\* The index of the first byte of character c, counted from 0.
ByteOf(b, c) ==
  IF c >= RuneCount(b) THEN Len(b) + 1
  ELSE CHOOSE i \in Starts(b) : Cardinality({j \in Starts(b) : j < i}) = c

Clamp(b, c) == Max({0, Min({c, RuneCount(b)})})

\* Editing: each gives the line and the cursor, as <<bytes, cursor>>.
SetInput(b)  == <<b, RuneCount(b)>>
ResetInput   == <<<<>>, 0>>
Left         == <<input, Clamp(input, cursor - 1)>>
Right        == <<input, Clamp(input, cursor + 1)>>

Input(n) == LET b == InsertAt(input, ByteOf(input, cursor), n) IN <<b, Clamp(b, cursor + 1)>>

BackspaceInput ==
  LET from == ByteOf(input, cursor - 1)
      b    == IF cursor = 0 THEN input
              ELSE SubSeq(input, 1, from - 1) \o SubSeq(input, ByteOf(input, cursor), Len(input))
  IN  <<b, Clamp(b, cursor - 1)>>

-----------------------------------------------------------------------------
(* keys.go *)

\* What a byte is mapped to, in insert and in normal mode, after an escape
\* sequence or alone. Of normal mode the model has the way out of it.
Mapped(n, ins, escaped) ==
  CASE ins /\ escaped /\ n \in {"A", "B", "C", "D"} -> TRUE
    [] ins /\ ~escaped /\ n \in {"esc", "backspace", "enter", "clear"} -> TRUE
    [] ins /\ ~escaped /\ Remote /\ n = "[" -> TRUE
    [] ~ins /\ ~escaped /\ n = "i" -> TRUE
    [] OTHER -> FALSE

\* Bound to an action only while the input line is empty.
OnlyWhenEmpty(n) == Remote /\ n = "["

\* Mutant: a bracket after an arrow begins another sequence.
EscapeForgetting(n) ==
  IF n = "esc" THEN 1
  ELSE IF n = "[" /\ escape # 0 THEN 2
  ELSE IF n # "[" /\ escape = 2 THEN 3
  ELSE 0

\* The escape automaton: 1 after the escape, 2 after its bracket, 3 at the
\* byte after that. A bracket anywhere else leaves it as it is.
Escape(n) ==
  IF n = "esc" THEN 1
  ELSE IF n = "[" THEN IF escape = 1 THEN 2 ELSE escape
  ELSE IF escape = 2 THEN 3
  ELSE 0

\* What a byte comes to (Do): an action, "print", or nothing.
Outcome(n) ==
  LET e == Escape(n) IN
  IF e \in {1, 2} THEN IF n = "[" /\ escape = 2 /\ insert THEN "print" ELSE "nothing"
  ELSE IF insert /\ e # 3 /\ input # <<>> /\ OnlyWhenEmpty(n) THEN "print"
  ELSE IF Mapped(n, insert, e = 3) THEN n
  ELSE IF e # 3 /\ insert THEN "print" ELSE "nothing"

-----------------------------------------------------------------------------
(* client.go *)

\* Mutant: only while no entry of the history is in the input line.
KeptAtBottom == IF current = Len(inputs) THEN [inputs EXCEPT ![Len(inputs)] = input] ELSE inputs

\* Before every byte the input is kept as the unsent line, unless it is an
\* entry of the history as it stands there.
Kept ==
  IF current = Len(inputs) \/ inputs[current] # input
  THEN [inputs EXCEPT ![Len(inputs)] = input] ELSE inputs

Trim(h) == SubSeq(h, Max({1, Len(h) - MaxInputs + 1}), Len(h))

Edit(to) == input' = to[1] /\ cursor' = to[2]

Submit ==
  LET h == Trim(IF Last(Kept) = <<>> THEN Kept ELSE Append(Kept, <<>>))
  IN  inputs' = h /\ current' = Len(h) /\ Edit(ResetInput)

InputUp ==
  LET c == Max({1, current - 1})
  IN  current' = c /\ inputs' = Kept /\ Edit(SetInput(Kept[c]))

InputDown ==
  /\ inputs' = Kept
  /\ IF current < Len(inputs)
     THEN current' = current + 1 /\ Edit(SetInput(Kept[current + 1]))
     ELSE UNCHANGED <<current, input, cursor>>

EditOnly(to) == Edit(to) /\ inputs' = Kept /\ UNCHANGED current

\* One turn of the reader.
ReadByte ==
  /\ tty # <<>>
  /\ tty' = Tail(tty)
  /\ escape' = Escape(Head(tty))
  /\ LET do == Outcome(Head(tty)) IN
     /\ insert' = (insert \/ do = "i")
     /\ CASE do = "print"     -> EditOnly(Input(Head(tty)))
          [] do = "backspace" -> EditOnly(BackspaceInput)
          [] do = "clear"     -> EditOnly(ResetInput)
          [] do = "D"         -> EditOnly(Left)
          [] do = "C"         -> EditOnly(Right)
          [] do = "A"         -> InputUp
          [] do = "B"         -> InputDown
          [] do = "enter"     -> Submit
          [] OTHER            -> EditOnly(<<input, cursor>>)
  /\ UNCHANGED ideal

-----------------------------------------------------------------------------
(* The keyboard, and what each key should come to *)

\* A bracket right after an arrow is lost: the automaton still remembers the
\* arrow. An escape is lost when another key comes within 100 ms.
LostKey(k) == k = "[" /\ last \in Arrows

At(c) == Max({0, Min({c, Len(line.text)})})

\* A wide character that is typed before the end of the line leaves the
\* cursor one too far, for it moves with every byte.
Typed(k) ==
  LET t == InsertAt(line.text, line.at + 1, k)
  IN  [text |-> t, at |-> Min({Len(t), line.at + Len(Bytes(k))})]

\* The line that the history has above or below, in characters: it may have
\* half of one, kept while the other half was on its way.
Decode(b) ==
  [c \in 1..RuneCount(b) |->
     LET at == ByteOf(b, c - 1) IN IF at < Len(b) /\ b[at + 1] = "w2" THEN Wide ELSE b[at]]

Whole(b) == LET t == Decode(b) IN [text |-> t, at |-> Len(t)]

Expected(k) ==
  IF normal \/ LostKey(k) \/ k = "esc" \/ (k = "[" /\ Remote /\ line.text = <<>>) THEN line
  ELSE CASE Printing(k)       -> Typed(k)
         [] k = "left"        -> [line EXCEPT !.at = At(line.at - 1)]
         [] k = "right"       -> [line EXCEPT !.at = At(line.at + 1)]
         [] k = "backspace"   -> IF line.at = 0 THEN line
                                 ELSE [text |-> RemoveAt(line.text, line.at), at |-> line.at - 1]
         [] k \in {"enter", "clear"} -> [text |-> <<>>, at |-> 0]
         [] k = "up"          -> Whole(Kept[Max({1, current - 1})])
         [] k = "down"        -> IF current < Len(inputs) THEN Whole(Kept[current + 1]) ELSE line

\* What the reader will do with the keys before this one is known: it has
\* read them. A bracket within 100 ms of an escape is the start of a sequence
\* to it, and is left out.
Press(k) ==
  /\ pressed < MaxPressed /\ tty = <<>> /\ ~(k = "[" /\ last = "esc")
  /\ pressed' = pressed + 1
  /\ tty' = Bytes(k)
  /\ last' = IF k \in Arrows \cup {"esc"} THEN k ELSE IF LostKey(k) THEN last ELSE "none"
  /\ line' = Expected(k)
  /\ normal' = (normal /\ k # "i")
  /\ draft' = IF normal \/ LostKey(k) \/ k \in {"esc", "down", "left", "right"} THEN draft
              ELSE IF k # "up" THEN <<>>
              ELSE IF current = Len(inputs) THEN <<input>> ELSE draft
  /\ UNCHANGED <<escape, insert, input, cursor, inputs, current>>

\* 100 ms after a lone escape. The bytes of one key come faster than that.
Timeout ==
  /\ escape = 1 /\ tty = <<>>
  /\ escape' = 0
  /\ insert' = (insert /\ ~Mapped("esc", insert, FALSE))
  /\ last' = "none"
  /\ normal' = TRUE
  /\ UNCHANGED <<tty, input, cursor, inputs, current, pressed, line, draft>>

ConsoleInit ==
  /\ tty = <<>> /\ escape = 0 /\ insert = TRUE /\ input = <<>> /\ cursor = 0
  /\ inputs = << <<>> >> /\ current = 1
  /\ pressed = 0 /\ last = "none" /\ line = [text |-> <<>>, at |-> 0] /\ normal = FALSE /\ draft = <<>>

ConsoleNext == (\E k \in Keys : Press(k)) \/ ReadByte \/ Timeout

ConsoleSpec == ConsoleInit /\ [][ConsoleNext]_consolevars

-----------------------------------------------------------------------------
\* Once its bytes are read, every key has done to the line what it stands
\* for: no byte of an arrow is typed, nothing but a
\* bracket after an arrow is lost, and normal mode takes no text (keys.go,
\* Do; term.go, Input).
LineAsTyped ==
  tty = <<>> => /\ input = Encode(line.text) /\ cursor = line.at
                /\ insert = ~normal

\* A line that was submitted is in the history: the newest one, or where it
\* was taken from, unless that was the oldest place of a full history
\* (client.go, Submit).
SubmittedStays ==
  (tty # <<>> /\ Outcome(Head(tty)) = "enter" /\ input # <<>>) =>
    \/ input \in Range(inputs')
    \/ current = 1 /\ Len(inputs) = MaxInputs /\ Last(inputs) # <<>>

\* Who walks up from an unsent line and back down, changing nothing, has it
\* back (client.go, the reader).
UnsentComesBack ==
  (current < Len(inputs) /\ current' = Len(inputs) /\ draft # <<>>
     /\ tty # <<>> /\ Outcome(Head(tty)) = "B") =>
    input' = draft[1]

\* What the history keeps, in every step: the submitted lines and the unsent
\* one (client.go, the reader).
HistoryKeeps == [][SubmittedStays /\ UnsentComesBack]_consolevars
=============================================================================
