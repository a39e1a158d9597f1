------------------------------- MODULE Trivia -------------------------------
(***************************************************************************)
(* The trivia bot (bot/trivia.go): one call of Message after another, as   *)
(* its lock has them. A question is [id, value, right, choices] with its   *)
(* answers already shuffled; the questions' service is opentdb.com.        *)
(***************************************************************************)
EXTENDS Integers, Sequences, Functions

CONSTANTS
  Users,
  Few        \* below this many questions more are fetched, 5 in the code

NoQuestion == [id |-> 0]

NewTriviaBot ==
  [questions |-> <<>>, scores |-> [u \in Users |-> 0], answered |-> [u \in Users |-> 0],
   current |-> [u \in Users |-> NoQuestion], end |-> "no"]

\* What the service comes to: [reply, list]; "down", "bad" for an answer that
\* cannot be decoded to its end, and "ok". When it is down simpleAPI returns
\* no result at all, and its type assertion ends the process.
Fetch(t, served) ==
  IF Len(t.questions) >= Few THEN t
  ELSE IF served.reply = "down" THEN [t EXCEPT !.end = "panic"]
  ELSE [t EXCEPT !.questions = @ \o served.list,
                 !.end = IF served.reply = "bad" THEN "error" ELSE "no"]

\* Without a question there is none to give out.
Question(t, u) ==
  IF t.questions = <<>> THEN [t EXCEPT !.end = "panic"]
  ELSE [t EXCEPT !.current[u] = Head(t.questions), !.questions = Tail(@)]

\* delete(t.current, user) forgotten.
AnswerKeeping(t, u, n) ==
  LET q == t.current[u] IN
  IF n \notin 1..q.choices THEN t
  ELSE [t EXCEPT !.answered[u] = @ + 1,
                 !.scores[u] = @ + (IF n = q.right THEN q.value ELSE 0)]

Answer(t, u, n) ==
  LET q == t.current[u] IN
  IF n \notin 1..q.choices THEN t
  ELSE [t EXCEPT !.answered[u] = @ + 1, !.current[u] = NoQuestion,
                 !.scores[u] = @ + (IF n = q.right THEN q.value ELSE 0)]

Reset(t) == [NewTriviaBot EXCEPT !.questions = t.questions]

\* strconv.Atoi; a command without arguments, or with others than one number,
\* is no choice.
Choice(cmd) == CASE cmd = "1" -> 1 [] cmd = "2" -> 2 [] OTHER -> 0

Message(t, u, cmd, served) ==
  LET f == Fetch([t EXCEPT !.end = "no"], served) IN
  IF f.end # "no" \/ cmd = "score" THEN f
  ELSE IF cmd = "reset" THEN Reset(f)
  ELSE IF f.current[u] = NoQuestion THEN Question(f, u)
  ELSE Answer(f, u, Choice(cmd))
=============================================================================
