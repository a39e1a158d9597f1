----------------------------- MODULE Completion -----------------------------
(***************************************************************************)
(* Completing the last word of the input from a list of names or of        *)
(* playlists (cmd/client/completion.go). A text is a sequence of letters.  *)
(***************************************************************************)
EXTENDS Integers, Sequences, SequencesExt, FiniteSetsExt

Blank == " "

\* What follows the last blank of a text, and what is before it.
LastBlank(input) == Max({0} \cup {i \in DOMAIN input : input[i] = Blank})
LastWord(input) == SubSeq(input, LastBlank(input) + 1, Len(input))
Before(input)   == SubSeq(input, 1, LastBlank(input))

\* The names of the list that the word, without its prefix, begins. A name
\* that the list has twice is found twice.
Found(input, prefix, list, excludes) ==
  LET word == LastWord(input) IN
  IF input = <<>> \/ ~IsPrefix(prefix, word) THEN {}
  ELSE {i \in DOMAIN list :
          /\ list[i] \notin excludes
          /\ IsPrefix(SubSeq(word, Len(prefix) + 1, Len(word)), list[i])}

\* Mutant: the first of the names found is taken for what they share.
MatchFirst(list, found) == list[Min(found)]

\* The longest beginning that all of them share.
Match(list, found) == LongestCommonPrefix({list[i] : i \in found})

\* The new input: nothing if there is nothing to add; a blank is added after
\* the only name there is.
complete(input, prefix, list, excludes) ==
  LET found == Found(input, prefix, list, excludes) IN
  IF found = {} \/ Match(list, found) = <<>> THEN <<>>
  ELSE Before(input) \o prefix \o Match(list, found)
         \o (IF Cardinality(found) = 1 THEN <<Blank>> ELSE <<>>)
=============================================================================
