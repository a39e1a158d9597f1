------------------------------ MODULE TermView ------------------------------
(***************************************************************************)
(* The scrolling log of the terminal (ui/term.go): messages are appended   *)
(* and cleared, and Flush lays them out as lines, which it caches, and     *)
(* writes the window that the scroll position, a search or the active      *)
(* message asks for. Every operation holds the lock for itself and then    *)
(* flushes: Flush is an action of its own, which may come any time (one    *)
(* runs every second). How a message is broken is in module Wrap; here it  *)
(* takes one line or, in the narrow size, perhaps two.                     *)
(***************************************************************************)
EXTENDS Integers, Sequences, SequencesExt, FiniteSetsExt

CONSTANTS
  Sizes,        \* records [w, h]: the widths and heights of the log
  maxMessages,  \* how many messages are kept of a chat
  Queries,      \* what is searched for
  Long(_),      \* which messages take two lines where w is 1
  Hit(_, _),    \* which message has which query in its text
  Active(_)     \* which messages are highlighted as active

\* The height of a log is never negative (Flush, nmsgs).
ASSUME ViewAssumption == maxMessages \in Nat \ {0} /\ \A s \in Sizes : s.h \in Nat

VARIABLES
  remote,    \* the client is a music remote: it keeps all, and shows a new
             \* list from its beginning
  size,      \* of the terminal
  log,       \* the messages
  cache,     \* the lines laid out last, the size they are said to be for
  scroll,    \* how many lines up from the end
  turned,    \* pages and lines that keys have scrolled since the last flush
  jump,      \* look for the active message
  query,     \* the search: what, the how manieth, and whether it is to be done
  window     \* the lines written last

viewvars == <<remote, size, log, cache, scroll, turned, jump, query, window>>

NoQuery == "no query"
NoLines == <<>>
TheTop  == 1000

ViewInit ==
  /\ remote \in BOOLEAN
  /\ size \in Sizes
  /\ log = <<>>
  /\ cache = [lines |-> NoLines, size |-> size, invalid |-> TRUE]
  /\ scroll = 0 /\ turned = [pages |-> 0, lines |-> 0]
  /\ jump = FALSE
  /\ query = [text |-> NoQuery, count |-> 0, update |-> FALSE]
  /\ window = <<>>

-----------------------------------------------------------------------------
(* Layout: logs *)

Rows(m, w) == IF w = 1 /\ Long(m) THEN 2 ELSE 1
Line(m, i, w) == [msg |-> m, row |-> i, w |-> w]
Blank(w) == Line(0, 1, w)

LinesOf(m, w) == [i \in 1..Rows(m, w) |-> Line(m, i, w)]

\* All lines; below the messages as many blank ones as they are fewer than h.
Layout(l, s) ==
  FlattenSeq([i \in DOMAIN l |-> LinesOf(l[i], s.w)])
    \o [i \in 1..Max({0, s.h - Len(l)}) |-> Blank(s.w)]

\* Which line of the layout the i-th message begins at.
FirstLine(l, s, i) == Len(FlattenSeq([j \in 1..(i - 1) |-> LinesOf(l[j], s.w)])) + 1

\* The messages that the layout is to show: the first active one, if it is
\* asked for, and the count-th that has the query. 0 if there is none.
ActiveAt == IF jump /\ \E i \in DOMAIN log : Active(log[i])
            THEN Min({i \in DOMAIN log : Active(log[i])}) ELSE 0

Matches == IF query.update /\ query.text # NoQuery
           THEN {i \in DOMAIN log : Hit(log[i], query.text)} ELSE {}

MatchAt == IF \E i \in Matches : Cardinality({j \in Matches : j <= i}) = query.count
           THEN CHOOSE i \in Matches : Cardinality({j \in Matches : j <= i}) = query.count
           ELSE 0

\* Whichever comes later in the log.
Target == Max({ActiveAt, MatchAt})

-----------------------------------------------------------------------------
(* Operations *)

Clear ==
  /\ log' = <<>>
  /\ cache' = [cache EXCEPT !.invalid = TRUE]
  /\ UNCHANGED <<remote, size, scroll, turned, jump, query, window>>

JumpToActive == jump' = TRUE /\ UNCHANGED <<remote, size, log, cache, scroll, turned, query, window>>

Search(q) ==
  /\ query' = [text |-> q, update |-> TRUE,
               count |-> IF query.text = q THEN query.count + 1 ELSE 1]
  /\ UNCHANGED <<remote, size, log, cache, scroll, turned, jump, window>>

Scroll(pages, lines) ==
  /\ turned' = [pages |-> turned.pages + pages, lines |-> turned.lines + lines]
  /\ UNCHANGED <<remote, size, log, cache, scroll, jump, query, window>>

\* Mutant: the first messages are kept.
NewestDropped(l) == IF remote THEN l ELSE SubSeq(l, 1, Min({Len(l), maxMessages}))

Trimmed(l) == IF remote THEN l ELSE SubSeq(l, Max({1, Len(l) - maxMessages + 1}), Len(l))

\* Appends messages; a new list may be shown from its beginning.
Broadcast(ms, top) ==
  /\ log' = Trimmed(log \o ms)
  /\ scroll' = IF remote /\ top THEN TheTop ELSE scroll
  /\ cache' = [cache EXCEPT !.invalid = TRUE]
  /\ UNCHANGED <<remote, size, turned, jump, query, window>>

Resize(s) == size' = s /\ UNCHANGED <<remote, log, cache, scroll, turned, jump, query, window>>

\* The lines are laid out again when a message is looked for, which leaves
\* alone what the cache knows of its size, or when the cache is out of date.
Looking  == cache.lines = NoLines \/ jump \/ query.update
OutDated == cache.invalid \/ cache.size # size

\* Mutant: what is looked for comes right above the window.
UpToAbove(len, first) == Max({0, len - first + 1})

\* How far up from the end, so that the line first is in the window.
UpTo(len, first) == Max({0, len - first - size.h \div 2 + 1})

\* Half of n, towards zero.
Half(n) == IF n < 0 THEN -((-n) \div 2) ELSE n \div 2

Flush ==
  LET lines == IF Looking \/ OutDated THEN Layout(log, size) ELSE cache.lines
      moved == Max({0, scroll + Half(turned.pages * size.h) + turned.lines})
      up    == IF Target = 0 THEN moved ELSE UpTo(Len(lines), FirstLine(log, size, Target))
      off   == Max({0, Len(lines) - size.h - up})
  IN  /\ cache' = [lines   |-> lines,
                   size    |-> IF Looking THEN cache.size ELSE size,
                   invalid |-> Looking /\ cache.invalid]
      /\ jump' = (jump /\ ActiveAt = 0)
      /\ query' = [query EXCEPT !.update = FALSE,
                                !.count = IF Matches # {} /\ Target = 0 THEN 0 ELSE @]
      /\ scroll' = IF Len(lines) - size.h - up < 0 THEN Len(lines) - size.h ELSE up
      /\ turned' = [pages |-> 0, lines |-> 0]
      /\ window' = SubSeq(lines, off + 1, Min({off + size.h, Len(lines)}))
      /\ UNCHANGED <<remote, size, log>>

-----------------------------------------------------------------------------
\* The message that is looked for has its first line in the window written.
ShowsTarget ==
  Target # 0 /\ size.h >= 2 =>
    \E i \in DOMAIN window' : window'[i].msg = log[Target] /\ window'[i].row = 1

\* The window written is onto the log as it is, laid out for the terminal as
\* it is.
OntoLog ==
  \E off \in 0..Len(Layout(log, size)) :
    window' = SubSeq(Layout(log, size), off + 1, Min({off + size.h, Len(Layout(log, size))}))

\* The cache is said to be for the size there is, and was laid out for another.
OtherLines == ~OutDated /\ \E s \in Sizes \ {size} : cache.lines = Layout(log, s)

\* A flush that looks for a message shows it, if the window has two lines at
\* least. And the window is onto the log; unless the terminal got another
\* size, was searched, and got its size back: then the lines are still those
\* for the other size (term.go, Flush and cache.Update).
FlushShows == Flush => ShowsTarget /\ (OntoLog \/ OtherLines)

ShowsWhatIsAsked == [][FlushShows]_viewvars
=============================================================================
