---------------------------- MODULE ChatRouting -----------------------------
(***************************************************************************)
(* Who gets a chat message, and how: batch, FromHistory, isToBot and       *)
(* isShout of server/channel/chat/chat.go and the name filter of           *)
(* server/channel/channel.go. The text of a message is reduced to what     *)
(* decides about it: its first characters, the name after a leading @, and *)
(* the names it mentions further on.                                       *)
(***************************************************************************)
EXTENDS Integers, Sequences, FiniteSets

CONSTANTS
  Names,   \* what users and bots may be called
  None

ASSUME RoutingAssumption == None \notin Names

(***************************************************************************)
(* lead: "//" a silent command for a bot, "/" a command, "!" a shout.      *)
(* at: the word after a leading @ (behind the "!" of a shout).             *)
(* mentions: one set of names per " @word": the word, and the word up to   *)
(* the first of / ! . ? ( ) [ ].                                           *)
(***************************************************************************)
Message ==
  { m \in [lead : {"", "!", "/", "//"}, at : Names \cup {None},
           mentions : SUBSET {w \in SUBSET Names : Cardinality(w) \in {1, 2}}] :
      m.lead \in {"/", "//"} => m.at = None }

IsToBot(m)  == m.lead \in {"/", "//"}
IsSilent(m) == m.lead = "//"
IsShout(m)  == m.lead = "!"

MentionNames(m) == UNION m.mentions

(***************************************************************************)
(* A batch is a sequence of entries: a filter on names (an empty to means  *)
(* everyone), flags for the recipient's notifications, and how the message *)
(* is shown: as a private one (pm) or as a shout.                          *)
(***************************************************************************)
Filter(to, notTo, flags) == [to |-> to, notTo |-> notTo, flags |-> flags]

\* Mutant: the others are not told apart from those mentioned.
FiltersTwice(from, m) ==
  IF IsSilent(m) THEN << Filter({from}, {}, {}) >>
  ELSE IF m.at # None THEN << Filter({m.at}, {}, {"personal"}), Filter({from}, {}, {"never"}) >>
  ELSE IF MentionNames(m) # {} THEN << Filter(MentionNames(m), {}, {"personal"}), Filter({}, {}, {"never"}) >>
  ELSE << Filter({}, {}, IF IsShout(m) THEN {"personal"} ELSE {}) >>

\* A silent command goes to its author only; a private message to its target
\* and to its author; one with mentions to those mentioned, then to the rest.
Filters(from, m) ==
  LET named == MentionNames(m) IN
  IF IsSilent(m) THEN << Filter({from}, {}, {}) >>
  ELSE IF m.at # None THEN << Filter({m.at}, {}, {"personal"}), Filter({from}, {}, {"never"}) >>
  ELSE IF named # {} THEN << Filter(named, {}, {"personal"}), Filter({}, named, {"never"}) >>
  ELSE << Filter({}, {}, IF IsShout(m) THEN {"personal"} ELSE {}) >>

\* Mutant: what a bot says raises notifications.
BatchLoud(notify, from, bot, m) ==
  LET fs == Filters(from, m) IN
  [ i \in DOMAIN fs |->
      [to |-> fs[i].to, notTo |-> fs[i].notTo, notify |-> notify \cup fs[i].flags,
       pm |-> m.at, shout |-> IsShout(m)] ]

\* Nothing that a bot says, or a replay shows, raises a notification.
Batch(notify, from, bot, m) ==
  LET fs   == Filters(from, m)
      base == notify \cup (IF bot THEN {"never"} ELSE {})
  IN  [ i \in DOMAIN fs |->
          [to |-> fs[i].to, notTo |-> fs[i].notTo, notify |-> base \cup fs[i].flags,
           pm |-> m.at, shout |-> IsShout(m)] ]

\* ClientFilter.CheckName
CheckName(e, n) == n \notin e.notTo /\ (e.to = {} \/ n \in e.to)

\* The entries for clients called n, in their order; a batch has at most two.
EntriesFor(n, es) ==
  LET Pick(i) == IF i \in DOMAIN es /\ CheckName(es[i], n) THEN <<es[i]>> ELSE <<>>
  IN  Pick(1) \o Pick(2)

\* The entries of a logged message that a replay to a client called n sends.
FromHistory(n, from, bot, m) == EntriesFor(n, Batch({"never"}, from, bot, m))

-----------------------------------------------------------------------------
(* cmd/client: which messages raise a notification *)

\* mine is the name of the client's own configuration, which the server may
\* have replaced by another (a fixed name, or one without forbidden letters);
\* when is its NotifyWhen: "default", or "always" for all messages.
Notifies(e, from, mine, when) ==
  mine # from /\ "never" \notin e.notify /\ (when = "default" => "personal" \in e.notify)

-----------------------------------------------------------------------------
(* What is right about a message of from's: who gets it, and how *)

\* What clients called n are sent when the message is handled, and its looks.
Live(n, from, bot, m) == EntriesFor(n, Batch({}, from, bot, m))
Looks(es) == [i \in DOMAIN es |-> <<es[i].pm, es[i].shout>>]

\* Who may see the message.
Audience(from, m) ==
  CASE IsSilent(m)    -> {from}
    [] m.at # None    -> {from, m.at}
    [] OTHER          -> Names

\* Everyone in the audience gets the message once, nobody else gets it: the
\* entries of a batch neither overlap nor leave anyone out. Only who writes
\* to himself gets two (chat.go, batch).
OneCopyEach(from, bot, m) ==
  \A n \in Names :
    Len(Live(n, from, bot, m)) = IF n \notin Audience(from, m) THEN 0
                                 ELSE IF m.at = from THEN 2 ELSE 1

\* A replay shows a client what it was shown live: the same entries, in the
\* same order (chat.go, FromHistory).
ReplayAsLive(from, bot, m) ==
  \A n \in Names : Looks(FromHistory(n, from, bot, m)) = Looks(Live(n, from, bot, m))

\* The message is for n in particular.
Addressed(n, m) == ~IsSilent(m) /\ IF m.at # None THEN n = m.at ELSE n \in MentionNames(m)

\* The message is news for n: it is addressed to n, or n may see it, it is
\* addressed to nobody, and it is shouted or n wants to hear of everything.
News(n, from, m, when) ==
  \/ Addressed(n, m)
  \/ /\ n \in Audience(from, m) /\ \A k \in Names : ~Addressed(k, m)
     /\ IsShout(m) \/ when = "always"

\* A client that the server knows as n is notified of a user's news, if it
\* does not go by the author's name itself, and of nothing else in the mode
\* "default"; one message notifies it at most once, and what bots say and what
\* is replayed never does (client.go, main; chat.go, batch). Nothing is said of
\* "always" and what is addressed to others, which batch silences against the
\* help, nor of own messages under a name that the server has replaced.
NotifiedOfNews(from, bot, m) ==
  \A n, mine \in Names, when \in {"default", "always"} :
    LET live == Live(n, from, bot, m)
        old  == FromHistory(n, from, bot, m)
        loud == {i \in DOMAIN live : Notifies(live[i], from, mine, when)}
    IN  /\ Cardinality(loud) <= 1
        /\ bot \/ (n = from /\ mine = n) => loud = {}
        /\ ~bot /\ mine # from /\ News(n, from, m, when) => loud # {}
        /\ when = "default" /\ loud # {} => News(n, from, m, when)
        /\ \A i \in DOMAIN old : ~Notifies(old[i], from, mine, when)
=============================================================================
