--------------------------- MODULE LifecycleProofs ---------------------------
(***************************************************************************)
(* ServedKeyLasts and SettingsKept of module Lifecycle, for any number of  *)
(* processes, starts and failures, and whatever the first start finds.     *)
(***************************************************************************)
EXTENDS Lifecycle, FiniteSetTheorems, TLAPS

Places == {"off", "decode", "merge", "create", "write", "rename", "key", "newkey",
           "parsed", "hue", "init", "run"}
Keys   == {NoKey} \cup (Procs \X Nat)

\* Where a server has the key that it will show, or shows.
HasKey == {"parsed", "init", "run"}

\* Of the program counters only what a key depends on.
KeyTypes ==
  /\ pc \in [Procs -> Places]
  /\ then \in [Procs -> {"merge", "key", "hue", "off"}]
  /\ key \in [Procs -> Keys] /\ keyfile \in Keys
  /\ starts \in Nat /\ raced \in BOOLEAN

\* What is stored is a key.
MadeInv == \A p \in Procs : pc[p] = "newkey" => key[p] # NoKey

\* One process at most makes a key, and only while none is stored.
MakerInv ==
  \A p \in Procs : pc[p] = "newkey" =>
    /\ keyfile = NoKey
    /\ \A q \in Procs : pc[q] = "newkey" => q = p

\* Who is past making it has the stored one, and no other was ever shown.
HolderInv == \A p \in Procs : pc[p] \in HasKey => key[p] = keyfile /\ keyfile # NoKey
ServedInv == served \subseteq {keyfile} /\ (served # {} => keyfile # NoKey)

KeyInv == KeyTypes /\ MadeInv /\ (~raced => MakerInv /\ HolderInv /\ ServedInv)

-----------------------------------------------------------------------------
\* A process that goes to a place where no key is made or held breaks nothing.
LEMMA Elsewhere ==
  ASSUME KeyInv, NEW p, NEW l \in Places \ (HasKey \cup {"newkey"}),
         pc' = [pc EXCEPT ![p] = l],
         then' \in [Procs -> {"merge", "key", "hue", "off"}],
         key' \in [Procs -> Keys], \A q \in Procs : q # p => key'[q] = key[q],
         UNCHANGED <<keyfile, raced, served>>, starts' \in Nat
  PROVE  KeyInv'
<1> USE DEF KeyInv
<1>1. \A q \in Procs : pc'[q] = IF q = p THEN l ELSE pc[q]
  BY DEF KeyTypes
<1>2. KeyTypes'
  BY DEF KeyTypes
<1>3. MadeInv'
  BY <1>1 DEF MadeInv
<1>4. ~raced' => MakerInv'
  BY <1>1 DEF MakerInv
<1>5. ~raced' => HolderInv'
  BY <1>1 DEF HolderInv, HasKey
<1>6. ~raced' => ServedInv'
  BY DEF ServedInv
<1> QED BY <1>2, <1>3, <1>4, <1>5, <1>6

\* Nor does a step that leaves the processes where they are.
LEMMA Still ==
  ASSUME KeyInv, UNCHANGED <<pc, then, key, keyfile, starts, raced, served>>
  PROVE  KeyInv'
BY DEF KeyInv, KeyTypes, MadeInv, MakerInv, HolderInv, ServedInv

\* The end of a process takes its key out of play.
LEMMA Ends ==
  ASSUME KeyInv, NEW p, Exits(p), UNCHANGED <<keyfile, raced, served, starts>>
  PROVE  KeyInv'
<1>1. /\ pc' = [pc EXCEPT ![p] = "off"]
      /\ key' = [key EXCEPT ![p] = NoKey]
      /\ then' = [then EXCEPT ![p] = "key"]
  BY DEF Exits, Goto
<1>2. then' \in [Procs -> {"merge", "key", "hue", "off"}]
  BY <1>1 DEF KeyInv, KeyTypes
<1>3. key' \in [Procs -> Keys] /\ \A q \in Procs : q # p => key'[q] = key[q]
  BY <1>1 DEF KeyInv, KeyTypes, Keys
<1>4. starts' \in Nat
  BY DEF KeyInv, KeyTypes
<1>5. "off" \in Places \ (HasKey \cup {"newkey"})
  BY DEF Places, HasKey
<1> QED BY <1>1, <1>2, <1>3, <1>4, <1>5, Elsewhere

\* Encode goes to the opening of the file, and then back to where it came from.
LEMMA Encodes ==
  ASSUME KeyInv, NEW p, NEW c, NEW l \in {"merge", "key", "hue", "off"}, Encode(p, c, l),
         UNCHANGED <<key, keyfile, raced, served, starts>>
  PROVE  KeyInv'
<1>1. pc' = [pc EXCEPT ![p] = "create"] /\ then' = [then EXCEPT ![p] = l]
  BY DEF Encode, Goto
<1>2. then' \in [Procs -> {"merge", "key", "hue", "off"}]
  BY <1>1 DEF KeyInv, KeyTypes
<1>3. key' \in [Procs -> Keys] /\ starts' \in Nat
  BY DEF KeyInv, KeyTypes
<1>4. "create" \in Places \ (HasKey \cup {"newkey"})
  BY DEF Places, HasKey
<1> QED BY <1>1, <1>2, <1>3, <1>4, Elsewhere

\* A process that goes on elsewhere with what it has.
LEMMA Moves ==
  ASSUME KeyInv, NEW p, NEW l \in Places \ (HasKey \cup {"newkey"}), Goto(p, l),
         UNCHANGED <<then, key, keyfile, raced, served>>, starts' \in Nat
  PROVE  KeyInv'
<1>1. /\ pc' = [pc EXCEPT ![p] = l]
      /\ then' \in [Procs -> {"merge", "key", "hue", "off"}]
      /\ key' \in [Procs -> Keys]
  BY DEF Goto, KeyInv, KeyTypes
<1> QED BY <1>1, Elsewhere

-----------------------------------------------------------------------------
(* The steps that make, store and show a key.                              *)

LEMMA FindKeyStep ==
  ASSUME KeyInv, NEW p \in Procs, FindKey(p)
  PROVE  KeyInv'
<1> USE DEF KeyInv
<1>1. /\ pc[p] = "key"
      /\ key' = [key EXCEPT ![p] = IF keyfile # NoKey THEN keyfile ELSE NewKey(p)]
      /\ pc' = [pc EXCEPT ![p] = IF keyfile # NoKey THEN "parsed" ELSE "newkey"]
      /\ raced' = (raced \/ (keyfile = NoKey /\ \E q \in Procs : pc[q] = "newkey"))
      /\ UNCHANGED <<then, keyfile, starts, served>>
  BY DEF FindKey, Goto, bounds
<1>2. NewKey(p) \in Keys /\ NewKey(p) # NoKey
  BY DEF NewKey, Keys, NoKey, KeyTypes
<1>3. /\ \A q \in Procs : q # p => pc'[q] = pc[q] /\ key'[q] = key[q]
      /\ pc'[p] = IF keyfile # NoKey THEN "parsed" ELSE "newkey"
      /\ key'[p] = IF keyfile # NoKey THEN keyfile ELSE NewKey(p)
  BY <1>1 DEF KeyTypes
<1>4. KeyTypes'
  BY <1>1, <1>2 DEF KeyTypes, Places
<1>5. MadeInv'
  BY <1>2, <1>3 DEF MadeInv
<1>6. ~raced' => ~raced /\ (keyfile = NoKey => \A q \in Procs : pc[q] # "newkey")
  BY <1>1, Zenon
<1>7. ~raced' => MakerInv'
  BY <1>1, <1>3, <1>6 DEF MakerInv
<1>8. ~raced' => HolderInv'
  BY <1>1, <1>3, <1>6 DEF HolderInv, HasKey
<1>9. ~raced' => ServedInv'
  BY <1>1, <1>6 DEF ServedInv
<1> QED BY <1>4, <1>5, <1>7, <1>8, <1>9

LEMMA StoreKeyStep ==
  ASSUME KeyInv, NEW p \in Procs, StoreKey(p)
  PROVE  KeyInv'
<1> USE DEF KeyInv
<1>1. /\ pc[p] = "newkey" /\ keyfile' = key[p]
      /\ pc' = [pc EXCEPT ![p] = "parsed"]
      /\ UNCHANGED <<then, key, starts, raced, served>>
  BY DEF StoreKey, Goto, bounds, history
<1>2. (\A q \in Procs : q # p => pc'[q] = pc[q]) /\ pc'[p] = "parsed"
  BY <1>1 DEF KeyTypes
<1>3. KeyTypes'
  BY <1>1 DEF KeyTypes, Places
<1>4. MadeInv'
  BY <1>1, <1>2 DEF MadeInv
<1>5. key[p] # NoKey
  BY <1>1 DEF MadeInv
<1>6. ~raced => keyfile = NoKey /\ \A q \in Procs : pc[q] = "newkey" => q = p
  BY <1>1 DEF MakerInv
<1>7. ~raced' => MakerInv'
  BY <1>1, <1>2, <1>6 DEF MakerInv
<1>8. ~raced' => HolderInv'
  BY <1>1, <1>2, <1>5, <1>6 DEF HolderInv, HasKey
<1>9. ~raced' => ServedInv'
  BY <1>1, <1>5, <1>6 DEF ServedInv
<1> QED BY <1>3, <1>4, <1>7, <1>8, <1>9

LEMMA LoadStep ==
  ASSUME KeyInv, NEW p \in Procs, Load(p)
  PROVE  KeyInv'
<1> USE DEF KeyInv
<1>1. /\ pc[p] = "init" /\ pc' = [pc EXCEPT ![p] = "run"]
      /\ served' = served \cup {key[p]}
      /\ UNCHANGED <<then, key, keyfile, starts, raced>>
  BY DEF Load, Goto, parseVars, bounds
<1>2. (\A q \in Procs : q # p => pc'[q] = pc[q]) /\ pc'[p] = "run"
  BY <1>1 DEF KeyTypes
<1>3. KeyTypes'
  BY <1>1 DEF KeyTypes, Places
<1>4. MadeInv'
  BY <1>1, <1>2 DEF MadeInv
<1>5. ~raced' => MakerInv'
  BY <1>1, <1>2 DEF MakerInv
<1>6. ~raced => key[p] = keyfile /\ keyfile # NoKey
  BY <1>1 DEF HolderInv, HasKey
<1>7. ~raced' => HolderInv'
  BY <1>1, <1>2, <1>6 DEF HolderInv, HasKey
<1>8. ~raced' => ServedInv'
  BY <1>1, <1>6 DEF ServedInv
<1> QED BY <1>3, <1>4, <1>5, <1>7, <1>8

\* serve takes its key to init, hue waits for its user.
LEMMA DispatchStep ==
  ASSUME KeyInv, NEW p \in Procs, Dispatch(p)
  PROVE  KeyInv'
<1>1. pc[p] = "parsed" /\ UNCHANGED <<keyfile, starts, raced, served>>
  BY DEF Dispatch, bounds, history
<1>2. CASE End(p)
  BY <1>1, <1>2, Ends DEF End
<1>3. CASE Goto(p, "hue") /\ UNCHANGED <<key, then>>
  <2>1. "hue" \in Places \ (HasKey \cup {"newkey"})
    BY DEF Places, HasKey
  <2>2. starts' \in Nat
    BY <1>1 DEF KeyInv, KeyTypes
  <2> QED BY <1>1, <1>3, <2>1, <2>2, Moves
<1>4. CASE Goto(p, "init") /\ UNCHANGED <<key, then>>
  <2> USE DEF KeyInv
  <2>1. (\A q \in Procs : q # p => pc'[q] = pc[q]) /\ pc'[p] = "init"
    BY <1>4 DEF Goto, KeyTypes
  <2>2. KeyTypes'
    BY <1>1, <1>4 DEF Goto, KeyTypes, Places
  <2>3. MadeInv'
    BY <1>4, <2>1 DEF MadeInv
  <2>4. ~raced' => MakerInv' /\ ServedInv'
    BY <1>1, <2>1 DEF MakerInv, ServedInv
  <2>5. ~raced' => HolderInv'
    BY <1>1, <1>4, <2>1 DEF HolderInv, HasKey
  <2> QED BY <2>2, <2>3, <2>4, <2>5
<1> QED BY <1>2, <1>3, <1>4 DEF Dispatch

\* The rename goes back to where Encode was called, or ends the process.
LEMMA RenameStep ==
  ASSUME KeyInv, NEW p \in Procs, Rename(p)
  PROVE  KeyInv'
<1>1. UNCHANGED <<keyfile, starts, raced, served>>
  BY DEF Rename, bounds
<1>2. CASE Exits(p)
  BY <1>1, <1>2, Ends
<1>3. CASE Goto(p, then[p]) /\ UNCHANGED <<key, then>>
  <2>1. then[p] \in Places \ (HasKey \cup {"newkey"}) /\ starts' \in Nat
    BY <1>1 DEF KeyInv, KeyTypes, Places, HasKey
  <2> QED BY <1>1, <1>3, <2>1, Moves
<1> QED BY <1>2, <1>3 DEF Rename, End

LEMMA DecodeStep ==
  ASSUME KeyInv, NEW p \in Procs, Decode(p)
  PROVE  KeyInv'
<1>1. UNCHANGED <<keyfile, starts, raced, served>>
  BY DEF Decode, bounds, history
<1>2. CASE End(p)
  BY <1>1, <1>2, Ends DEF End
<1>3. CASE Encode(p, Zero, "merge") /\ key' = key
  BY <1>1, <1>3, Encodes
<1>4. CASE Encode(p, Merged(Decoded(conf)), "key") /\ key' = key
  BY <1>1, <1>4, Encodes
<1>5. CASE Goto(p, "key") /\ UNCHANGED <<key, then>>
  <2>1. "key" \in Places \ (HasKey \cup {"newkey"}) /\ starts' \in Nat
    BY <1>1 DEF KeyInv, KeyTypes, Places, HasKey
  <2> QED BY <1>1, <1>5, <2>1, Moves
<1> QED BY <1>2, <1>3, <1>4, <1>5 DEF Decode

-----------------------------------------------------------------------------
LEMMA KeyInit == Init => KeyInv
<1> SUFFICES ASSUME Init PROVE KeyInv
  OBVIOUS
<1>1. KeyTypes
  BY DEF Init, KeyTypes, Places, Keys
<1>2. \A p \in Procs : pc[p] = "off"
  BY DEF Init
<1>3. served = {}
  BY DEF Init
<1> QED BY <1>1, <1>2, <1>3 DEF KeyInv, MadeInv, MakerInv, HolderInv, ServedInv, HasKey

LEMMA KeyNext == KeyInv /\ [Next]_vars => KeyInv'
<1> SUFFICES ASSUME KeyInv, [Next]_vars PROVE KeyInv'
  OBVIOUS
<1> DEFINE quiet == UNCHANGED <<pc, then, key, keyfile, starts, raced, served>>
<1>1. ASSUME NEW p \in Procs, Start(p) PROVE KeyInv'
  <2>1. "decode" \in Places \ (HasKey \cup {"newkey"}) /\ starts' \in Nat
    BY <1>1 DEF Start, KeyInv, KeyTypes, Places, HasKey
  <2>2. Goto(p, "decode") /\ UNCHANGED <<then, key, keyfile, raced, served>>
    BY <1>1 DEF Start, parseVars
  <2> QED BY <2>1, <2>2, Moves
<1>2. ASSUME NEW p \in Procs, Merge(p) PROVE KeyInv'
  <2>1. Encode(p, Merged(mem[p]), "key") /\ UNCHANGED <<key, keyfile, raced, served, starts>>
    BY <1>2 DEF Merge, bounds, history
  <2> QED BY <2>1, Encodes
<1>3. ASSUME NEW p \in Procs, Create(p) PROVE KeyInv'
  <2>1. "write" \in Places \ (HasKey \cup {"newkey"}) /\ starts' \in Nat
    BY <1>3 DEF Create, bounds, KeyInv, KeyTypes, Places, HasKey
  <2>2. Goto(p, "write") /\ UNCHANGED <<then, key, keyfile, raced, served>>
    BY <1>3 DEF Create, history
  <2> QED BY <2>1, <2>2, Moves
<1>4. ASSUME NEW p \in Procs, Write(p) PROVE KeyInv'
  <2>1. "rename" \in Places \ (HasKey \cup {"newkey"}) /\ starts' \in Nat
    BY <1>4 DEF Write, bounds, KeyInv, KeyTypes, Places, HasKey
  <2>2. Goto(p, "rename") /\ UNCHANGED <<then, key, keyfile, raced, served>>
    BY <1>4 DEF Write, history
  <2> QED BY <2>1, <2>2, Moves
<1>5. ASSUME NEW p \in Procs, Hue(p) PROVE KeyInv'
  <2>1. UNCHANGED <<key, keyfile, raced, served, starts>>
    BY <1>5 DEF Hue, bounds, history
  <2>2. \/ Encode(p, [mem[p] EXCEPT !.opt = "ip"], "hue")
        \/ Encode(p, [mem[p] EXCEPT !.opt = "pass"], "off")
    BY <1>5 DEF Hue
  <2> QED BY <2>1, <2>2, Encodes
<1>6. ASSUME NEW p \in Procs, Die(p) PROVE KeyInv'
  <2>1. End(p) /\ UNCHANGED <<keyfile, raced, served, starts>>
    BY <1>6 DEF Die, history
  <2> QED BY <2>1, Ends DEF End
<1>7. ASSUME NEW x \in Listeners, Try(x) PROVE KeyInv'
  BY <1>7, Still DEF Try, parsing, parseVars, bounds, history
<1>8. CASE Break
  BY <1>8, Still DEF Break, parsing, parseVars, history
<1>9. CASE ChannelFails
  BY <1>9, Still DEF ChannelFails, parsing, parseVars, history
<1>10. CASE Hear
  <2>1. UNCHANGED <<keyfile, raced, served, starts>>
    BY <1>10 DEF Hear, bounds, history
  <2>2. End(lock) \/ UNCHANGED <<pc, key, then>>
    BY <1>10 DEF Hear
  <2> QED BY <2>1, <2>2, Ends, Still DEF End
<1>11. CASE Signal \/ SaveOnSignal \/ SendExit
  BY <1>11, Still DEF Signal, SaveOnSignal, SendExit, parsing, parseVars, bounds, history
<1>12. CASE Exit
  <2>1. End(lock) /\ UNCHANGED <<keyfile, raced, served, starts>>
    BY <1>12 DEF Exit, bounds, history
  <2> QED BY <2>1, Ends DEF End
<1>13. CASE UNCHANGED vars
  BY <1>13, Still DEF vars, parseVars, bounds, history
<1>14. ASSUME NEW p \in Procs, Parse(p) PROVE KeyInv'
  BY <1>14, <1>2, <1>3, <1>4, DecodeStep, RenameStep, FindKeyStep, StoreKeyStep DEF Parse
<1> QED
  BY <1>1, <1>5, <1>6, <1>7, <1>8, <1>9, <1>10, <1>11, <1>12, <1>13, <1>14,
     DispatchStep, LoadStep DEF Next

-----------------------------------------------------------------------------
\* Whoever starts, stores, serves or dies, and in whatever order: unless two
\* processes make a key at once, at most one makes it, the rest read it, and
\* no server shows another (EnsureKey of crypto/keys.go, serve).
THEOREM KeyAgreement == Spec => []KeyInv
<1>1. KeyInv /\ [Next]_vars => KeyInv'
  BY KeyNext
<1> QED BY KeyInit, <1>1, PTL DEF Spec

\* Clients that trust the first server's key can trust every later one's
\* (cmd/server/flags.go:293, crypto/keys.go:85).
THEOREM KeyLasts == Spec => []ServedKeyLasts
<1>1. KeyInv => ServedKeyLasts
  <2> SUFFICES ASSUME KeyInv, ~raced PROVE Cardinality(served) <= 1
    BY DEF ServedKeyLasts
  <2>1. served \subseteq {keyfile}
    BY DEF KeyInv, ServedInv
  <2>2. IsFiniteSet({keyfile}) /\ Cardinality({keyfile}) = 1
    BY FS_Singleton
  <2>3. Cardinality(served) <= Cardinality({keyfile})
    BY <2>1, <2>2, FS_Subset
  <2> QED BY <2>2, <2>3
<1> QED BY <1>1, KeyAgreement, PTL

-----------------------------------------------------------------------------
(* What the operator set.                                                  *)

Values   == {"any", "missing", "null", "empty", "mine", "def", "neg", "zero", "ip", "pass"}
Settings == [Fields -> Values]

ConfTypes ==
  /\ pc \in [Procs -> Places] /\ mode \in [Procs -> {"serve", "hue"}]
  /\ mem \in [Procs -> Settings] /\ at \in [Procs -> {"gone", "tmp", "conf"}]
  /\ then \in [Procs -> {"merge", "key", "hue", "off"}]
  /\ shared \in BOOLEAN

\* Only hue writes the configuration again.
HueInv ==
  \A p \in Procs :
    /\ pc[p] = "hue" => mode[p] = "hue"
    /\ pc[p] \in {"create", "write", "rename"} /\ then[p] \in {"hue", "off"} => mode[p] = "hue"

\* What is wanted is of the kind that a start leaves alone.
OwnInv ==
  wanted \in Settings /\ \A f \in Fields : wanted[f] = "any" \/ Own(f, wanted[f])

\* The configuration c may be written: it has what is wanted, and an option
\* that it gives is the one that is going to be wanted.
Ready(c) ==
  /\ \A f \in {"str", "ptr", "num"} : wanted[f] \in {"any", c[f]}
  /\ c["opt"] \in {"empty", "ip", "pass"}
  /\ c["opt"] = "empty" => wanted["opt"] = "any"

\* The processes that may still write the configuration, or are about to read it.
Engaged(p) == Busy(p) \/ pc[p] = "decode"

OneInv == \A p, q \in Procs : Engaged(p) /\ Engaged(q) => p = q

MemInv == \A p \in Procs : Busy(p) => Ready(mem[p])

\* Nobody moves the file that a process has open, and it is whole when it is
\* renamed.
TmpInv ==
  \A p \in Procs : /\ pc[p] \in {"write", "rename"} => at[p] = "tmp"
                   /\ pc[p] = "rename" => tmp = mem[p]

FileInv ==
  \/ conf \in Settings /\ \A f \in Fields : wanted[f] \in {"any", conf[f]}
  \/ conf = NoFile /\ \A f \in Fields : wanted[f] = "any"

ConfInv == ConfTypes /\ HueInv /\ (~shared => OwnInv /\ OneInv /\ MemInv /\ TmpInv /\ FileInv)

LEMMA Configurations ==
  /\ Config \subseteq Settings /\ Zero \in Settings
  /\ NoFile \notin Settings /\ Torn \notin Settings /\ Torn # NoFile
<1>1. ASSUME NEW c \in Config  PROVE c \in Settings
  BY DEF Config, Settings, Fields, Values, Str, Ptr, Num, Opt
<1>2. Zero \in Settings
  BY DEF Zero, Settings, Fields, Values
<1>3. NoFile \notin Settings /\ Torn \notin Settings
  <2>1. DOMAIN NoFile = {"file"} /\ DOMAIN Torn = {"file"}
    BY DEF NoFile, Torn
  <2>2. "str" \in Fields /\ "str" \notin {"file"}
    BY DEF Fields
  <2> QED BY <2>1, <2>2 DEF Settings
<1>4. NoFile.file # Torn.file
  BY DEF NoFile, Torn
<1> QED BY <1>1, <1>2, <1>3, <1>4

LEMMA Completions ==
  ASSUME NEW c \in Settings
  PROVE  /\ Decoded(c) \in Settings /\ \A f \in Fields : Decoded(c)[f] = IF c[f] = "missing" THEN Zero[f] ELSE c[f]
         /\ Merged(c) \in Settings
         /\ Merged(c)["str"] = IF c["str"] = "empty" THEN "def" ELSE c["str"]
         /\ Merged(c)["ptr"] = IF c["ptr"] = "null" THEN "def" ELSE c["ptr"]
         /\ Merged(c)["num"] = IF c["num"] \in {"neg", "zero"} THEN "def" ELSE c["num"]
         /\ Merged(c)["opt"] = c["opt"]
<1>1. Decoded(c) \in Settings /\ \A f \in Fields : Decoded(c)[f] = IF c[f] = "missing" THEN Zero[f] ELSE c[f]
  <2>1. \A f \in Fields : Zero[f] \in Values
    BY Configurations DEF Settings
  <2> QED BY <2>1 DEF Decoded, Settings
<1> QED BY <1>1 DEF Merged, Settings, Fields, Values

\* A start leaves alone what is wanted.
LEMMA Completed ==
  ASSUME OwnInv, NEW c \in Settings
  PROVE  /\ Ready(c) => Ready(Merged(c))
         /\ (\A f \in Fields : wanted[f] \in {"any", c[f]}) /\ c["opt"] \in Opt => Ready(Decoded(c))
<1>1. /\ wanted["str"] \in {"any", "mine"} /\ wanted["ptr"] \in {"any", "mine", "empty"}
      /\ wanted["num"] \in {"any", "mine"} /\ wanted["opt"] \in {"any", "ip", "pass"}
  BY DEF OwnInv, Own, Fields
<1>2. Ready(c) => Ready(Merged(c))
  BY <1>1, Completions DEF Ready
<1>3. ASSUME \A f \in Fields : wanted[f] \in {"any", c[f]}, c["opt"] \in Opt  PROVE Ready(Decoded(c))
  <2>1. Zero["opt"] = "empty"
    BY DEF Zero
  <2> QED BY <1>1, <1>3, <2>1, Completions DEF Ready, Fields, Opt
<1> QED BY <1>2, <1>3

\* A step of p, and what it has to keep for the whole to be kept.
Place(p) ==
  /\ pc[p] = "hue" => mode[p] = "hue"
  /\ pc[p] \in {"create", "write", "rename"} /\ then[p] \in {"hue", "off"} => mode[p] = "hue"
Temp(p) ==
  /\ pc[p] \in {"write", "rename"} => at[p] = "tmp"
  /\ pc[p] = "rename" => tmp = mem[p]

LEMMA Acts ==
  ASSUME ConfInv, NEW p \in Procs, ConfTypes',
         \A q \in Procs : q # p => /\ pc'[q] = pc[q] /\ mode'[q] = mode[q]
                                 /\ mem'[q] = mem[q] /\ then'[q] = then[q],
         Place(p)', shared' = shared,
         ~shared => /\ Engaged(p)' => Engaged(p)
                    /\ Busy(p)' => Ready(mem[p])'
                    /\ Temp(p)' /\ OwnInv' /\ FileInv'
                    /\ Engaged(p) \/ (tmp' = tmp /\ wanted' = wanted /\ \A q \in Procs : q # p => at'[q] = at[q])
  PROVE  ConfInv'
<1>1. HueInv'
  BY DEF ConfInv, HueInv, Place
<1>2. ASSUME ~shared  PROVE OwnInv' /\ OneInv' /\ MemInv' /\ TmpInv' /\ FileInv'
  <2>1. OneInv /\ MemInv /\ TmpInv /\ OwnInv /\ FileInv
    BY <1>2 DEF ConfInv
  <2>2. \A q \in Procs : q # p => (Busy(q)' <=> Busy(q)) /\ (Engaged(q)' <=> Engaged(q))
    BY DEF Busy, Engaged
  <2>3. OneInv'
    BY <1>2, <2>1, <2>2 DEF OneInv
  <2>4. \A q \in Procs : q # p /\ Engaged(p) => ~Engaged(q) /\ pc[q] \notin {"write", "rename"}
    BY <2>1 DEF OneInv, Engaged, Busy
  <2>5. MemInv'
    <3> SUFFICES ASSUME NEW q \in Procs, Busy(q)'  PROVE Ready(mem[q])'
      BY DEF MemInv
    <3>1. CASE q = p
      BY <1>2, <3>1
    <3>2. CASE q # p
      <4>1. Busy(q) /\ ~Engaged(p)
        BY <2>2, <2>4, <3>2 DEF Engaged
      <4>2. Ready(mem[q]) /\ wanted' = wanted /\ mem'[q] = mem[q]
        BY <1>2, <2>1, <3>2, <4>1 DEF MemInv
      <4> QED BY <4>2 DEF Ready
    <3> QED BY <3>1, <3>2
  <2>6. TmpInv'
    <3> SUFFICES ASSUME NEW q \in Procs  PROVE Temp(q)'
      BY DEF TmpInv, Temp
    <3>1. CASE q = p
      BY <1>2, <3>1
    <3>2. CASE q # p /\ Engaged(p)
      BY <2>4, <3>2 DEF Temp
    <3>3. CASE q # p /\ ~Engaged(p)
      BY <1>2, <2>1, <3>3 DEF Temp, TmpInv
    <3> QED BY <3>1, <3>2, <3>3
  <2> QED BY <1>2, <2>3, <2>5, <2>6
<1> QED BY <1>1, <1>2 DEF ConfInv

\* A step that concerns neither the processes' places nor the files.
LEMMA Apart ==
  ASSUME ConfInv, UNCHANGED <<pc, mode, mem, then, at, conf, tmp, wanted, shared>>
  PROVE  ConfInv'
BY DEF ConfInv, ConfTypes, HueInv, OwnInv, OneInv, MemInv, TmpInv, FileInv, Engaged, Busy, Ready

\* A process that ends writes nothing any more.
LEMMA EndsQuietly ==
  ASSUME ConfInv, NEW p, Exits(p), shared' = shared,
         \/ at' = [at EXCEPT ![p] = "gone"] /\ UNCHANGED <<conf, tmp, wanted>>
         \/ p \in Procs /\ at' = Moved(p) /\ (~shared => Engaged(p) /\ OwnInv' /\ FileInv')
  PROVE  ConfInv'
<1>1. /\ pc' = [pc EXCEPT ![p] = "off"] /\ mode' = [mode EXCEPT ![p] = "serve"]
      /\ mem' = [mem EXCEPT ![p] = Zero] /\ then' = [then EXCEPT ![p] = "key"]
  BY DEF Exits, Goto
<1>2. ConfTypes
  BY DEF ConfInv
<1>3. CASE p \notin Procs
  <2>1. at' = [at EXCEPT ![p] = "gone"] /\ UNCHANGED <<conf, tmp, wanted>>
    BY <1>3
  <2> QED BY <1>1, <1>2, <1>3, <2>1, Apart DEF ConfTypes
<1>4. CASE p \in Procs
  <2>1. at' \in [Procs -> {"gone", "tmp", "conf"}]
    BY <1>2 DEF ConfTypes, Moved
  <2>2. ConfTypes'
    BY <1>1, <1>2, <2>1, Configurations DEF ConfTypes, Places
  <2>3. /\ pc'[p] = "off" /\ \A q \in Procs : q # p => /\ pc'[q] = pc[q] /\ mode'[q] = mode[q]
                                 /\ mem'[q] = mem[q] /\ then'[q] = then[q]
    BY <1>1, <1>2, <1>4 DEF ConfTypes
  <2>4. mode'[p] = "serve"
    BY <1>1, <1>2, <1>4 DEF ConfTypes
  <2>5. ~Engaged(p)' /\ ~Busy(p)' /\ Place(p)' /\ Temp(p)'
    BY <2>3, <2>4 DEF Engaged, Busy, Place, Temp
  <2>6. ~shared => OwnInv' /\ FileInv'
    BY DEF ConfInv, OwnInv, FileInv
  <2>7. ~shared => Engaged(p) \/ (tmp' = tmp /\ wanted' = wanted /\ \A q \in Procs : q # p => at'[q] = at[q])
    BY <1>2 DEF ConfTypes
  <2> QED BY <1>4, <2>2, <2>3, <2>5, <2>6, <2>7, Acts
<1> QED BY <1>3, <1>4

\* Encode begins, of a configuration that may be written.
LEMMA EncodesReady ==
  ASSUME ConfInv, NEW p \in Procs, NEW c \in Settings, NEW l \in {"merge", "key", "hue", "off"}, Encode(p, c, l),
         Engaged(p), ~shared => Ready(c), l \in {"hue", "off"} => mode[p] = "hue",
         UNCHANGED <<mode, at, conf, tmp, wanted, shared>>
  PROVE  ConfInv'
<1>1. /\ pc' = [pc EXCEPT ![p] = "create"] /\ mem' = [mem EXCEPT ![p] = c] /\ then' = [then EXCEPT ![p] = l]
  BY DEF Encode, Goto
<1>2. ConfTypes
  BY DEF ConfInv
<1>3. ConfTypes'
  BY <1>1, <1>2 DEF ConfTypes, Places
<1>4. /\ pc'[p] = "create" /\ mem'[p] = c /\ then'[p] = l
      /\ \A q \in Procs : q # p => pc'[q] = pc[q] /\ mode'[q] = mode[q] /\ mem'[q] = mem[q] /\ then'[q] = then[q]
  BY <1>1, <1>2 DEF ConfTypes
<1>5. Place(p)' /\ Temp(p)'
  BY <1>4 DEF Place, Temp
<1>6. ~shared => OwnInv' /\ FileInv' /\ Ready(mem[p])'
  BY <1>4 DEF ConfInv, OwnInv, FileInv, Ready
<1> QED BY <1>3, <1>4, <1>5, <1>6, Acts

\* p goes on to l with the configuration that it has.
LEMMA GoesOn ==
  ASSUME ConfInv, NEW p \in Procs, pc[p] \notin {"off", "decode"},
         NEW l \in {"parsed", "newkey", "hue", "init", "run"}, Goto(p, l), l = "hue" => mode[p] = "hue",
         UNCHANGED <<mode, mem, then, at, conf, tmp, wanted, shared>>
  PROVE  ConfInv'
<1>1. ConfTypes
  BY DEF ConfInv
<1>2. ConfTypes'
  BY <1>1 DEF Goto, ConfTypes, Places
<1>3. pc'[p] = l /\ \A q \in Procs : q # p => pc'[q] = pc[q]
  BY <1>1 DEF Goto, ConfTypes
<1>4. Place(p)' /\ Temp(p)'
  BY <1>3 DEF Place, Temp
<1>5. Busy(p)' => Busy(p) /\ mem'[p] = mem[p]
  BY <1>3 DEF Busy
<1>6. ~shared => OwnInv' /\ FileInv' /\ (Busy(p)' => Ready(mem[p])')
  BY <1>5 DEF ConfInv, OwnInv, FileInv, MemInv, Ready
<1>7. Engaged(p)' => Engaged(p)
  BY <1>3, <1>5 DEF Engaged
<1> QED BY <1>2, <1>3, <1>4, <1>6, <1>7, Acts

LEMMA StartConf ==
  ASSUME ConfInv, NEW p \in Procs, Start(p)  PROVE ConfInv'
<1>1. /\ pc[p] = "off" /\ pc' = [pc EXCEPT ![p] = "decode"]
      /\ shared' = (shared \/ ~Alone(p))
      /\ UNCHANGED <<mem, then, at, conf, tmp, wanted>>
      /\ \E m \in {"serve", "hue"} : mode' = [mode EXCEPT ![p] = m]
  BY DEF Start, Goto, parseVars
<1>2. ConfTypes /\ HueInv
  BY DEF ConfInv
<1>3. shared' \in BOOLEAN
  BY <1>1
<1>4. ConfTypes'
  BY <1>1, <1>2, <1>3 DEF ConfTypes, Places
<1>5. pc'[p] = "decode" /\ \A q \in Procs : q # p => pc'[q] = pc[q] /\ mode'[q] = mode[q]
  BY <1>1, <1>2 DEF ConfTypes
<1>6. HueInv'
  BY <1>1, <1>2, <1>5 DEF HueInv
<1>7. ASSUME ~shared'  PROVE OwnInv' /\ OneInv' /\ MemInv' /\ TmpInv' /\ FileInv'
  <2>1. ~shared /\ Alone(p)
    BY <1>1, <1>7
  <2>2. OwnInv /\ OneInv /\ MemInv /\ TmpInv /\ FileInv
    BY <2>1 DEF ConfInv
  <2>3. /\ \A q \in Procs : q # p => ~Engaged(q)
        /\ \A q \in Procs : q # p => (Engaged(q)' <=> Engaged(q)) /\ (Busy(q)' <=> Busy(q))
    BY <1>5, <2>1 DEF Alone, Engaged, Busy
  <2>4. ~Busy(p)'
    BY <1>5 DEF Busy
  <2>5. OneInv'
    BY <2>3 DEF OneInv
  <2>6. MemInv'
    BY <1>1, <2>3, <2>4 DEF MemInv, Engaged
  <2>7. TmpInv'
    BY <1>1, <1>5, <2>2 DEF TmpInv
  <2> QED BY <1>1, <2>2, <2>5, <2>6, <2>7 DEF OwnInv, FileInv
<1> QED BY <1>4, <1>6, <1>7 DEF ConfInv

LEMMA DecodeConf ==
  ASSUME ConfInv, NEW p \in Procs, Decode(p)  PROVE ConfInv'
<1>1. pc[p] = "decode" /\ UNCHANGED <<conf, tmp, wanted, shared>>
  BY DEF Decode, history
<1>2. Engaged(p)
  BY <1>1 DEF Engaged
<1>3. ~shared => OwnInv /\ FileInv
  BY DEF ConfInv
<1>4. CASE End(p)
  BY <1>1, <1>4, EndsQuietly DEF End
<1>5. CASE conf = NoFile /\ Encode(p, Zero, "merge") /\ UNCHANGED <<mode, at>>
  <2>1. ASSUME ~shared  PROVE Ready(Zero)
    <3>1. \A f \in Fields : wanted[f] = "any"
      BY <1>3, <1>5, <2>1, Configurations DEF FileInv
    <3> QED BY <3>1 DEF Ready, Zero, Fields
  <2> QED BY <1>1, <1>2, <1>5, <2>1, Configurations, EncodesReady
<1>6. ASSUME conf \in Config
      PROVE  /\ conf \in Settings /\ Decoded(conf) \in Settings /\ Merged(Decoded(conf)) \in Settings
             /\ ~shared => Ready(Decoded(conf)) /\ Ready(Merged(Decoded(conf)))
  <2>1. conf \in Settings /\ conf["opt"] \in Opt /\ conf # NoFile
    BY <1>6, Configurations DEF Config
  <2>2. Decoded(conf) \in Settings /\ Merged(Decoded(conf)) \in Settings
    BY <2>1, Completions
  <2>3. ASSUME ~shared  PROVE Ready(Decoded(conf))
    BY <1>3, <2>1, <2>3, Completed DEF FileInv
  <2> QED BY <1>3, <2>1, <2>2, <2>3, Completed
<1>7. CASE conf \in Config /\ Encode(p, Merged(Decoded(conf)), "key") /\ UNCHANGED <<mode, at>>
  BY <1>1, <1>2, <1>6, <1>7, EncodesReady
<1>8. CASE conf \in Config /\ ~Resaves(conf) /\ Keep(p, conf) /\ Goto(p, "key") /\ UNCHANGED <<mode, then, at>>
  <2>1. Decoded(conf) = conf
    BY <1>8 DEF Resaves
  <2>2. ConfTypes
    BY DEF ConfInv
  <2>3. mem' = [mem EXCEPT ![p] = IF mode[p] = "hue" \/ then[p] = "merge" THEN conf ELSE Zero]
    BY <1>8 DEF Keep
  <2>4. pc' = [pc EXCEPT ![p] = "key"]
    BY <1>8 DEF Goto
  <2>5. ConfTypes'
    BY <1>1, <1>6, <1>8, <2>2, <2>3, <2>4, Configurations DEF ConfTypes, Places
  <2>6. pc'[p] = "key" /\ \A q \in Procs : q # p => pc'[q] = pc[q] /\ mem'[q] = mem[q]
    BY <2>2, <2>3, <2>4 DEF ConfTypes
  <2>7. Busy(p)' => mem'[p] = conf
    BY <1>8, <2>2, <2>3, <2>6 DEF Busy, ConfTypes
  <2>8. ~shared => OwnInv' /\ FileInv' /\ (Busy(p)' => Ready(mem[p])')
    BY <1>1, <1>3, <1>6, <1>8, <2>1, <2>7 DEF OwnInv, FileInv, Ready
  <2>9. Place(p)' /\ Temp(p)'
    BY <2>6 DEF Place, Temp
  <2> QED BY <1>1, <1>2, <1>8, <2>5, <2>6, <2>8, <2>9, Acts
<1> QED BY <1>4, <1>5, <1>7, <1>8 DEF Decode

\* Opening the file, and writing it.
LEMMA WriteConf ==
  ASSUME ConfInv, NEW p \in Procs, Create(p) \/ Write(p)  PROVE ConfInv'
<1>1. /\ pc[p] \in {"create", "write"} /\ Engaged(p) /\ Busy(p)
      /\ UNCHANGED <<mode, mem, then, wanted, shared>>
  BY DEF Create, Write, history, Engaged, Busy
<1>2. ConfTypes /\ HueInv
  BY DEF ConfInv
<1>3. Ready(mem[p])' <=> Ready(mem[p])
  BY <1>1 DEF Ready
<1>4. ~shared => OwnInv /\ FileInv /\ Temp(p) /\ Ready(mem[p])
  BY <1>1 DEF ConfInv, TmpInv, Temp, MemInv
<1>5. CASE Create(p)
  <2>1. /\ pc[p] = "create" /\ pc' = [pc EXCEPT ![p] = "write"] /\ at' = [at EXCEPT ![p] = "tmp"] /\ conf' = conf
    BY <1>5 DEF Create, Goto
  <2>2. ConfTypes'
    BY <1>1, <1>2, <2>1 DEF ConfTypes, Places
  <2>3. pc'[p] = "write" /\ at'[p] = "tmp" /\ \A q \in Procs : q # p => pc'[q] = pc[q]
    BY <1>2, <2>1 DEF ConfTypes
  <2>4. Place(p)' /\ Temp(p)'
    BY <1>1, <1>2, <2>1, <2>3 DEF Place, Temp, HueInv
  <2>5. ~shared => OwnInv' /\ FileInv'
    BY <1>1, <1>4, <2>1 DEF OwnInv, FileInv
  <2> QED BY <1>1, <1>3, <1>4, <2>2, <2>3, <2>4, <2>5, Acts
<1>6. CASE Write(p)
  <2>1. /\ pc[p] = "write" /\ pc' = [pc EXCEPT ![p] = "rename"] /\ at' = at
        /\ tmp' = IF at[p] = "tmp" THEN mem[p] ELSE tmp
        /\ conf' = IF at[p] = "conf" THEN mem[p] ELSE conf
    BY <1>6 DEF Write, Goto
  <2>2. ConfTypes'
    BY <1>1, <1>2, <2>1 DEF ConfTypes, Places
  <2>3. pc'[p] = "rename" /\ \A q \in Procs : q # p => pc'[q] = pc[q]
    BY <1>2, <2>1 DEF ConfTypes
  <2>4. ~shared => at[p] = "tmp" /\ tmp' = mem[p] /\ conf' = conf
    BY <1>4, <2>1 DEF Temp
  <2>5. Place(p)' /\ (~shared => Temp(p)')
    BY <1>1, <1>2, <2>1, <2>3, <2>4 DEF Place, Temp, HueInv
  <2>6. ~shared => OwnInv' /\ FileInv'
    BY <1>1, <1>4, <2>4 DEF OwnInv, FileInv
  <2> QED BY <1>1, <1>3, <1>4, <2>2, <2>3, <2>5, <2>6, Acts
<1> QED BY <1>5, <1>6

LEMMA RenameConf ==
  ASSUME ConfInv, NEW p \in Procs, Rename(p)  PROVE ConfInv'
<1>1. pc[p] = "rename" /\ Engaged(p) /\ Busy(p) /\ shared' = shared
  BY DEF Rename, Engaged, Busy
<1>2. ConfTypes /\ HueInv
  BY DEF ConfInv
<1>3. ~shared => OwnInv /\ tmp = mem[p] /\ Ready(mem[p])
  BY <1>1 DEF ConfInv, TmpInv, MemInv
<1>4. CASE tmp = NoFile /\ End(p) /\ UNCHANGED <<conf, tmp, wanted>>
  BY <1>1, <1>4, EndsQuietly DEF End
<1>5. ASSUME conf' = tmp, ~shared,
             wanted' = [wanted EXCEPT !.opt = IF mem[p].opt = "empty" THEN @ ELSE mem[p].opt]
      PROVE  /\ OwnInv' /\ FileInv'
             /\ \A f \in {"str", "ptr", "num"} : wanted'[f] \in {"any", mem[p][f]}
             /\ mem[p]["opt"] \in {"empty", "ip", "pass"}
             /\ mem[p]["opt"] = "empty" => wanted'["opt"] = "any"
  <2>1. mem[p] \in Settings /\ wanted \in Settings /\ tmp = mem[p]
    BY <1>2, <1>3, <1>5 DEF ConfTypes, OwnInv
  <2>2. /\ wanted' \in Settings
        /\ \A f \in {"str", "ptr", "num"} : wanted'[f] = wanted[f]
        /\ wanted'["opt"] = IF mem[p]["opt"] = "empty" THEN wanted["opt"] ELSE mem[p]["opt"]
    BY <1>3, <1>5, <2>1 DEF Settings, Fields, Values, Ready
  <2>3. OwnInv'
    <3>1. \A f \in {"str", "ptr", "num"} : wanted'[f] = "any" \/ Own(f, wanted'[f])
      BY <1>3, <1>5, <2>2 DEF OwnInv, Fields
    <3>2. wanted'["opt"] = "any" \/ Own("opt", wanted'["opt"])
      BY <1>3, <1>5, <2>2 DEF Ready, Own
    <3> QED BY <2>2, <3>1, <3>2 DEF OwnInv, Fields
  <2>4. FileInv'
    BY <1>3, <1>5, <2>1, <2>2 DEF FileInv, Ready, Fields
  <2> QED BY <1>3, <1>5, <2>2, <2>3, <2>4 DEF Ready
<1>6. CASE /\ conf' = tmp /\ wanted' = [wanted EXCEPT !.opt = IF mem[p].opt = "empty" THEN @ ELSE mem[p].opt]
           /\ at' = Moved(p) /\ Exits(p)
  BY <1>1, <1>5, <1>6, EndsQuietly
<1>7. CASE /\ conf' = tmp /\ wanted' = [wanted EXCEPT !.opt = IF mem[p].opt = "empty" THEN @ ELSE mem[p].opt]
           /\ then[p] # "off" /\ Goto(p, then[p]) /\ at' = Moved(p) /\ Keep(p, mem[p]) /\ UNCHANGED <<mode, then>>
  <2>1. /\ pc' = [pc EXCEPT ![p] = then[p]] /\ then[p] \in {"merge", "key", "hue"}
        /\ mem' = [mem EXCEPT ![p] = IF mode[p] = "hue" \/ then[p] = "merge" THEN mem[p] ELSE Zero]
        /\ at' \in [Procs -> {"gone", "tmp", "conf"}]
    BY <1>2, <1>7 DEF Goto, Keep, Moved, ConfTypes
  <2>2. ConfTypes'
    BY <1>1, <1>2, <1>7, <2>1, Configurations DEF ConfTypes, Places
  <2>3. pc'[p] = then[p] /\ \A q \in Procs : q # p => pc'[q] = pc[q] /\ mem'[q] = mem[q]
    BY <1>2, <2>1 DEF ConfTypes
  <2>4. Place(p)' /\ Temp(p)'
    BY <1>1, <1>2, <1>7, <2>1, <2>3 DEF Place, Temp, HueInv
  <2>5. Busy(p)' => mem'[p] = mem[p]
    BY <1>2, <1>7, <2>1, <2>3 DEF Busy, ConfTypes
  <2>6. ~shared => OwnInv' /\ FileInv' /\ (Busy(p)' => Ready(mem[p])')
    BY <1>5, <1>7, <2>5 DEF Ready
  <2> QED BY <1>1, <1>7, <2>2, <2>3, <2>4, <2>6, Acts
<1> QED BY <1>4, <1>6, <1>7 DEF Rename

LEMMA HueConf ==
  ASSUME ConfInv, NEW p \in Procs, Merge(p) \/ Hue(p)  PROVE ConfInv'
<1>1. UNCHANGED <<mode, at, conf, tmp, wanted, shared>> /\ pc[p] \in {"merge", "hue"}
  BY DEF Merge, Hue, history
<1>2. mem[p] \in Settings /\ (pc[p] = "hue" => mode[p] = "hue")
  BY DEF ConfInv, ConfTypes, HueInv
<1>3. Busy(p) /\ Engaged(p)
  BY <1>1, <1>2 DEF Busy, Engaged
<1>4. ~shared => OwnInv /\ Ready(mem[p])
  BY <1>3 DEF ConfInv, MemInv
<1>5. CASE Merge(p)
  <2>1. Merged(mem[p]) \in Settings /\ (~shared => Ready(Merged(mem[p])))
    BY <1>2, <1>4, Completions, Completed
  <2>2. Encode(p, Merged(mem[p]), "key")
    BY <1>5 DEF Merge
  <2> QED BY <1>1, <1>3, <2>1, <2>2, EncodesReady
<1>6. CASE Hue(p)
  <2>1. mode[p] = "hue"
    BY <1>2, <1>6 DEF Hue
  <2>2. \A x \in {"ip", "pass"} :
          [mem[p] EXCEPT !.opt = x] \in Settings /\ (~shared => Ready([mem[p] EXCEPT !.opt = x]))
    BY <1>2, <1>4 DEF Ready, Settings, Fields, Values
  <2>3. \/ Encode(p, [mem[p] EXCEPT !.opt = "ip"], "hue")
        \/ Encode(p, [mem[p] EXCEPT !.opt = "pass"], "off")
    BY <1>6 DEF Hue
  <2> QED BY <1>1, <1>3, <2>1, <2>2, <2>3, EncodesReady
<1> QED BY <1>5, <1>6

LEMMA GoConf ==
  ASSUME ConfInv, NEW p \in Procs, FindKey(p) \/ StoreKey(p) \/ Dispatch(p) \/ Load(p)  PROVE ConfInv'
<1>1. UNCHANGED <<conf, tmp, wanted, shared>>
  BY DEF FindKey, StoreKey, Dispatch, Load, parseVars, history
<1>2. pc[p] \notin {"off", "decode"}
  BY DEF FindKey, StoreKey, Dispatch, Load
<1>3. CASE FindKey(p) \/ StoreKey(p)
  <2>1. UNCHANGED <<mode, mem, then, at>> /\ (Goto(p, "parsed") \/ Goto(p, "newkey"))
    BY <1>3 DEF FindKey, StoreKey
  <2> QED BY <1>1, <1>2, <2>1, GoesOn
<1>4. CASE Load(p)
  <2>1. UNCHANGED <<mode, mem, then, at>> /\ Goto(p, "run")
    BY <1>4 DEF Load, parseVars
  <2> QED BY <1>1, <1>2, <2>1, GoesOn
<1>5. CASE Dispatch(p)
  <2>1. \/ End(p)
        \/ mode[p] = "hue" /\ Goto(p, "hue") /\ UNCHANGED <<mode, mem, then, at>>
        \/ Goto(p, "init") /\ UNCHANGED <<mode, mem, then, at>>
    BY <1>5 DEF Dispatch
  <2> QED BY <1>1, <1>2, <2>1, EndsQuietly, GoesOn DEF End
<1> QED BY <1>3, <1>4, <1>5

LEMMA ConfInvHolds == Spec => []ConfInv
<1>1. Init => ConfInv
  <2> SUFFICES ASSUME Init  PROVE ConfInv
    OBVIOUS
  <2>1. ConfTypes /\ \A p \in Procs : pc[p] = "off"
    BY Configurations DEF Init, ConfTypes, Places
  <2>2. HueInv /\ OneInv /\ MemInv /\ TmpInv
    BY <2>1 DEF HueInv, OneInv, MemInv, TmpInv, Engaged, Busy
  <2>3. conf \in Config \cup {NoFile} /\ wanted = OwnOf(conf)
    BY LifecycleAssumption DEF Init
  <2>4. \A f \in Fields : wanted[f] = IF conf # NoFile /\ Own(f, conf[f]) THEN conf[f] ELSE "any"
    BY <2>3 DEF OwnOf
  <2>5. OwnInv
    <3>1. \A f \in Fields : wanted[f] = "any" \/ (conf \in Config /\ wanted[f] = conf[f] /\ Own(f, wanted[f]))
      BY <2>3, <2>4
    <3>2. \A f \in Fields : wanted[f] \in Values
      BY <3>1, Configurations DEF Settings, Values
    <3>3. wanted \in Settings
      BY <2>3, <3>2 DEF OwnOf, Settings
    <3> QED BY <3>1, <3>3 DEF OwnInv
  <2>6. FileInv
    BY <2>3, <2>4, Configurations DEF FileInv
  <2> QED BY <2>1, <2>2, <2>5, <2>6 DEF ConfInv
<1>2. ConfInv /\ [Next]_vars => ConfInv'
  <2> SUFFICES ASSUME ConfInv, [Next]_vars  PROVE ConfInv'
    OBVIOUS
  <2>1. ASSUME NEW p \in Procs, Parse(p) \/ Dispatch(p) \/ Hue(p) \/ Load(p)  PROVE ConfInv'
    BY <2>1, DecodeConf, WriteConf, RenameConf, HueConf, GoConf DEF Parse
  <2>2. ASSUME NEW p \in Procs, Die(p)  PROVE ConfInv'
    <3>1. End(p) /\ UNCHANGED <<conf, tmp, wanted, shared>>
      BY <2>2 DEF Die, history
    <3> QED BY <3>1, EndsQuietly DEF End
  <2>3. CASE Hear \/ Exit
    <3>1. UNCHANGED <<conf, tmp, wanted, shared>> /\ (End(lock) \/ UNCHANGED <<pc, mode, mem, then, at>>)
      BY <2>3 DEF Hear, Exit, history
    <3> QED BY <3>1, EndsQuietly, Apart DEF End
  <2>4. ASSUME NEW x \in Listeners, Try(x)  PROVE ConfInv'
    BY <2>4, Apart DEF Try, parsing, parseVars, history
  <2>5. CASE Break \/ ChannelFails \/ Signal \/ SaveOnSignal \/ SendExit
    BY <2>5, Apart DEF Break, ChannelFails, Signal, SaveOnSignal, SendExit, parsing, parseVars, history
  <2>6. CASE UNCHANGED vars
    BY <2>6, Apart DEF vars, parseVars, history
  <2> QED BY <2>1, <2>2, <2>3, <2>4, <2>5, <2>6, StartConf DEF Next
<1> QED BY <1>1, <1>2, PTL DEF Spec

\* Whatever starts, tools and deaths do to the configuration, it stays
\* readable and has what the operator and hue have set, unless a process was
\* started while another had still to write it (Parse of cmd/server/flags.go,
\* Decode, Merge and Encode of cmd/server/conf.go, hue of server.go).
THEOREM SettingsAreKept == Spec => []SettingsKept
<1>1. ConfInv => SettingsKept
  <2> SUFFICES ASSUME ConfInv, ~shared
               PROVE  conf # Torn /\ (conf # NoFile => \A f \in Fields : wanted[f] \in {"any", conf[f]})
    BY DEF SettingsKept
  <2>1. FileInv
    BY DEF ConfInv
  <2> QED BY <2>1, Configurations DEF FileInv
<1> QED BY <1>1, ConfInvHolds, PTL
=============================================================================
