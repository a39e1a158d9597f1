----------------------------- MODULE Lifecycle -----------------------------
(***************************************************************************)
(* The processes of cmd/server on one configuration and one directory:     *)
(* Parse and validateAppConf of flags.go with Decode, Merge and Encode of  *)
(* conf.go, EnsureKey of crypto/keys.go, and main, serve and hue of        *)
(* server.go with RunTCP, RunHTTP, RunChannels and Close of                *)
(* server/server.go.                                                       *)
(* Parse runs before the lock is tried, in every mode, so two processes    *)
(* may be in it at once. Any process may die between two steps.            *)
(* A configuration has one field for each way Merge treats fields: str     *)
(* (defaulted when empty), ptr (defaulted when null, so that empty stays), *)
(* num (defaulted when not positive), opt (no default, set by hue). The    *)
(* default of a field is "def". What the server saves is in Records.       *)
(***************************************************************************)
EXTENDS Integers, FiniteSets

CONSTANTS
  Procs,       \* process slots
  Found,       \* configurations the first start may find
  Tries,       \* calls of RunTCP and of RunHTTP before they are given up (3)
  MaxStarts,   \* bound: processes started
  MaxFails     \* bound: deaths and errors of channels and of a running HTTP server

Listeners == {"tcp", "http"}
Links     == Listeners \cup {"chans"}

Str == {"missing", "empty", "mine", "def"}
Ptr == Str \cup {"null"}
Num == {"missing", "neg", "zero", "mine", "def"}
Opt == {"missing", "empty", "ip", "pass"}
Config == [str : Str, ptr : Ptr, num : Num, opt : Opt]

NoFile == [file |-> "none"]
Torn   == [file |-> "torn"]      \* truncated, or cut short by a death
Free   == "free"
NoKey  == <<>>

ASSUME LifecycleAssumption ==
  /\ Found \subseteq Config \cup {NoFile}
  /\ Free \notin Procs
  /\ {MaxStarts, MaxFails} \subseteq Nat /\ Tries \in Nat \ {0}

VARIABLES
  pc, mode,       \* pc[p], "off" when there is no such process
  mem, key,       \* mem[p], key[p]: the configuration, while it may be written,
                  \* and the key
  then, at,       \* where Encode returns to; where the file it opened is now
  conf, tmp,      \* the configuration file and its .tmp
  keyfile, lock,
  link, left,     \* of the server: its three goroutines; tries left of a listener
  err,            \* tcpErr, httpErr and channelErr, those that are set
  closing, sig, exit,
  starts, fails,
  wanted,         \* history: what the operator, and then hue, set
  shared,         \* history: a process started while another was in Parse, or in hue
  raced,          \* history: two processes were making a key at once
  served          \* history: keys that servers have shown to clients

parseVars == <<mem, key, then, at, conf, tmp, keyfile>>
srvVars   == <<link, left, err, closing, sig, exit>>
bounds    == <<starts, fails>>
history   == <<wanted, shared, raced, served>>
vars == <<pc, mode, parseVars, lock, srvVars, bounds, history>>

Fields == {"str", "ptr", "num", "opt"}

\* The values that a start leaves alone.
Own(f, v) == CASE f = "str" -> v = "mine"
               [] f = "ptr" -> v \in {"mine", "empty"}
               [] f = "num" -> v = "mine"
               [] f = "opt" -> v \in {"ip", "pass"}
OwnOf(c) == [f \in Fields |-> IF c # NoFile /\ Own(f, c[f]) THEN c[f] ELSE "any"]

\* A new Config; what Decode makes of a file; what Merge adds to it.
Zero == [str |-> "empty", ptr |-> "null", num |-> "zero", opt |-> "empty"]
Decoded(c) == [f \in Fields |-> IF c[f] = "missing" THEN Zero[f] ELSE c[f]]
MergedDroppingEmpty(c) ==
  [c EXCEPT !.str = IF @ = "empty" THEN "def" ELSE @,
            !.ptr = IF @ \in {"null", "empty"} THEN "def" ELSE @,
            !.num = IF @ \in {"neg", "zero"} THEN "def" ELSE @]
Merged(c) ==
  [c EXCEPT !.str = IF @ = "empty" THEN "def" ELSE @,
            !.ptr = IF @ = "null" THEN "def" ELSE @,
            !.num = IF @ \in {"neg", "zero"} THEN "def" ELSE @]
Resaves(c) == Decoded(c) # c \/ Merged(Decoded(c)) # Decoded(c)

NoLinks  == [x \in Links |-> "done"]
AllTries == [x \in Listeners |-> Tries]

Init ==
  /\ pc = [p \in Procs |-> "off"] /\ mode = [p \in Procs |-> "serve"]
  /\ mem = [p \in Procs |-> Zero] /\ key = [p \in Procs |-> NoKey]
  /\ then = [p \in Procs |-> "key"] /\ at = [p \in Procs |-> "gone"]
  /\ conf \in Found /\ tmp = NoFile /\ keyfile = NoKey /\ lock = Free
  /\ link = NoLinks /\ left = AllTries /\ err = {}
  /\ closing = FALSE /\ sig = "no" /\ exit = FALSE
  /\ starts = 0 /\ fails = 0
  /\ wanted = OwnOf(conf) /\ shared = FALSE /\ raced = FALSE /\ served = {}

Goto(p, l) == pc' = [pc EXCEPT ![p] = l]

\* A process that may still write the configuration it has read.
Busy(p) == \/ pc[p] \in {"merge", "create", "write", "rename"}
           \/ mode[p] = "hue" /\ pc[p] \notin {"off", "decode"}
Alone(p) == \A q \in Procs \ {p} : ~Busy(q) /\ pc[q] # "decode"

\* The process ends and its memory is gone; the deferred Unlock runs, or its
\* lock is stale.
Exits(p) ==
  /\ Goto(p, "off")
  /\ mode' = [mode EXCEPT ![p] = "serve"] /\ mem' = [mem EXCEPT ![p] = Zero]
  /\ key' = [key EXCEPT ![p] = NoKey] /\ then' = [then EXCEPT ![p] = "key"]
  /\ IF lock # p THEN UNCHANGED <<lock, srvVars>>
     ELSE /\ lock' = Free
          /\ link' = NoLinks /\ left' = AllTries /\ err' = {}
          /\ closing' = FALSE /\ sig' = "no" /\ exit' = FALSE

End(p) == Exits(p) /\ at' = [at EXCEPT ![p] = "gone"]

---------------------------------------------------------------------------
(* Parse.                                                                  *)

Start(p) ==
  /\ pc[p] = "off" /\ starts < MaxStarts
  /\ starts' = starts + 1
  /\ Goto(p, "decode")
  /\ \E m \in {"serve", "hue"} : mode' = [mode EXCEPT ![p] = m]
  /\ shared' = (shared \/ ~Alone(p))
  /\ UNCHANGED <<parseVars, lock, srvVars, fails, wanted, raced, served>>

\* Begins Encode of c; what follows it is l.
Encode(p, c, l) ==
  /\ mem' = [mem EXCEPT ![p] = c]
  /\ then' = [then EXCEPT ![p] = l]
  /\ Goto(p, "create")

Keep(p, c) == mem' = [mem EXCEPT ![p] = IF mode[p] = "hue" \/ then[p] = "merge" THEN c ELSE Zero]

\* A file that is missing is written first, as it is; one that cannot be
\* read ends the process.
Decode(p) ==
  /\ pc[p] = "decode"
  /\ \/ conf = Torn /\ End(p)
     \/ /\ \/ conf = NoFile /\ Encode(p, Zero, "merge")
           \/ conf \in Config /\ Resaves(conf) /\ Encode(p, Merged(Decoded(conf)), "key")
           \/ /\ conf \in Config /\ ~Resaves(conf)
              /\ Keep(p, conf) /\ then' = then /\ Goto(p, "key")
        /\ UNCHANGED <<mode, key, at, lock, srvVars>>
  /\ UNCHANGED <<conf, tmp, keyfile, bounds, history>>

Merge(p) ==
  /\ pc[p] = "merge"
  /\ Encode(p, Merged(mem[p]), "key")
  /\ UNCHANGED <<mode, key, at, conf, tmp, keyfile, lock, srvVars, bounds, history>>

\* Encode opens file.tmp (the same one, if another process has it open),
\* writes it and renames it.
Create(p) ==
  /\ pc[p] = "create"
  /\ tmp' = Torn /\ at' = [at EXCEPT ![p] = "tmp"]
  /\ Goto(p, "write")
  /\ UNCHANGED <<mode, mem, key, then, conf, keyfile, lock, srvVars, bounds, history>>

Write(p) ==
  /\ pc[p] = "write"
  /\ tmp' = IF at[p] = "tmp" THEN mem[p] ELSE tmp
  /\ conf' = IF at[p] = "conf" THEN mem[p] ELSE conf
  /\ Goto(p, "rename")
  /\ UNCHANGED <<mode, mem, key, then, at, keyfile, lock, srvVars, bounds, history>>

\* After p's rename, for those who have file.tmp open it is the configuration.
Moved(p) == [q \in Procs |-> IF q # p /\ at[q] = "tmp" THEN "conf" ELSE "gone"]

\* Another process may have renamed the file first, which ends this one.
Rename(p) ==
  /\ pc[p] = "rename"
  /\ \/ tmp = NoFile /\ End(p) /\ UNCHANGED <<conf, tmp, wanted>>
     \/ /\ tmp # NoFile /\ conf' = tmp /\ tmp' = NoFile
        /\ wanted' = [wanted EXCEPT !.opt = IF mem[p].opt = "empty" THEN @ ELSE mem[p].opt]
        /\ at' = Moved(p)
        /\ \/ then[p] = "off" /\ Exits(p)
           \/ /\ then[p] # "off" /\ Goto(p, then[p])
              /\ Keep(p, mem[p]) /\ UNCHANGED <<mode, key, then, lock, srvVars>>
  /\ UNCHANGED <<keyfile, bounds, shared, raced, served>>

\* A key is the process that made it: no two are the same.
NewKey(p) == <<p, starts>>

\* A generated key that is never stored.
FindKeyForgetting(p) ==
  /\ pc[p] = "key"
  /\ key' = [key EXCEPT ![p] = IF keyfile # NoKey THEN keyfile ELSE NewKey(p)]
  /\ Goto(p, "parsed")
  /\ UNCHANGED <<mode, mem, then, at, conf, tmp, keyfile, lock, srvVars, bounds, history>>

\* EnsureKey: the file's key, or a new one, written under a name of its own
\* and renamed.
FindKey(p) ==
  /\ pc[p] = "key"
  /\ key' = [key EXCEPT ![p] = IF keyfile # NoKey THEN keyfile ELSE NewKey(p)]
  /\ Goto(p, IF keyfile # NoKey THEN "parsed" ELSE "newkey")
  /\ raced' = (raced \/ (keyfile = NoKey /\ \E q \in Procs : pc[q] = "newkey"))
  /\ UNCHANGED <<mode, mem, then, at, conf, tmp, keyfile, lock, srvVars, bounds,
                 wanted, shared, served>>

StoreKey(p) ==
  /\ pc[p] = "newkey"
  /\ keyfile' = key[p] /\ Goto(p, "parsed")
  /\ UNCHANGED <<mode, mem, key, then, at, conf, tmp, lock, srvVars, bounds, history>>

---------------------------------------------------------------------------
(* main and the tools.                                                     *)

\* serve claims the lock (one of a dead process is taken over), panics if it
\* is held, and goes on to signal.Notify: until then a signal kills it (Die).
\* hue waits for its user. logs and fingerprint end: a Die here.
Dispatch(p) ==
  /\ pc[p] = "parsed"
  /\ \/ mode[p] = "serve" /\ lock # Free /\ End(p)
     \/ /\ mode[p] = "hue" /\ Goto(p, "hue")
        /\ UNCHANGED <<mode, mem, key, then, at, lock, srvVars>>
     \/ /\ mode[p] = "serve" /\ lock = Free /\ Goto(p, "init") /\ lock' = p
        /\ UNCHANGED <<mode, mem, key, then, at, srvVars>>
  /\ UNCHANGED <<conf, tmp, keyfile, bounds, history>>

\* Without an address the bridge is looked for and saved; then the password.
Hue(p) ==
  /\ pc[p] = "hue"
  /\ IF mem[p].opt = "empty"
     THEN Encode(p, [mem[p] EXCEPT !.opt = "ip"], "hue")
     ELSE Encode(p, [mem[p] EXCEPT !.opt = "pass"], "off")
  /\ UNCHANGED <<mode, key, at, conf, tmp, keyfile, lock, srvVars, bounds, history>>

---------------------------------------------------------------------------
(* serve. There is one server, the holder of the lock.                     *)

\* Init of the server loads the files; then the three goroutines are started.
Load(p) ==
  /\ pc[p] = "init" /\ Goto(p, "run")
  /\ link' = [x \in Links |-> IF x = "chans" THEN "up" ELSE "try"]
  /\ served' = served \cup {key[p]}
  /\ UNCHANGED <<mode, parseVars, lock, left, err, closing, sig, exit,
                 bounds, wanted, shared, raced>>

Running == lock # Free /\ pc[lock] = "run"
parsing == <<pc, mode, parseVars, lock>>

\* x ends with an error that serve is to be told: the error is set, and the
\* send on errs waits for the loop.
Fail(x) == link' = [link EXCEPT ![x] = "ringing"] /\ err' = err \cup {x}

\* RunTCP or RunHTTP is called. "up" is also for one that has returned nil,
\* as it does once the server is closing (RunTCP has to bind first).
Try(x) ==
  /\ Running /\ link[x] = "try"
  /\ left' = [left EXCEPT ![x] = @ - 1]
  /\ \/ link' = [link EXCEPT ![x] = "up"] /\ err' = err
     \/ /\ ~(x = "http" /\ closing)
        /\ IF left[x] = 1 THEN Fail(x) ELSE UNCHANGED <<link, err>>
  /\ UNCHANGED <<parsing, closing, sig, exit, bounds, history>>

\* The HTTP server fails while it serves. TCP only logs what Accept returns.
Break ==
  /\ Running /\ link["http"] = "up" /\ ~closing
  /\ fails < MaxFails /\ fails' = fails + 1
  /\ IF left["http"] = 0 THEN Fail("http")
                         ELSE link' = [link EXCEPT !["http"] = "try"] /\ err' = err
  /\ UNCHANGED <<parsing, left, closing, sig, exit, starts, history>>

\* A channel's Run fails: RunChannels closes the server and returns what
\* Close returns. When that is nil nobody is told.
ChannelFails ==
  /\ Running /\ link["chans"] = "up"
  /\ fails < MaxFails /\ fails' = fails + 1
  /\ closing' = TRUE
  /\ \/ link' = [link EXCEPT !["chans"] = "done"] /\ err' = err
     \/ Fail("chans")
  /\ UNCHANGED <<parsing, left, sig, exit, starts, history>>

\* tcpErr = nil forgotten.
HearKeeping ==
  /\ Running
  /\ \E x \in Links : link[x] = "ringing" /\
       IF err \cap Listeners = {} THEN End(lock)
       ELSE /\ link' = [link EXCEPT ![x] = "done"]
            /\ err' = err \ {IF "tcp" \in err THEN "none" ELSE "http"}
            /\ UNCHANGED <<pc, mode, mem, key, then, at, lock, left, closing, sig, exit>>
  /\ UNCHANGED <<conf, tmp, keyfile, bounds, history>>

\* The loop takes one send of errs and tells the first error that is set,
\* whoever sent; channelErr ends the process.
Hear ==
  /\ Running
  /\ \E x \in Links : link[x] = "ringing" /\
       IF err \cap Listeners = {} THEN End(lock)
       ELSE /\ link' = [link EXCEPT ![x] = "done"]
            /\ err' = err \ {IF "tcp" \in err THEN "tcp" ELSE "http"}
            /\ UNCHANGED <<pc, mode, mem, key, then, at, lock, left, closing, sig, exit>>
  /\ UNCHANGED <<conf, tmp, keyfile, bounds, history>>

\* The signal handler's goroutine runs during Init too.
Handling == lock # Free /\ pc[lock] \in {"init", "run"}

Signal ==
  /\ Handling /\ sig = "no"
  /\ sig' = "caught"
  /\ UNCHANGED <<parsing, link, left, err, closing, exit, bounds, history>>

SaveOnSignal ==
  /\ Handling /\ sig = "caught"
  /\ sig' = "saved"
  /\ UNCHANGED <<parsing, link, left, err, closing, exit, bounds, history>>

SendExit ==
  /\ Handling /\ sig = "saved"
  /\ sig' = "done" /\ exit' = TRUE
  /\ UNCHANGED <<parsing, link, left, err, closing, bounds, history>>

\* The loop closes the server and returns.
Exit ==
  /\ Running /\ exit
  /\ End(lock)
  /\ UNCHANGED <<conf, tmp, keyfile, bounds, history>>

\* The process is killed, or panics, between two steps.
Die(p) ==
  /\ pc[p] # "off" /\ fails < MaxFails /\ fails' = fails + 1
  /\ End(p)
  /\ UNCHANGED <<conf, tmp, keyfile, starts, history>>

Parse(p) == Decode(p) \/ Merge(p) \/ Create(p) \/ Write(p) \/ Rename(p)
            \/ FindKey(p) \/ StoreKey(p)

Next ==
  \/ \E p \in Procs : Start(p) \/ Parse(p) \/ Dispatch(p) \/ Hue(p) \/ Load(p) \/ Die(p)
  \/ \E x \in Listeners : Try(x)
  \/ Break \/ ChannelFails \/ Hear
  \/ Signal \/ SaveOnSignal \/ SendExit \/ Exit

\* Go runs every goroutine that can run, and a select takes a case that
\* stays ready.
Fairness ==
  /\ WF_vars(\E p \in Procs : Load(p))
  /\ WF_vars(SaveOnSignal) /\ WF_vars(SendExit) /\ WF_vars(Exit) /\ WF_vars(Hear)

Spec == Init /\ [][Next]_vars /\ Fairness

---------------------------------------------------------------------------
(* Properties.                                                             *)

\* What the operator set (an empty log directory included) outlives every
\* start, tool and death, and the file never becomes unreadable, unless
\* one process started between another's reading of the configuration and
\* its last write of it (flags.go:339, conf.go:139, server.go:60).
SettingsKept ==
  shared \/ /\ conf # Torn
            /\ conf # NoFile => \A f \in Fields : wanted[f] \in {"any", conf[f]}

\* Every server shows its clients the key that the first one showed, unless
\* two processes made a key at the same time (flags.go:293, keys.go:85).
ServedKeyLasts == raced \/ Cardinality(served) <= 1

\* A signal ends the server, whatever its listeners and channels did before
\* (server.go:385, 475).
StopsOnSignal == sig = "caught" ~> ~Handling

\* Each listener that gives up is reported, when both do and when the
\* channels fail too, unless the process ends (server.go:481).
ErrorsTold == []<>(~Running \/ err \cap Listeners = {})

\* Both: the loop of serve hears what it is sent.
ServeHears == StopsOnSignal /\ ErrorsTold
=============================================================================
