------------------------------ MODULE Records -------------------------------
(***************************************************************************)
(* The chat history on disk: server/channel/saver.go (BinaryHistory with   *)
(* its store file and its append-only log), its use by history.go and by   *)
(* Save, load and RunChannels of server/server.go, and the start and stop  *)
(* of the process in cmd/server/server.go.                                 *)
(* Goroutines: the main one (load, the exit), the save ticker, the signal  *)
(* handler (which saves too), connection handlers that Add, and the one    *)
(* that writes the append-only log. The process may die anywhere; what was *)
(* written to a file stays. Messages are numbered in the order of Add.     *)
(***************************************************************************)
EXTENDS Integers, Sequences, Functions

CONSTANTS
  Stored,     \* the store files that the first start may find
  MaxMessages, \* BinaryHistory.max, also the capacity of app
  MaxAdds,    \* bound: messages added
  MaxBoots,   \* bound: starts of the process
  MaxFails    \* bound: failing writes

NoFile == [v |-> "none", n |-> 0, items |-> <<>>]
Empty  == [v |-> "empty", n |-> 0, items |-> <<>>]    \* just created
Complete(f) == f.v \in {"v1", "v2"} /\ f.n = Len(f.items)

\* The messages of a stored file come first in the count.
ASSUME RecordsAssumption ==
  /\ \A f \in Stored : f # NoFile =>
       /\ f.n \in Nat
       /\ \E v \in {"v1", "v2"} : f = [v |-> v, n |-> f.n, items |-> [i \in 1..f.n |-> i]]
  /\ MaxMessages \in Nat \ {0}
  /\ {MaxAdds, MaxBoots, MaxFails} \subseteq Nat

Savers  == {"ticker", "signal"}
Closers == {"main", "channels"}

VARIABLES
  proc,           \* main: "off", "open", "items" (in Load), "up", "fail"
  file,           \* the store file, as far as it is written
  data, haveNew,  \* BinaryHistory
  sem,            \* who holds BinaryHistory.sem: "free", "load", "add" or a saver
  want,           \* the number of messages Load expects
  saver, spc,     \* who holds saveMutex and where it is: "lock", "write"
  sig,            \* the signal handler: "no", "caught", "saved"
  app, closed,    \* the channel app
  appending,
  pend,           \* the message an Add is sending on app, 0 if none
  log, wpc,       \* the append-only log of this start, and its writer
  cpc,            \* cpc[x]: where x is in StopAppend
  sent, boots, fails,
  good,           \* history: messages of the last complete store file
  spoilt          \* history: a save was cut short, or it ran during a Load

memVars  == <<data, haveNew, sem, want>>
saveVars == <<saver, spc, sig>>
appVars  == <<app, closed, appending, pend, log, wpc, cpc>>
vars == <<proc, file, memVars, saveVars, appVars, sent, boots, fails, good, spoilt>>

Alive == proc # "off"

Init ==
  /\ proc = "off"
  /\ file \in Stored
  /\ data = <<>> /\ haveNew = FALSE /\ sem = "free" /\ want = 0
  /\ saver = "none" /\ spc = "idle" /\ sig = "no"
  /\ app = <<>> /\ closed = FALSE /\ appending = FALSE /\ pend = 0
  /\ log = <<>> /\ wpc = "off" /\ cpc = [x \in Closers |-> "no"]
  /\ sent = Len(file.items) /\ boots = 0 /\ fails = 0
  /\ good = file.items /\ spoilt = FALSE

\* The process is gone; only the files are left.
Gone ==
  /\ proc' = "off"
  /\ data' = <<>> /\ haveNew' = FALSE /\ sem' = "free" /\ want' = 0
  /\ saver' = "none" /\ spc' = "idle" /\ sig' = "no"
  /\ app' = <<>> /\ closed' = FALSE /\ appending' = FALSE /\ pend' = 0
  /\ wpc' = "off" /\ cpc' = [x \in Closers |-> "no"]
  /\ spoilt' = (spoilt \/ saver # "none")
  /\ UNCHANGED <<file, log, sent, boots, fails, good>>

Crash == Alive /\ Gone

-----------------------------------------------------------------------------
(* Start *)

\* serve: a history with a fresh append-only file, the signal handler, Init.
Boot ==
  /\ proc = "off"
  /\ boots < MaxBoots
  /\ proc' = "open"
  /\ boots' = boots + 1
  /\ log' = <<>>
  /\ UNCHANGED <<file, memVars, saveVars, app, closed, appending, pend, wpc, cpc, sent, fails, good, spoilt>>

\* Mutant: the old format is not decoded any more.
DecodableNew(f) == f.v = "v2"

Decodable(f) == f.v \in {"v1", "v2"}

\* Load with no file has nothing to do; else it takes sem and reads the
\* header. Another version than the current one will have to be saved.
LoadHeader ==
  /\ proc = "open"
  /\ sem = "free"
  /\ IF file = NoFile
     THEN proc' = "up" /\ UNCHANGED memVars
     ELSE /\ proc' = IF Decodable(file) THEN "items" ELSE "fail"
          /\ sem' = IF Decodable(file) THEN "load" ELSE "free"
          /\ haveNew' = (haveNew \/ file.v # "v2")
          /\ want' = file.n
          /\ UNCHANGED data
  /\ UNCHANGED <<file, saveVars, appVars, sent, boots, fails, good, spoilt>>

LoadItem ==
  /\ proc = "items"
  /\ Len(data) < want
  /\ IF Len(file.items) > Len(data)
     THEN /\ data' = Append(data, file.items[Len(data) + 1])
          /\ UNCHANGED <<proc, sem>>
     ELSE /\ proc' = "fail"
          /\ sem' = "free"
          /\ UNCHANGED data
  /\ UNCHANGED <<file, haveNew, want, saveVars, appVars, sent, boots, fails, good, spoilt>>

LoadEnd ==
  /\ proc = "items"
  /\ Len(data) = want
  /\ proc' = "up"
  /\ sem' = "free"
  /\ UNCHANGED <<file, data, haveNew, want, saveVars, appVars, sent, boots, fails, good, spoilt>>

\* A failed Init ends serve and the process, whatever else is running.
Fail == proc = "fail" /\ Gone

-----------------------------------------------------------------------------
(* Server.Save by the ticker (started by Init) and by the signal handler *)

Signal ==
  /\ Alive
  /\ sig = "no"
  /\ sig' = "caught"
  /\ UNCHANGED <<proc, file, memVars, saver, spc, appVars, sent, boots, fails, good, spoilt>>

MaySave(s) ==
  /\ saver = "none"
  /\ IF s = "ticker" THEN proc = "up" ELSE sig = "caught"

AfterSave(s) == sig' = IF s = "signal" THEN "saved" ELSE sig

\* Nothing to save: the signal handler is through with it.
NothingNew ==
  /\ MaySave("signal")
  /\ ~haveNew
  /\ AfterSave("signal")
  /\ UNCHANGED <<proc, file, memVars, saver, spc, appVars, sent, boots, fails, good, spoilt>>

\* NeedsSave reads haveNew without sem; os.Create truncates the store file
\* before sem is taken.
Create(s) ==
  /\ Alive
  /\ MaySave(s)
  /\ haveNew
  /\ file' = Empty
  /\ saver' = s
  /\ spc' = "lock"
  /\ spoilt' = (spoilt \/ proc # "up")
  /\ UNCHANGED <<proc, memVars, sig, appVars, sent, boots, fails, good>>

\* The header is written under sem.
Lock(s) ==
  /\ saver = s
  /\ spc = "lock"
  /\ sem = "free"
  /\ sem' = s
  /\ file' = [v |-> "v2", n |-> Len(data), items |-> <<>>]
  /\ spc' = "write"
  /\ UNCHANGED <<proc, data, haveNew, want, saver, sig, appVars, sent, boots, fails, good, spoilt>>

Write(s) ==
  /\ saver = s
  /\ spc = "write"
  /\ Len(file.items) < Len(data)
  /\ file' = [file EXCEPT !.items = Append(@, data[Len(@) + 1])]
  /\ UNCHANGED <<proc, memVars, saveVars, appVars, sent, boots, fails, good, spoilt>>

SaveDone(s) ==
  /\ saver' = "none"
  /\ spc' = "idle"
  /\ sem' = "free"
  /\ AfterSave(s)

\* All written: the flag is cleared under sem.
Saved(s) ==
  /\ saver = s
  /\ spc = "write"
  /\ Len(file.items) = Len(data)
  /\ haveNew' = FALSE
  /\ good' = data
  /\ SaveDone(s)
  /\ UNCHANGED <<proc, file, data, want, appVars, sent, boots, fails, spoilt>>

\* Mutant: the error return leaves sem locked.
WriteFailsHolding(s) ==
  /\ saver = s
  /\ spc = "write"
  /\ Len(file.items) < Len(data)
  /\ fails < MaxFails
  /\ fails' = fails + 1
  /\ spoilt' = TRUE
  /\ saver' = "none"
  /\ spc' = "idle"
  /\ AfterSave(s)
  /\ UNCHANGED <<proc, file, memVars, appVars, sent, boots, good>>

\* A message cannot be written: Save returns the error, haveNew stays.
WriteFails(s) ==
  /\ saver = s
  /\ spc = "write"
  /\ Len(file.items) < Len(data)
  /\ fails < MaxFails
  /\ fails' = fails + 1
  /\ spoilt' = TRUE
  /\ SaveDone(s)
  /\ UNCHANGED <<proc, file, data, haveNew, want, appVars, sent, boots, good>>

-----------------------------------------------------------------------------
(* BinaryHistory.Add, by the handlers of connections *)

\* Mutant: trimmed from the wrong end.
Oldest(s) == IF Len(s) > MaxMessages THEN SubSeq(s, 1, MaxMessages) ELSE s

Newest(s) == IF Len(s) > MaxMessages THEN SubSeq(s, Len(s) - MaxMessages + 1, Len(s)) ELSE s

\* Under sem: append and trim; while appending, send on app before unlocking.
Add ==
  /\ proc = "up"
  /\ sem = "free"
  /\ sent < MaxAdds
  /\ sent' = sent + 1
  /\ haveNew' = TRUE
  /\ data' = Newest(Append(data, sent + 1))
  /\ IF appending THEN sem' = "add" /\ pend' = sent + 1 ELSE UNCHANGED <<sem, pend>>
  /\ UNCHANGED <<proc, file, want, saveVars, app, closed, appending, log, wpc, cpc, boots, fails, good, spoilt>>

\* Mutant: a full channel drops the message instead of blocking the Add.
AddSendOrDrop ==
  /\ pend # 0
  /\ ~closed
  /\ app' = IF Len(app) < MaxMessages THEN Append(app, pend) ELSE app
  /\ pend' = 0
  /\ sem' = "free"
  /\ UNCHANGED <<proc, file, data, haveNew, want, saveVars, closed, appending, log, wpc, cpc, sent, boots, fails, good, spoilt>>

\* Blocks, with sem held, while app is full.
AddSend ==
  /\ pend # 0
  /\ ~closed
  /\ Len(app) < MaxMessages
  /\ app' = Append(app, pend)
  /\ pend' = 0
  /\ sem' = "free"
  /\ UNCHANGED <<proc, file, data, haveNew, want, saveVars, closed, appending, log, wpc, cpc, sent, boots, fails, good, spoilt>>

AddPanics == pend # 0 /\ closed /\ Gone

-----------------------------------------------------------------------------
(* StartAppend, run by RunChannels, and StopAppend, by Server.Close *)

StartAppend ==
  /\ proc = "up"
  /\ wpc = "off"
  /\ appending' = TRUE
  /\ wpc' = "run"
  /\ UNCHANGED <<proc, file, memVars, saveVars, app, closed, pend, log, cpc, sent, boots, fails, good, spoilt>>

AppendOne ==
  /\ wpc = "run"
  /\ app # <<>>
  /\ log' = Append(log, Head(app))
  /\ app' = Tail(app)
  /\ UNCHANGED <<proc, file, memVars, saveVars, closed, appending, pend, wpc, cpc, sent, boots, fails, good, spoilt>>

\* An error ends StartAppend and reaches RunChannels, which calls Close.
AppendFails ==
  /\ wpc = "run"
  /\ app # <<>>
  /\ fails < MaxFails
  /\ fails' = fails + 1
  /\ app' = Tail(app)
  /\ wpc' = "error"
  /\ UNCHANGED <<proc, file, memVars, saveVars, closed, appending, pend, log, cpc, sent, boots, good, spoilt>>

AppendEnds ==
  /\ wpc = "run"
  /\ closed
  /\ app = <<>>
  /\ wpc' = "end"
  /\ UNCHANGED <<proc, file, memVars, saveVars, app, closed, appending, pend, log, cpc, sent, boots, fails, good, spoilt>>

\* Server.Close is due: after the signal, or a channel has failed.
Wanted(x) == IF x = "main" THEN proc = "up" /\ sig = "saved" ELSE wpc = "error"

\* StopAppend does nothing unless appending, which it reads without sem...
Stop(x) ==
  /\ cpc[x] = "no"
  /\ Wanted(x)
  /\ cpc' = [cpc EXCEPT ![x] = IF appending THEN "flag" ELSE "skip"]
  /\ UNCHANGED <<proc, file, memVars, saveVars, app, closed, appending, pend, log, wpc, sent, boots, fails, good, spoilt>>

StopFlag(x) ==
  /\ cpc[x] = "flag"
  /\ appending' = FALSE
  /\ cpc' = [cpc EXCEPT ![x] = "close"]
  /\ UNCHANGED <<proc, file, memVars, saveVars, app, closed, pend, log, wpc, sent, boots, fails, good, spoilt>>

\* ...closes app, once: a second close panics...
StopClose(x) ==
  /\ cpc[x] = "close"
  /\ ~closed
  /\ closed' = TRUE
  /\ cpc' = [cpc EXCEPT ![x] = "wait"]
  /\ UNCHANGED <<proc, file, memVars, saveVars, app, appending, pend, log, wpc, sent, boots, fails, good, spoilt>>

StopPanics(x) == cpc[x] = "close" /\ closed /\ Gone

\* ...and waits for the writer of the log to end.
StopWait(x) ==
  /\ cpc[x] = "wait"
  /\ wpc \in {"end", "error"}
  /\ cpc' = [cpc EXCEPT ![x] = "done"]
  /\ UNCHANGED <<proc, file, memVars, saveVars, app, closed, appending, pend, log, wpc, sent, boots, fails, good, spoilt>>

\* Close has returned to main after the signal: serve returns. Close called
\* by RunChannels changes nothing more: the process lives on.
Exit == cpc["main"] \in {"skip", "done"} /\ Gone

-----------------------------------------------------------------------------
LoadStep     == LoadHeader \/ LoadItem \/ LoadEnd \/ Fail
SaveStep(s)  == Create(s) \/ Lock(s) \/ Write(s) \/ Saved(s)
AddStep      == AddSend \/ AddPanics
AppendStep   == StartAppend \/ AppendOne \/ AppendEnds
CloseStep(x) == Stop(x) \/ StopFlag(x) \/ StopClose(x) \/ StopPanics(x) \/ StopWait(x)

\* The bound on starts is used up.
Terminating == proc = "off" /\ boots = MaxBoots /\ UNCHANGED vars

Next ==
  \/ Boot \/ Crash \/ Signal \/ NothingNew \/ Add \/ Exit \/ Terminating
  \/ LoadStep \/ AddStep \/ AppendStep \/ AppendFails
  \/ \E s \in Savers : SaveStep(s) \/ WriteFails(s)
  \/ \E x \in Closers : CloseStep(x)

Spec == Init /\ [][Next]_vars

\* The goroutines run; the ticker's saves recur every five seconds. Nobody
\* has to add, and neither signals, crashes nor errors have to happen.
Fairness ==
  /\ WF_vars(LoadStep) /\ WF_vars(AddStep) /\ WF_vars(AppendStep)
  /\ WF_vars(NothingNew) /\ WF_vars(Exit)
  /\ \A s \in Savers : WF_vars(SaveStep(s))
  /\ \A x \in Closers : WF_vars(CloseStep(x))

FairSpec == Spec /\ Fairness

-----------------------------------------------------------------------------
\* A running server whose haveNew flag is off has everything on disk, in the
\* current format: nothing added meanwhile is forgotten by the next save.
FlagTruth ==
  proc = "up" /\ ~haveNew /\ saver = "none" =>
    /\ file.items = data
    /\ file = NoFile \/ (Complete(file) /\ file.v = "v2")

\* The store file is whole except while it is being saved, unless the process
\* or a write failed during a save.
FileWhole == ~spoilt => file = NoFile \/ Complete(file) \/ saver # "none"

\* A start fails only after a save that was cut short or met a load.
StartFailsOnlySpoilt == proc = "fail" => spoilt

\* What was once saved, and what this start's log holds, is still there after
\* any number of restarts and adds, or MaxMessages newer messages are.
NeverForget ==
  ~spoilt /\ proc = "up" =>
    \A m \in Range(good) \cup Range(log) :
      \/ m \in Range(data)
      \/ Len(data) >= MaxMessages /\ \A d \in Range(data) : d > m

\* The append-only log, what waits for it and the Add that blocks on it are
\* the messages added since appending began, in order and with no gap.
LogGapless ==
  wpc # "error" =>
    LET all == log \o app \o (IF pend = 0 THEN <<>> ELSE <<pend>>)
    IN  \A i \in 1..(Len(all) - 1) : all[i + 1] = all[i] + 1

\* A stop that found the log being written ends after its last message.
LogDrained == cpc["main"] = "done" /\ wpc # "error" => app = <<>>

\* New messages get saved while the server lives.
NewGetsSaved == proc = "up" /\ haveNew ~> ~haveNew

\* No Add blocks for ever on the append-only log, even when writing that log
\* has failed: it goes on or dies with the process.
AddsEnd == pend # 0 ~> pend = 0

\* A server starts again from what it left: the store is whole between saves,
\* and only a save that was cut short, or met a load, makes a start fail.
StartsAgain == FileWhole /\ StartFailsOnlySpoilt

\* Nothing that was added is forgotten: it is on disk or marked as new, and
\* what was saved outlives restarts until newer messages take its place.
NothingForgotten == FlagTruth /\ NeverForget

\* The append-only log has every message in order, the last one included when
\* the server stops.
LogComplete == LogGapless /\ LogDrained

\* Adds and saves go on, whatever write has failed.
AddsAndSaves == NewGetsSaved /\ AddsEnd
=============================================================================
