---------------------------- MODULE RecordsProofs ----------------------------
(***************************************************************************)
(* StartsAgain, NothingForgotten and LogComplete of module Records, for    *)
(* any history and any number of messages, starts and failures; and        *)
(* ListsAccurate of module Presence, for any connections, channels and     *)
(* number of requests.                                                     *)
(***************************************************************************)
EXTENDS Records, Presence, SequenceTheorems, FiniteSetTheorems, TLAPS

FileOK == file \in [v : {"none", "empty", "v1", "v2"}, n : Nat, items : Seq(Nat)]

SeqsOK == data \in Seq(Nat) /\ good \in Seq(Nat) /\ app \in Seq(Nat) /\ log \in Seq(Nat)

FlagsOK ==
  haveNew \in BOOLEAN /\ closed \in BOOLEAN /\ appending \in BOOLEAN /\ spoilt \in BOOLEAN

PlacesOK ==
  /\ proc \in {"off", "open", "items", "up", "fail"}
  /\ sem \in {"free", "load", "add"} \cup Savers
  /\ saver \in {"none"} \cup Savers /\ spc \in {"idle", "lock", "write"}
  /\ sig \in {"no", "caught", "saved"}
  /\ wpc \in {"off", "run", "end", "error"}
  /\ cpc \in [Closers -> {"no", "flag", "skip", "close", "wait", "done"}]

NumsOK == {want, pend, sent, boots, fails} \subseteq Nat

TypeOK == FileOK /\ SeqsOK /\ FlagsOK /\ PlacesOK /\ NumsOK

\* Who holds sem, and what has not begun before the load has ended.
LockInv ==
  /\ saver = "none" <=> spc = "idle"
  /\ spc = "write" <=> sem \in Savers
  /\ spc = "write" => sem = saver
  /\ saver # "none" => haveNew
  /\ sem = "load" <=> proc = "items"
  /\ sem = "add" <=> pend # 0
  /\ proc \in {"off", "open"} => data = <<>> /\ ~haveNew
  /\ wpc = "off" => app = <<>> /\ pend = 0 /\ ~appending /\ ~closed
  /\ wpc = "off" /\ proc # "off" => log = <<>>
  /\ proc # "up" => wpc = "off"

\* The first k messages of s and t are the same.
Agree(s, t, k) == k <= Len(s) /\ k <= Len(t) /\ \A i \in 1..k : s[i] = t[i]

\* A save under way has written a beginning of the history.
SaveInv ==
  /\ Len(file.items) <= file.n
  /\ spc = "write" => /\ file.v = "v2" /\ file.n = Len(data)
                      /\ Agree(file.items, data, Len(file.items))

\* A load has read a beginning of the store file, or a save has cut that.
LoadInv ==
  proc = "items" =>
    \/ /\ saver = "none"
       /\ file.v \in {"v1", "v2"} /\ (~haveNew => file.v = "v2")
       /\ want = file.n
       /\ Agree(file.items, data, Len(data))
    \/ saver # "none" /\ spoilt /\ file.items = <<>>

\* The store file holds what was last saved.
GoodInv == ~spoilt /\ saver = "none" => good = file.items

Increasing(s) == \A i, j \in 1..Len(s) : i < j => s[i] < s[j]
UpTo(s, n)    == \A i \in 1..Len(s) : s[i] <= n

\* The history is in the order of Add, wherever it is.
OrderInv ==
  /\ Increasing(data) /\ Increasing(file.items)
  /\ UpTo(data, sent) /\ UpTo(file.items, sent) /\ UpTo(good, sent)

SentInv == UpTo(log, sent) /\ UpTo(app, sent) /\ pend <= sent

\* Message m is in the history, or has made place for newer ones.
Kept(m) ==
  \/ \E i \in 1..Len(data) : data[i] = m
  \/ Len(data) >= MaxMessages /\ \A i \in 1..Len(data) : data[i] > m

KeepInv ==
  ~spoilt /\ proc = "up" =>
    /\ \A i \in 1..Len(good) : Kept(good[i])
    /\ \A i \in 1..Len(log) : Kept(log[i])
    /\ \A i \in 1..Len(app) : Kept(app[i])
    /\ pend # 0 => Kept(pend)

\* The log, app and the blocked Add count on from one number; while messages
\* are appended that count ends at the last one added.
CountsFrom(b) ==
  /\ \A i \in 1..Len(log) : log[i] = b + i
  /\ wpc # "error" =>
       /\ \A i \in 1..Len(app) : app[i] = b + Len(log) + i
       /\ pend # 0 => pend = b + Len(log) + Len(app) + 1
       /\ appending => sent = b + Len(log) + Len(app) + (IF pend = 0 THEN 0 ELSE 1)

LogInv == \E b \in 0..sent : CountsFrom(b)

\* The channel is closed after the flag has gone, and the writer ends with
\* nothing left on it.
StopInv ==
  /\ \A x \in Closers : cpc[x] \in {"close", "wait", "done"} => ~appending /\ wpc # "off"
  /\ \A x \in Closers : cpc[x] = "flag" => wpc # "off"
  /\ \A x \in Closers : cpc[x] = "done" => wpc \in {"end", "error"}
  /\ closed => ~appending /\ wpc # "off"
  /\ wpc = "end" => closed /\ app = <<>>

StoreInv == TypeOK /\ LockInv /\ SaveInv /\ LoadInv /\ GoodInv /\ StartsAgain /\ FlagTruth
HistInv  == OrderInv /\ SentInv /\ KeepInv
AppInv   == LogInv /\ StopInv
IInv     == StoreInv /\ HistInv /\ AppInv

-----------------------------------------------------------------------------
\* Newest keeps the last messages.
LEMMA NewestIs ==
  ASSUME NEW s \in Seq(Nat)
  PROVE  /\ Newest(s) \in Seq(Nat)
         /\ Len(Newest(s)) = IF Len(s) > MaxMessages THEN MaxMessages ELSE Len(s)
         /\ \A i \in 1..Len(Newest(s)) : Newest(s)[i] = s[i + Len(s) - Len(Newest(s))]
<1>1. CASE Len(s) > MaxMessages
  <2>1. MaxMessages \in Nat \ {0} /\ Len(s) \in Nat
    BY RecordsAssumption
  <2>2. \A i \in Len(s) - MaxMessages + 1..Len(s) : s[i] \in Nat
    BY <1>1, <2>1, ElementOfSeq
  <2>3. /\ SubSeq(s, Len(s) - MaxMessages + 1, Len(s)) \in Seq(Nat)
        /\ Len(SubSeq(s, Len(s) - MaxMessages + 1, Len(s))) = MaxMessages
        /\ \A i \in 1..MaxMessages :
              SubSeq(s, Len(s) - MaxMessages + 1, Len(s))[i] = s[Len(s) - MaxMessages + i]
    BY <1>1, <2>1, <2>2, SubSeqProperties
  <2> QED BY <1>1, <2>1, <2>3 DEF Newest
<1>2. CASE ~(Len(s) > MaxMessages)
  BY <1>2, RecordsAssumption DEF Newest
<1> QED BY <1>1, <1>2

\* A beginning of t with the next message of t is one too.
LEMMA AgreeAppend ==
  ASSUME NEW s \in Seq(Nat), NEW t \in Seq(Nat), Len(s) < Len(t), Agree(s, t, Len(s))
  PROVE  /\ Append(s, t[Len(s) + 1]) \in Seq(Nat)
         /\ Len(Append(s, t[Len(s) + 1])) = Len(s) + 1
         /\ Agree(Append(s, t[Len(s) + 1]), t, Len(s) + 1)
         /\ Agree(t, Append(s, t[Len(s) + 1]), Len(s) + 1)
<1>1. Len(s) \in Nat /\ Len(t) \in Nat
  OBVIOUS
<1>2. t[Len(s) + 1] \in Nat
  BY <1>1, ElementOfSeq
<1>3. /\ Append(s, t[Len(s) + 1]) \in Seq(Nat)
      /\ Len(Append(s, t[Len(s) + 1])) = Len(s) + 1
      /\ \A i \in 1..Len(s) : Append(s, t[Len(s) + 1])[i] = s[i]
      /\ Append(s, t[Len(s) + 1])[Len(s) + 1] = t[Len(s) + 1]
  BY <1>2, AppendProperties
<1>4. \A i \in 1..Len(s) + 1 : Append(s, t[Len(s) + 1])[i] = t[i]
  BY <1>1, <1>3 DEF Agree
<1> QED BY <1>1, <1>3, <1>4 DEF Agree

\* Sequences that agree in full are the same.
LEMMA AgreeAll ==
  ASSUME NEW s \in Seq(Nat), NEW t \in Seq(Nat), Len(s) = Len(t), Agree(s, t, Len(s))
  PROVE  s = t
BY SeqEqual DEF Agree

-----------------------------------------------------------------------------
(* Which steps touch what.                                                 *)

StoreStill == UNCHANGED <<proc, file, memVars, saver, spc, sent, good, spoilt>>

\* The steps that touch the history, the store file or their locks.
LEMMA StoreCases ==
  ASSUME Next
  PROVE  \/ StoreStill
         \/ Boot \/ Gone \/ Add \/ AddSend \/ LoadHeader \/ LoadItem \/ LoadEnd
         \/ \E s \in Savers : Create(s) \/ Lock(s) \/ Write(s) \/ Saved(s) \/ WriteFails(s)
<1> USE DEF StoreStill, memVars, saveVars, appVars
<1>1. Signal \/ NothingNew \/ Terminating => StoreStill
  BY DEF Signal, NothingNew, Terminating, vars
<1>2. StartAppend \/ AppendOne \/ AppendEnds \/ AppendFails => StoreStill
  BY DEF StartAppend, AppendOne, AppendEnds, AppendFails
<1>3. \A x : Stop(x) \/ StopFlag(x) \/ StopClose(x) \/ StopWait(x) => StoreStill
  BY DEF Stop, StopFlag, StopClose, StopWait
<1>4. Crash \/ Fail \/ AddPanics \/ Exit \/ (\E x : StopPanics(x)) => Gone
  BY DEF Crash, Fail, AddPanics, Exit, StopPanics
<1> QED
  BY <1>1, <1>2, <1>3, <1>4 DEF Next, LoadStep, SaveStep, AddStep, AppendStep, CloseStep

LogStill == UNCHANGED <<proc, app, closed, appending, pend, log, wpc, sent>>

\* The steps that touch the append-only log, or what is on its way to it.
LEMMA LogCases ==
  ASSUME Next
  PROVE  \/ LogStill
         \/ Boot \/ Gone \/ Add \/ AddSend \/ LoadHeader \/ LoadItem \/ LoadEnd
         \/ StartAppend \/ AppendOne \/ AppendEnds \/ AppendFails
         \/ \E x \in Closers : StopFlag(x) \/ StopClose(x)
<1> USE DEF LogStill, memVars, saveVars, appVars
<1>1. Signal \/ NothingNew \/ Terminating => LogStill
  BY DEF Signal, NothingNew, Terminating, vars
<1>2. \A s : Create(s) \/ Lock(s) \/ Write(s) \/ Saved(s) \/ WriteFails(s) => LogStill
  BY DEF Create, Lock, Write, Saved, WriteFails
<1>3. \A x : Stop(x) \/ StopWait(x) => LogStill
  BY DEF Stop, StopWait
<1>4. Crash \/ Fail \/ AddPanics \/ Exit \/ (\E x : StopPanics(x)) => Gone
  BY DEF Crash, Fail, AddPanics, Exit, StopPanics
<1> QED
  BY <1>1, <1>2, <1>3, <1>4 DEF Next, LoadStep, SaveStep, AddStep, AppendStep, CloseStep

-----------------------------------------------------------------------------
(* Types.                                                                  *)

LEMMA FileTypes ==
  ASSUME TypeOK, Next
  PROVE  FileOK'
<1> USE DEF TypeOK, FileOK, SeqsOK
<1>1. ASSUME NEW s \in Savers, Create(s)  PROVE FileOK'
  BY <1>1, EmptySeq DEF Create, Empty
<1>2. ASSUME NEW s \in Savers, Lock(s)  PROVE FileOK'
  <2>1. Len(data) \in Nat /\ file' = [v |-> "v2", n |-> Len(data), items |-> <<>>]
    BY <1>2 DEF Lock
  <2> QED BY <2>1, EmptySeq
<1>3. ASSUME NEW s \in Savers, Write(s)  PROVE FileOK'
  <2>1. /\ Len(file.items) \in Nat /\ Len(data) \in Nat /\ Len(file.items) < Len(data)
        /\ file' = [file EXCEPT !.items = Append(@, data[Len(@) + 1])]
    BY <1>3 DEF Write
  <2>2. data[Len(file.items) + 1] \in Nat
    BY <2>1, ElementOfSeq
  <2>3. Append(file.items, data[Len(file.items) + 1]) \in Seq(Nat)
    BY <2>2
  <2> QED BY <2>1, <2>3
<1>4. CASE UNCHANGED file
  BY <1>4
<1>5. (\E s \in Savers : Create(s) \/ Lock(s) \/ Write(s)) \/ UNCHANGED file
  BY StoreCases DEF StoreStill, Boot, Gone, Add, AddSend, LoadHeader, LoadItem, LoadEnd, Saved,
       WriteFails
<1> QED BY <1>1, <1>2, <1>3, <1>4, <1>5

LEMMA SeqTypes ==
  ASSUME TypeOK, Next
  PROVE  SeqsOK'
<1> USE DEF TypeOK, SeqsOK, memVars
<1>1. data' \in Seq(Nat)
  <2>1. CASE Add
    <3>1. sent + 1 \in Nat /\ data' = Newest(Append(data, sent + 1))
      BY <2>1 DEF Add, NumsOK
    <3>2. Append(data, sent + 1) \in Seq(Nat)
      BY <3>1
    <3> QED BY <3>1, <3>2, NewestIs
  <2>2. CASE LoadItem
    <3>1. CASE Len(file.items) > Len(data)
      <4>1. data' = Append(data, file.items[Len(data) + 1])
        BY <2>2, <3>1 DEF LoadItem
      <4>2. file.items[Len(data) + 1] \in Nat
        BY <3>1, ElementOfSeq DEF FileOK
      <4> QED BY <4>1, <4>2
    <3> QED BY <2>2, <3>1 DEF LoadItem
  <2>3. CASE Gone
    BY <2>3, EmptySeq DEF Gone
  <2>4. CASE UNCHANGED data
    BY <2>4
  <2>5. Add \/ LoadItem \/ Gone \/ UNCHANGED data
    BY StoreCases DEF StoreStill, Boot, AddSend, LoadHeader, LoadEnd, Create, Lock, Write, Saved,
         WriteFails
  <2> QED BY <2>1, <2>2, <2>3, <2>4, <2>5
<1>2. good' \in Seq(Nat)
  BY StoreCases DEF StoreStill, Boot, Gone, Add, AddSend, LoadHeader, LoadItem, LoadEnd, Create,
       Lock, Write, Saved, WriteFails
<1>3. app' \in Seq(Nat)
  <2>1. CASE AddSend
    BY <2>1 DEF AddSend, NumsOK
  <2>2. CASE AppendOne \/ AppendFails
    BY <2>2, HeadTailProperties DEF AppendOne, AppendFails
  <2>3. CASE Gone
    BY <2>3, EmptySeq DEF Gone
  <2>4. AddSend \/ AppendOne \/ AppendFails \/ Gone \/ UNCHANGED app
    BY LogCases DEF LogStill, appVars, Boot, Add, LoadHeader, LoadItem, LoadEnd, StartAppend,
         AppendEnds, StopFlag, StopClose
  <2> QED BY <2>1, <2>2, <2>3, <2>4
<1>4. log' \in Seq(Nat)
  <2>1. CASE AppendOne
    BY <2>1, HeadTailProperties DEF AppendOne
  <2>2. CASE Boot
    BY <2>2, EmptySeq DEF Boot
  <2>3. AppendOne \/ Boot \/ UNCHANGED log
    BY LogCases DEF LogStill, appVars, Gone, Add, AddSend, LoadHeader, LoadItem, LoadEnd,
         StartAppend, AppendEnds, AppendFails, StopFlag, StopClose
  <2> QED BY <2>1, <2>2, <2>3
<1> QED BY <1>1, <1>2, <1>3, <1>4

LEMMA FlagTypes ==
  ASSUME TypeOK, Next
  PROVE  FlagsOK'
<1> USE DEF TypeOK, FlagsOK, memVars, saveVars, appVars
<1>1. haveNew' \in BOOLEAN /\ spoilt' \in BOOLEAN
  BY StoreCases DEF StoreStill, Boot, Gone, Add, AddSend, LoadHeader, LoadItem, LoadEnd, Create,
       Lock, Write,
     Saved, WriteFails
<1>2. closed' \in BOOLEAN /\ appending' \in BOOLEAN
  BY LogCases DEF LogStill, Boot, Gone, Add, AddSend, LoadHeader, LoadItem, LoadEnd, StartAppend,
       AppendOne,
     AppendEnds, AppendFails, StopFlag, StopClose
<1> QED BY <1>1, <1>2

LEMMA PlaceTypes ==
  ASSUME TypeOK, Next
  PROVE  PlacesOK'
<1> USE DEF TypeOK, PlacesOK, memVars, saveVars, appVars
<1>1. /\ proc' \in {"off", "open", "items", "up", "fail"}
      /\ sem' \in {"free", "load", "add"} \cup Savers
      /\ saver' \in {"none"} \cup Savers /\ spc' \in {"idle", "lock", "write"}
  BY StoreCases DEF StoreStill, Boot, Gone, Add, AddSend, LoadHeader, LoadItem, LoadEnd, Create,
       Lock, Write,
     Saved, WriteFails, SaveDone
<1>2. wpc' \in {"off", "run", "end", "error"}
  BY LogCases DEF LogStill, Boot, Gone, Add, AddSend, LoadHeader, LoadItem, LoadEnd, StartAppend,
       AppendOne,
     AppendEnds, AppendFails, StopFlag, StopClose
<1>3. sig' \in {"no", "caught", "saved"} /\ cpc' \in [Closers -> {"no", "flag", "skip", "close", "wait", "done"}]
  <2> DEFINE P == sig' \in {"no", "caught", "saved"}
                  /\ cpc' \in [Closers -> {"no", "flag", "skip", "close", "wait", "done"}]
  <2>1. Boot \/ Signal \/ NothingNew \/ Add \/ AddSend \/ LoadHeader \/ LoadItem \/ LoadEnd \/ Gone \/ Terminating => P
    BY DEF Boot, Signal, NothingNew, AfterSave, Add, AddSend, LoadHeader, LoadItem, LoadEnd,
         Gone, Terminating, vars
  <2>2. StartAppend \/ AppendOne \/ AppendEnds \/ AppendFails => P
    BY DEF StartAppend, AppendOne, AppendEnds, AppendFails
  <2>3. \A s \in Savers : Create(s) \/ Lock(s) \/ Write(s) \/ Saved(s) \/ WriteFails(s) => P
    BY DEF Create, Lock, Write, Saved, WriteFails, SaveDone, AfterSave
  <2>4. \A x \in Closers : Stop(x) \/ StopFlag(x) \/ StopClose(x) \/ StopWait(x) => P
    BY DEF Stop, StopFlag, StopClose, StopWait
  <2>5. Crash \/ Fail \/ AddPanics \/ Exit \/ (\E x : StopPanics(x)) => Gone
    BY DEF Crash, Fail, AddPanics, Exit, StopPanics
  <2> QED
    BY <2>1, <2>2, <2>3, <2>4, <2>5 DEF Next, LoadStep, SaveStep, AddStep, AppendStep, CloseStep
<1> QED BY <1>1, <1>2, <1>3

LEMMA NumTypes ==
  ASSUME TypeOK, Next
  PROVE  NumsOK'
<1> USE DEF TypeOK, NumsOK, FileOK, memVars, saveVars, appVars
<1>1. Boot \/ Signal \/ NothingNew \/ Add \/ AddSend \/ LoadHeader \/ LoadItem \/ LoadEnd \/ Gone \/ Terminating => NumsOK'
  BY DEF Boot, Signal, NothingNew, Add, AddSend, LoadHeader, LoadItem, LoadEnd, Gone,
       Terminating, vars
<1>2. StartAppend \/ AppendOne \/ AppendEnds \/ AppendFails => NumsOK'
  BY DEF StartAppend, AppendOne, AppendEnds, AppendFails
<1>3. \A s \in Savers : Create(s) \/ Lock(s) \/ Write(s) \/ Saved(s) \/ WriteFails(s) => NumsOK'
  BY DEF Create, Lock, Write, Saved, WriteFails
<1>4. \A x \in Closers : Stop(x) \/ StopFlag(x) \/ StopClose(x) \/ StopWait(x) => NumsOK'
  BY DEF Stop, StopFlag, StopClose, StopWait
<1>5. Crash \/ Fail \/ AddPanics \/ Exit \/ (\E x : StopPanics(x)) => Gone
  BY DEF Crash, Fail, AddPanics, Exit, StopPanics
<1> QED
  BY <1>1, <1>2, <1>3, <1>4, <1>5 DEF Next, LoadStep, SaveStep, AddStep, AppendStep, CloseStep

LEMMA TypeStep ==
  ASSUME TypeOK, [Next]_vars
  PROVE  TypeOK'
<1>1. CASE Next
  BY <1>1, FileTypes, SeqTypes, FlagTypes, PlaceTypes, NumTypes DEF TypeOK
<1>2. CASE UNCHANGED vars
  BY <1>2 DEF vars, memVars, saveVars, appVars, TypeOK, FileOK, SeqsOK, FlagsOK, PlacesOK, NumsOK
<1> QED BY <1>1, <1>2

-----------------------------------------------------------------------------
(* The locks and the course of a start.                                  *)

\* Nothing is held twice, and nothing runs before the load has ended.
LEMMA LockStep ==
  ASSUME TypeOK, LockInv, StopInv, Next
  PROVE  LockInv'
<1> USE DEF TypeOK, FlagsOK, PlacesOK, NumsOK, LockInv, Savers, Closers, MaySave, SaveDone,
     memVars, saveVars, appVars
<1>1. CASE Boot
  BY EmptySeq, <1>1 DEF Boot
<1>2. CASE Signal
  BY EmptySeq, <1>2 DEF Signal
<1>3. CASE NothingNew
  BY EmptySeq, <1>3 DEF NothingNew
<1>4. CASE Add
  BY EmptySeq, <1>4 DEF Add
<1>5. CASE LoadHeader
  BY EmptySeq, <1>5 DEF LoadHeader
<1>6. CASE LoadItem
  BY EmptySeq, <1>6 DEF LoadItem
<1>7. CASE LoadEnd
  BY EmptySeq, <1>7 DEF LoadEnd
<1>8. CASE AddSend
  BY EmptySeq, <1>8 DEF AddSend
<1>9. CASE StartAppend
  BY EmptySeq, <1>9 DEF StartAppend
<1>10. CASE AppendOne
  BY EmptySeq, <1>10 DEF AppendOne
<1>11. CASE AppendEnds
  BY EmptySeq, <1>11 DEF AppendEnds
<1>12. CASE AppendFails
  BY EmptySeq, <1>12 DEF AppendFails
<1>13. ASSUME NEW s \in Savers, Create(s)  PROVE LockInv'
  BY EmptySeq, <1>13 DEF Create
<1>14. ASSUME NEW s \in Savers, Lock(s)  PROVE LockInv'
  BY EmptySeq, <1>14 DEF Lock
<1>15. ASSUME NEW s \in Savers, Write(s)  PROVE LockInv'
  BY EmptySeq, <1>15 DEF Write
<1>16. ASSUME NEW s \in Savers, Saved(s)  PROVE LockInv'
  BY EmptySeq, <1>16 DEF Saved
<1>17. ASSUME NEW s \in Savers, WriteFails(s)  PROVE LockInv'
  BY EmptySeq, <1>17 DEF WriteFails
<1>18. ASSUME NEW x \in Closers, Stop(x)  PROVE LockInv'
  BY EmptySeq, <1>18 DEF Stop
<1>19. ASSUME NEW x \in Closers, StopFlag(x)  PROVE LockInv'
  BY EmptySeq, <1>19 DEF StopFlag
<1>20. ASSUME NEW x \in Closers, StopClose(x)  PROVE LockInv'
  BY <1>20 DEF StopClose, StopInv
<1>21. ASSUME NEW x \in Closers, StopWait(x)  PROVE LockInv'
  BY EmptySeq, <1>21 DEF StopWait
<1>22. CASE Gone
  BY EmptySeq, <1>22 DEF Gone
<1>23. CASE Terminating
  BY EmptySeq, <1>23 DEF Terminating, vars, memVars, saveVars, appVars
<1> QED
  BY <1>1, <1>2, <1>3, <1>4, <1>5, <1>6, <1>7, <1>8, <1>9, <1>10, <1>11, <1>12, <1>13, <1>14,
       <1>15, <1>16, <1>17, <1>18, <1>19, <1>20, <1>21, <1>22, <1>23
     DEF Next, LoadStep, SaveStep, AddStep, AppendStep, CloseStep, Crash, Fail, AddPanics,
     StopPanics, Exit

\* The channel is closed once appending has ended, and for good.
LEMMA StopStep ==
  ASSUME TypeOK, LockInv, StopInv, Next
  PROVE  StopInv'
<1> USE DEF TypeOK, FlagsOK, PlacesOK, LockInv, StopInv, Closers, memVars, saveVars, appVars
<1>1. CASE Boot
  BY <1>1 DEF Boot
<1>2. CASE Signal
  BY <1>2 DEF Signal
<1>3. CASE NothingNew
  BY <1>3 DEF NothingNew
<1>4. CASE Add
  BY <1>4 DEF Add
<1>5. CASE LoadHeader
  BY <1>5 DEF LoadHeader
<1>6. CASE LoadItem
  BY <1>6 DEF LoadItem
<1>7. CASE LoadEnd
  BY <1>7 DEF LoadEnd
<1>8. CASE AddSend
  BY <1>8 DEF AddSend
<1>9. CASE StartAppend
  BY <1>9 DEF StartAppend
<1>10. CASE AppendOne
  BY <1>10 DEF AppendOne
<1>11. CASE AppendEnds
  BY <1>11 DEF AppendEnds
<1>12. CASE AppendFails
  BY <1>12 DEF AppendFails
<1>13. ASSUME NEW s \in Savers, Create(s)  PROVE StopInv'
  BY <1>13 DEF Create
<1>14. ASSUME NEW s \in Savers, Lock(s)  PROVE StopInv'
  BY <1>14 DEF Lock
<1>15. ASSUME NEW s \in Savers, Write(s)  PROVE StopInv'
  BY <1>15 DEF Write
<1>16. ASSUME NEW s \in Savers, Saved(s)  PROVE StopInv'
  BY <1>16 DEF Saved
<1>17. ASSUME NEW s \in Savers, WriteFails(s)  PROVE StopInv'
  BY <1>17 DEF WriteFails
<1>18. ASSUME NEW x \in Closers, Stop(x)  PROVE StopInv'
  BY <1>18 DEF Stop
<1>19. ASSUME NEW x \in Closers, StopFlag(x)  PROVE StopInv'
  BY <1>19 DEF StopFlag
<1>20. ASSUME NEW x \in Closers, StopClose(x)  PROVE StopInv'
  BY <1>20 DEF StopClose
<1>21. ASSUME NEW x \in Closers, StopWait(x)  PROVE StopInv'
  BY <1>21 DEF StopWait
<1>22. CASE Gone
  BY <1>22 DEF Gone
<1>23. CASE Terminating
  BY <1>23 DEF Terminating, vars, memVars, saveVars, appVars
<1> QED
  BY <1>1, <1>2, <1>3, <1>4, <1>5, <1>6, <1>7, <1>8, <1>9, <1>10, <1>11, <1>12, <1>13, <1>14,
       <1>15, <1>16, <1>17, <1>18, <1>19, <1>20, <1>21, <1>22, <1>23
     DEF Next, LoadStep, SaveStep, AddStep, AppendStep, CloseStep, Crash, Fail, AddPanics,
     StopPanics, Exit

\* What a save has written stays the beginning of what it is to write.
LEMMA SaveKept ==
  ASSUME TypeOK, LockInv, SaveInv, Next
  PROVE  SaveInv'
<1> USE DEF TypeOK, FlagsOK, PlacesOK, LockInv, Savers, SaveDone, memVars, saveVars, appVars,
     SaveInv, Empty
<1>1. CASE StoreStill
  BY <1>1 DEF StoreStill
<1>2. CASE Boot
  BY <1>2 DEF Boot
<1>3. CASE Gone
  BY <1>3 DEF Gone
<1>4. CASE Add
  BY <1>4 DEF Add
<1>5. CASE AddSend
  BY <1>5 DEF AddSend
<1>6. CASE LoadHeader
  BY <1>6 DEF LoadHeader
<1>7. CASE LoadItem
  BY <1>7 DEF LoadItem, FileOK
<1>8. CASE LoadEnd
  BY <1>8 DEF LoadEnd
<1>9. ASSUME NEW s \in Savers, Create(s)  PROVE SaveInv'
  BY <1>9 DEF Create
<1>10. ASSUME NEW s \in Savers, Lock(s)  PROVE SaveInv'
  BY <1>10 DEF Lock, Agree, SeqsOK
<1>11. ASSUME NEW s \in Savers, Write(s)  PROVE SaveInv'
  <2>1. /\ Len(file.items) < Len(data) /\ spc = "write" /\ spc' = "write" /\ data' = data
        /\ file' = [file EXCEPT !.items = Append(@, data[Len(@) + 1])]
    BY <1>11 DEF Write
  <2>2. file.v = "v2" /\ file.n = Len(data) /\ Agree(file.items, data, Len(file.items))
    BY <2>1
  <2>3. file'.v = file.v /\ file'.n = file.n /\ file'.items = Append(file.items, data[Len(file.items) + 1])
    <3>1. DOMAIN file = {"v", "n", "items"}
      BY DEF FileOK
    <3> QED BY <2>1, <3>1
  <2>4. Len(file.items) \in Nat /\ Len(data) \in Nat
    BY DEF FileOK, SeqsOK
  <2>5. Len(file'.items) = Len(file.items) + 1 /\ Agree(file'.items, data, Len(file.items) + 1)
    BY <2>1, <2>2, <2>3, AgreeAppend DEF FileOK, SeqsOK
  <2> QED BY <2>1, <2>2, <2>3, <2>4, <2>5 DEF SaveInv
<1>12. ASSUME NEW s \in Savers, Saved(s)  PROVE SaveInv'
  BY <1>12 DEF Saved
<1>13. ASSUME NEW s \in Savers, WriteFails(s)  PROVE SaveInv'
  BY <1>13 DEF WriteFails
<1> QED BY StoreCases, <1>1, <1>2, <1>3, <1>4, <1>5, <1>6, <1>7, <1>8, <1>9, <1>10, <1>11, <1>12,
     <1>13

\* What a load has read stays the beginning of what it is to read.
LEMMA LoadKept ==
  ASSUME TypeOK, LockInv, SaveInv, LoadInv, Next
  PROVE  LoadInv'
<1> USE DEF TypeOK, FileOK, SeqsOK, FlagsOK, PlacesOK, NumsOK, LockInv, Savers, SaveDone,
     memVars, saveVars, appVars, SaveInv, LoadInv, Empty, Decodable, MaySave
<1>1. CASE StoreStill
  BY <1>1 DEF StoreStill
<1>2. CASE Boot
  BY <1>2 DEF Boot
<1>3. CASE Gone
  BY <1>3 DEF Gone
<1>4. CASE Add
  BY <1>4 DEF Add
<1>5. CASE AddSend
  BY <1>5 DEF AddSend
<1>6. CASE LoadHeader
  <2>1. data = <<>> /\ data' = <<>> /\ saver = "none" /\ saver' = "none" /\ UNCHANGED file
    BY <1>6 DEF LoadHeader
  <2>2. ASSUME proc' = "items"
        PROVE  want' = file.n /\ file.v \in {"v1", "v2"} /\ (~haveNew' => file.v = "v2")
    BY <1>6, <2>2 DEF LoadHeader
  <2>3. Agree(file.items, <<>>, Len(<<>>))
    BY DEF Agree
  <2> QED BY <2>1, <2>2, <2>3
<1>7. CASE LoadItem
  <2>0. CASE saver # "none"
    BY <1>7, <2>0 DEF LoadItem
  <2> SUFFICES ASSUME proc' = "items", saver = "none"
               PROVE  /\ file.v \in {"v1", "v2"} /\ (~haveNew => file.v = "v2")
                      /\ want = file.n /\ Agree(file.items, data', Len(data'))
    BY <1>7, <2>0 DEF LoadItem
  <2>1. /\ saver = "none" /\ file.v \in {"v1", "v2"} /\ (~haveNew => file.v = "v2") /\ want = file.n
        /\ Agree(data, file.items, Len(data))
    BY <1>7 DEF LoadItem, LoadInv, Agree
  <2>2. Len(data) < Len(file.items) /\ data' = Append(data, file.items[Len(data) + 1])
    BY <1>7 DEF LoadItem, FileOK, SeqsOK
  <2>3. Len(data') = Len(data) + 1 /\ Agree(file.items, data', Len(data) + 1)
    BY <2>1, <2>2, AgreeAppend DEF FileOK, SeqsOK
  <2> QED BY <2>1, <2>3
<1>8. CASE LoadEnd
  BY <1>8 DEF LoadEnd
<1>9. ASSUME NEW s \in Savers, Create(s)  PROVE LoadInv'
  BY <1>9 DEF Create
<1>10. ASSUME NEW s \in Savers, Lock(s)  PROVE LoadInv'
  BY <1>10 DEF Lock
<1>11. ASSUME NEW s \in Savers, Write(s)  PROVE LoadInv'
  BY <1>11 DEF Write
<1>12. ASSUME NEW s \in Savers, Saved(s)  PROVE LoadInv'
  BY <1>12 DEF Saved
<1>13. ASSUME NEW s \in Savers, WriteFails(s)  PROVE LoadInv'
  BY <1>13 DEF WriteFails
<1> QED BY StoreCases, <1>1, <1>2, <1>3, <1>4, <1>5, <1>6, <1>7, <1>8, <1>9, <1>10, <1>11, <1>12,
     <1>13

\* The store file holds the last save.
LEMMA GoodKept ==
  ASSUME TypeOK, LockInv, SaveInv, GoodInv, Next
  PROVE  GoodInv'
<1> USE DEF TypeOK, FileOK, SeqsOK, FlagsOK, PlacesOK, NumsOK, LockInv, Savers, SaveDone,
     memVars, saveVars, appVars, SaveInv, GoodInv, Empty
<1>1. CASE StoreStill
  BY <1>1 DEF StoreStill
<1>2. CASE Boot
  BY <1>2 DEF Boot
<1>3. CASE Gone
  BY <1>3 DEF Gone
<1>4. CASE Add
  BY <1>4 DEF Add
<1>5. CASE AddSend
  BY <1>5 DEF AddSend
<1>6. CASE LoadHeader
  BY <1>6 DEF LoadHeader
<1>7. CASE LoadItem
  BY <1>7 DEF LoadItem
<1>8. CASE LoadEnd
  BY <1>8 DEF LoadEnd
<1>9. ASSUME NEW s \in Savers, Create(s)  PROVE GoodInv'
  BY <1>9 DEF Create
<1>10. ASSUME NEW s \in Savers, Lock(s)  PROVE GoodInv'
  BY <1>10 DEF Lock
<1>11. ASSUME NEW s \in Savers, Write(s)  PROVE GoodInv'
  BY <1>11 DEF Write
<1>12. ASSUME NEW s \in Savers, Saved(s)  PROVE GoodInv'
  <2>1. file.items = data /\ file.v = "v2" /\ file.n = Len(data)
    BY <1>12, AgreeAll DEF Saved
  <2> QED BY <1>12, <2>1 DEF Saved
<1>13. ASSUME NEW s \in Savers, WriteFails(s)  PROVE GoodInv'
  BY <1>13 DEF WriteFails
<1> QED BY StoreCases, <1>1, <1>2, <1>3, <1>4, <1>5, <1>6, <1>7, <1>8, <1>9, <1>10, <1>11, <1>12,
     <1>13

\* It is whole, unless a save is under way or was cut short.
LEMMA WholeKept ==
  ASSUME TypeOK, LockInv, SaveInv, LoadInv, StartsAgain, Next
  PROVE  StartsAgain'
<1> USE DEF TypeOK, FileOK, SeqsOK, FlagsOK, PlacesOK, NumsOK, LockInv, Savers, SaveDone,
     memVars, saveVars, appVars, SaveInv, LoadInv, StartsAgain, FileWhole, StartFailsOnlySpoilt, Complete, Empty, NoFile, Decodable, Agree
<1>1. CASE StoreStill
  BY <1>1 DEF StoreStill
<1>2. CASE Boot
  BY <1>2 DEF Boot
<1>3. CASE Gone
  BY <1>3 DEF Gone
<1>4. CASE Add
  BY <1>4 DEF Add
<1>5. CASE AddSend
  BY <1>5 DEF AddSend
<1>6. CASE LoadHeader
  BY <1>6 DEF LoadHeader
<1>7. CASE LoadItem
  BY <1>7 DEF LoadItem
<1>8. CASE LoadEnd
  BY <1>8 DEF LoadEnd
<1>9. ASSUME NEW s \in Savers, Create(s)  PROVE StartsAgain'
  BY <1>9 DEF Create
<1>10. ASSUME NEW s \in Savers, Lock(s)  PROVE StartsAgain'
  BY <1>10 DEF Lock
<1>11. ASSUME NEW s \in Savers, Write(s)  PROVE StartsAgain'
  BY <1>11 DEF Write
<1>12. ASSUME NEW s \in Savers, Saved(s)  PROVE StartsAgain'
  BY <1>12 DEF Saved
<1>13. ASSUME NEW s \in Savers, WriteFails(s)  PROVE StartsAgain'
  BY <1>13 DEF WriteFails
<1> QED BY StoreCases, <1>1, <1>2, <1>3, <1>4, <1>5, <1>6, <1>7, <1>8, <1>9, <1>10, <1>11, <1>12,
     <1>13

\* Without the flag there is nothing to save.
LEMMA FlagKept ==
  ASSUME TypeOK, LockInv, SaveInv, LoadInv, FlagTruth, Next
  PROVE  FlagTruth'
<1> USE DEF TypeOK, FileOK, SeqsOK, FlagsOK, PlacesOK, NumsOK, LockInv, Savers, SaveDone,
     memVars, saveVars, appVars, SaveInv, LoadInv, FlagTruth, Complete, Empty, NoFile, Decodable
<1>1. CASE StoreStill
  BY <1>1 DEF StoreStill
<1>2. CASE Boot
  BY <1>2 DEF Boot
<1>3. CASE Gone
  BY <1>3 DEF Gone
<1>4. CASE Add
  BY <1>4 DEF Add
<1>5. CASE AddSend
  BY <1>5 DEF AddSend
<1>6. CASE LoadHeader
  BY <1>6 DEF LoadHeader
<1>7. CASE LoadItem
  BY <1>7 DEF LoadItem
<1>8. CASE LoadEnd
  <2> SUFFICES ASSUME ~haveNew, saver = "none"
               PROVE  file.items = data /\ file.n = Len(file.items) /\ file.v = "v2"
    BY <1>8 DEF LoadEnd
  <2>1. file.v = "v2" /\ file.n = Len(data) /\ Agree(file.items, data, Len(data))
    BY <1>8 DEF LoadEnd
  <2>2. Len(file.items) = Len(data)
    BY <2>1 DEF Agree
  <2> QED BY <2>1, <2>2, AgreeAll
<1>9. ASSUME NEW s \in Savers, Create(s)  PROVE FlagTruth'
  BY <1>9 DEF Create
<1>10. ASSUME NEW s \in Savers, Lock(s)  PROVE FlagTruth'
  BY <1>10 DEF Lock
<1>11. ASSUME NEW s \in Savers, Write(s)  PROVE FlagTruth'
  BY <1>11 DEF Write
<1>12. ASSUME NEW s \in Savers, Saved(s)  PROVE FlagTruth'
  <2>1. file.items = data /\ file.v = "v2" /\ file.n = Len(data)
    BY <1>12, AgreeAll DEF Saved
  <2> QED BY <1>12, <2>1 DEF Saved
<1>13. ASSUME NEW s \in Savers, WriteFails(s)  PROVE FlagTruth'
  BY <1>13 DEF WriteFails
<1> QED BY StoreCases, <1>1, <1>2, <1>3, <1>4, <1>5, <1>6, <1>7, <1>8, <1>9, <1>10, <1>11, <1>12,
     <1>13

-----------------------------------------------------------------------------
(* The order of the history.                                               *)

\* An Add goes last and is the newest.
LEMMA AddOrder ==
  ASSUME TypeOK, OrderInv, Add
  PROVE  /\ Append(data, sent + 1) \in Seq(Nat)
         /\ Len(Append(data, sent + 1)) = Len(data) + 1
         /\ \A i \in 1..Len(data) : Append(data, sent + 1)[i] = data[i]
         /\ Append(data, sent + 1)[Len(data) + 1] = sent + 1
         /\ Increasing(Append(data, sent + 1))
<1>1. data \in Seq(Nat) /\ Len(data) \in Nat /\ sent \in Nat /\ sent + 1 \in Nat
  BY DEF TypeOK, SeqsOK, NumsOK
<1>2. /\ Append(data, sent + 1) \in Seq(Nat)
      /\ Len(Append(data, sent + 1)) = Len(data) + 1
      /\ \A i \in 1..Len(data) : Append(data, sent + 1)[i] = data[i]
      /\ Append(data, sent + 1)[Len(data) + 1] = sent + 1
  BY <1>1, AppendProperties
<1>3. \A i, j \in 1..Len(data) : i < j => data[i] < data[j]
  BY DEF OrderInv, Increasing
<1>4. \A i \in 1..Len(data) : data[i] \in Nat /\ data[i] <= sent
  BY <1>1, ElementOfSeq DEF OrderInv, UpTo
<1>5. \A i, j \in 1..Len(data) + 1 : i < j => Append(data, sent + 1)[i] < Append(data, sent + 1)[j]
  <2> SUFFICES ASSUME NEW i \in 1..Len(data) + 1, NEW j \in 1..Len(data) + 1, i < j
               PROVE  Append(data, sent + 1)[i] < Append(data, sent + 1)[j]
    OBVIOUS
  <2>1. i \in 1..Len(data)
    BY <1>1
  <2>2. CASE j = Len(data) + 1
    BY <1>1, <1>2, <1>4, <2>1, <2>2
  <2>3. CASE j \in 1..Len(data)
    BY <1>2, <1>3, <2>1, <2>3
  <2> QED BY <1>1, <2>2, <2>3
<1> QED BY <1>2, <1>5 DEF Increasing

LEMMA OrderKept ==
  ASSUME TypeOK, LockInv, SaveInv, LoadInv, OrderInv, Next
  PROVE  OrderInv'
<1>1. CASE Add
  <2> DEFINE s == Append(data, sent + 1)
             r == Newest(s)
  <2>1. data' = r /\ sent' = sent + 1 /\ UNCHANGED <<file, good>> /\ sent \in Nat
    BY <1>1 DEF Add, TypeOK, NumsOK
  <2>2. /\ s \in Seq(Nat) /\ Len(s) = Len(data) + 1 /\ Increasing(s)
        /\ \A i \in 1..Len(data) : s[i] = data[i]
        /\ s[Len(data) + 1] = sent + 1
    BY <1>1, AddOrder
  <2> HIDE DEF s
  <2>3. /\ r \in Seq(Nat) /\ Len(r) \in Nat /\ Len(s) \in Nat /\ Len(r) <= Len(s)
        /\ \A i \in 1..Len(r) : r[i] = s[i + Len(s) - Len(r)]
    <3>1. /\ r \in Seq(Nat) /\ Len(r) = IF Len(s) > MaxMessages THEN MaxMessages ELSE Len(s)
          /\ \A i \in 1..Len(r) : r[i] = s[i + Len(s) - Len(r)]
      BY <2>2, NewestIs
    <3>2. MaxMessages \in Nat /\ Len(s) \in Nat
      BY <2>2, RecordsAssumption
    <3> HIDE DEF r
    <3>3. Len(r) \in Nat /\ Len(r) <= Len(s)
      BY <3>1, <3>2
    <3> QED BY <3>1, <3>2, <3>3
  <2> HIDE DEF r
  <2>4. Increasing(r)
    <3>1. \A i, j \in 1..Len(s) : i < j => s[i] < s[j]
      BY <2>2 DEF Increasing
    <3>2. \A i \in 1..Len(r) : i + Len(s) - Len(r) \in 1..Len(s)
      BY <2>3
    <3>3. \A i, j \in 1..Len(r) : i < j => i + Len(s) - Len(r) < j + Len(s) - Len(r)
      BY <2>3
    <3> QED BY <2>3, <3>1, <3>2, <3>3 DEF Increasing
  <2>5. UpTo(r, sent + 1)
    <3> SUFFICES ASSUME NEW i \in 1..Len(r)  PROVE r[i] <= sent + 1
      BY DEF UpTo
    <3> DEFINE j == i + Len(s) - Len(r)
    <3>1. j \in 1..Len(s) /\ r[i] = s[j]
      BY <2>3
    <3>2. \A k \in 1..Len(data) : data[k] \in Nat /\ data[k] <= sent
      BY ElementOfSeq DEF TypeOK, SeqsOK, OrderInv, UpTo
    <3>3. Len(data) \in Nat
      BY DEF TypeOK, SeqsOK
    <3> HIDE DEF j
    <3>4. CASE j = Len(data) + 1
      BY <2>1, <2>2, <3>1, <3>4
    <3>5. CASE j \in 1..Len(data)
      BY <2>1, <2>2, <3>1, <3>2, <3>5
    <3> QED BY <2>2, <3>1, <3>3, <3>4, <3>5
  <2>6. UpTo(file.items, sent + 1) /\ UpTo(good, sent + 1)
    <3>1. \A i \in 1..Len(good) : good[i] \in Nat
      BY ElementOfSeq DEF TypeOK, SeqsOK
    <3>2. \A i \in 1..Len(file.items) : file.items[i] \in Nat
      BY ElementOfSeq DEF TypeOK, FileOK
    <3> QED BY <2>1, <3>1, <3>2 DEF OrderInv, UpTo
  <2> QED BY <2>1, <2>4, <2>5, <2>6 DEF OrderInv
<1>2. CASE LoadItem
  <2>1. UNCHANGED <<file, good, sent>>
    BY <1>2 DEF LoadItem
  <2>2. CASE UNCHANGED data
    BY <2>1, <2>2 DEF OrderInv
  <2>3. CASE data' # data
    <3>1. /\ data' = Append(data, file.items[Len(data) + 1])
          /\ Len(file.items) > Len(data) /\ proc = "items"
      BY <1>2, <2>3 DEF LoadItem
    <3>2. file.items \in Seq(Nat) /\ data \in Seq(Nat) /\ Len(data) \in Nat /\ Len(file.items) \in Nat
      BY DEF TypeOK, FileOK, SeqsOK
    <3>3. Agree(data, file.items, Len(data))
      BY <3>1, <3>2, EmptySeq DEF LoadInv, Agree
    <3>4. /\ Len(data') = Len(data) + 1
          /\ Agree(data', file.items, Len(data) + 1)
      BY <3>1, <3>2, <3>3, AgreeAppend
    <3>5. \A i \in 1..Len(data') : i \in 1..Len(file.items) /\ data'[i] = file.items[i]
      BY <3>1, <3>2, <3>4 DEF Agree
    <3>6. Increasing(data') /\ UpTo(data', sent)
      BY <3>5 DEF OrderInv, Increasing, UpTo
    <3> QED BY <2>1, <3>6 DEF OrderInv
  <2> QED BY <2>2, <2>3
<1>3. ASSUME NEW s \in Savers, Write(s)  PROVE OrderInv'
  <2>1. /\ Len(file.items) < Len(data) /\ spc = "write" /\ UNCHANGED <<data, good, sent>>
        /\ file' = [file EXCEPT !.items = Append(@, data[Len(@) + 1])]
    BY <1>3 DEF Write, memVars
  <2>2. file.items \in Seq(Nat) /\ data \in Seq(Nat) /\ Len(data) \in Nat /\ Len(file.items) \in Nat
        /\ DOMAIN file = {"v", "n", "items"}
    BY DEF TypeOK, FileOK, SeqsOK
  <2>3. file'.items = Append(file.items, data[Len(file.items) + 1])
    BY <2>1, <2>2
  <2>4. Agree(file.items, data, Len(file.items))
    BY <2>1 DEF SaveInv
  <2>5. Len(file'.items) = Len(file.items) + 1 /\ Agree(file'.items, data, Len(file.items) + 1)
    BY <2>1, <2>2, <2>3, <2>4, AgreeAppend
  <2>6. \A i \in 1..Len(file'.items) : i \in 1..Len(data) /\ file'.items[i] = data[i]
    BY <2>1, <2>2, <2>5 DEF Agree
  <2>7. Increasing(file'.items) /\ UpTo(file'.items, sent)
    BY <2>6 DEF OrderInv, Increasing, UpTo
  <2> QED BY <2>1, <2>7 DEF OrderInv
<1>4. ASSUME NEW s \in Savers, Saved(s)  PROVE OrderInv'
  BY <1>4 DEF Saved, OrderInv
<1>5. ASSUME NEW s \in Savers, Create(s) \/ Lock(s)  PROVE OrderInv'
  <2>1. file'.items = <<>> /\ UNCHANGED <<data, good, sent>>
    BY <1>5 DEF Create, Lock, Empty, memVars
  <2> QED BY <2>1 DEF OrderInv, Increasing, UpTo
<1>6. CASE Gone
  BY <1>6 DEF Gone, OrderInv, Increasing, UpTo
<1>7. CASE UNCHANGED <<data, file, good, sent>>
  BY <1>7 DEF OrderInv
<1>8. \/ Add \/ LoadItem \/ Gone \/ UNCHANGED <<data, file, good, sent>>
      \/ \E s \in Savers : Create(s) \/ Lock(s) \/ Write(s) \/ Saved(s)
  BY StoreCases DEF StoreStill, memVars, Boot, AddSend, LoadHeader, LoadEnd, WriteFails
<1> QED BY <1>1, <1>2, <1>3, <1>4, <1>5, <1>6, <1>7, <1>8

LEMMA SentKept ==
  ASSUME TypeOK, SentInv, Next
  PROVE  SentInv'
<1>0. /\ sent \in Nat /\ pend \in Nat
      /\ app \in Seq(Nat) /\ log \in Seq(Nat) /\ Len(app) \in Nat /\ Len(log) \in Nat
      /\ \A i \in 1..Len(app) : app[i] \in Nat /\ app[i] <= sent
      /\ \A i \in 1..Len(log) : log[i] \in Nat /\ log[i] <= sent
      /\ pend <= sent
  <2>1. /\ sent \in Nat /\ pend \in Nat /\ app \in Seq(Nat) /\ log \in Seq(Nat)
        /\ UpTo(app, sent) /\ UpTo(log, sent) /\ pend <= sent
    BY DEF TypeOK, SeqsOK, NumsOK, SentInv
  <2>2. /\ Len(app) \in Nat /\ \A i \in 1..Len(app) : app[i] \in Nat
        /\ Len(log) \in Nat /\ \A i \in 1..Len(log) : log[i] \in Nat
    BY <2>1, ElementOfSeq
  <2> QED BY <2>1, <2>2 DEF UpTo
<1>1. CASE Add
  BY <1>0, <1>1 DEF Add, SentInv, UpTo
<1>2. CASE AddSend
  <2>1. /\ Len(app') = Len(app) + 1 /\ app'[Len(app) + 1] = pend
        /\ \A i \in 1..Len(app) : app'[i] = app[i]
        /\ pend' = 0 /\ UNCHANGED <<log, sent>>
    BY <1>0, <1>2, AppendProperties DEF AddSend
  <2>2. \A i \in 1..Len(app) + 1 : i \in 1..Len(app) \/ i = Len(app) + 1
    BY <1>0
  <2>3. UpTo(app', sent)
    BY <1>0, <2>1, <2>2 DEF UpTo
  <2> QED BY <1>0, <2>1, <2>3 DEF SentInv
<1>3. CASE AppendOne
  <2>1. /\ app # <<>> /\ log' = Append(log, Head(app)) /\ app' = Tail(app) /\ UNCHANGED <<sent, pend>>
    BY <1>3 DEF AppendOne
  <2>2. /\ Len(app) > 0 /\ Head(app) = app[1] /\ Head(app) \in Nat /\ Head(app) <= sent
    BY <1>0, <2>1, HeadTailProperties
  <2>3. /\ Len(log') = Len(log) + 1 /\ log'[Len(log) + 1] = Head(app)
        /\ \A i \in 1..Len(log) : log'[i] = log[i]
    BY <1>0, <2>1, <2>2, AppendProperties
  <2>4. UpTo(log', sent)
    <3>1. \A i \in 1..Len(log) + 1 : i \in 1..Len(log) \/ i = Len(log) + 1
      BY <1>0
    <3> QED BY <1>0, <2>2, <2>3, <3>1 DEF UpTo
  <2>5. UpTo(app', sent)
    BY <1>0, <2>1, HeadTailProperties DEF UpTo
  <2> QED BY <2>1, <2>4, <2>5 DEF SentInv
<1>4. CASE AppendFails
  <2>1. app # <<>> /\ app' = Tail(app) /\ UNCHANGED <<sent, pend, log>>
    BY <1>4 DEF AppendFails
  <2>2. UpTo(app', sent)
    BY <1>0, <2>1, HeadTailProperties DEF UpTo
  <2> QED BY <2>1, <2>2 DEF SentInv
<1>5. CASE Boot
  BY <1>0, <1>5 DEF Boot, SentInv, UpTo
<1>6. CASE Gone
  BY <1>0, <1>6 DEF Gone, SentInv, UpTo
<1>7. CASE UNCHANGED <<app, log, pend, sent>>
  BY <1>7 DEF SentInv
<1>8. \/ Add \/ AddSend \/ AppendOne \/ AppendFails \/ Boot \/ Gone
      \/ UNCHANGED <<app, log, pend, sent>>
  BY LogCases DEF LogStill, appVars, LoadHeader, LoadItem, LoadEnd, StartAppend, AppendEnds,
       StopFlag, StopClose
<1> QED BY <1>1, <1>2, <1>3, <1>4, <1>5, <1>6, <1>7, <1>8

\* What is kept is kept by an Add, and what is added is.
LEMMA AddKeeps ==
  ASSUME TypeOK, OrderInv, Add
  PROVE  /\ \A m \in Nat : Kept(m) /\ m <= sent => Kept(m)'
         /\ \A m \in Nat : m = sent + 1 => Kept(m)'
<1> DEFINE s == Append(data, sent + 1)
           r == Newest(s)
           d == Len(s) - Len(r)
<1>1. data' = r /\ sent \in Nat /\ MaxMessages \in Nat \ {0} /\ data \in Seq(Nat)
  BY RecordsAssumption DEF Add, TypeOK, NumsOK, SeqsOK
<1>2. /\ s \in Seq(Nat) /\ Len(s) = Len(data) + 1 /\ Len(data) \in Nat
      /\ \A i, j \in 1..Len(s) : i < j => s[i] < s[j]
      /\ \A i \in 1..Len(data) : s[i] = data[i]
      /\ s[Len(data) + 1] = sent + 1
  BY <1>1, AddOrder DEF Increasing
<1>3. \A i \in 1..Len(s) : s[i] \in Nat
  BY <1>2, ElementOfSeq
<1> HIDE DEF s
<1>4. /\ r \in Seq(Nat) /\ Len(r) = IF Len(s) > MaxMessages THEN MaxMessages ELSE Len(s)
      /\ \A i \in 1..Len(r) : r[i] = s[i + Len(s) - Len(r)]
  BY <1>2, NewestIs
<1> HIDE DEF r
<1>5. /\ Len(s) \in Nat /\ Len(r) \in Nat /\ Len(r) <= Len(s) /\ Len(r) > 0 /\ Len(r) <= MaxMessages
      /\ d \in Nat /\ (d > 0 => Len(r) = MaxMessages)
  BY <1>1, <1>2, <1>4
<1>6. \A i \in 1..Len(r) : r[i] = s[i + d] /\ i + d \in 1..Len(s)
  BY <1>4, <1>5
<1>7. ASSUME NEW m \in Nat, m = sent + 1
      PROVE  Kept(m)'
  <2>1. Len(r) \in 1..Len(r) /\ r[Len(r)] = m
    BY <1>2, <1>5, <1>6, <1>7
  <2> QED BY <1>1, <2>1 DEF Kept
<1>8. ASSUME NEW m \in Nat, Kept(m), m <= sent
      PROVE  Kept(m)'
  <2>1. ASSUME NEW i \in 1..Len(data), data[i] = m
        PROVE  Kept(m)'
    <3>1. s[i] = m /\ i \in 1..Len(s)
      BY <1>2, <2>1
    <3>2. CASE i > d
      <4>1. i - d \in 1..Len(r)
        <5>1. d \in Nat /\ Len(s) = Len(r) + d /\ i \in Nat /\ i <= Len(s)
          BY <1>5, <3>1
        <5> QED BY <1>5, <3>2, <5>1
      <4>2. r[i - d] = m
        <5>1. r[i - d] = s[(i - d) + d]
          BY <1>6, <4>1
        <5>2. (i - d) + d = i
          BY <1>5, <3>1
        <5> QED BY <3>1, <5>1, <5>2
      <4> QED BY <1>1, <4>1, <4>2 DEF Kept
    <3>3. CASE ~(i > d)
      <4>1. \A k \in 1..Len(r) : r[k] > m
        <5> TAKE k \in 1..Len(r)
        <5>1. r[k] = s[k + d] /\ k + d \in 1..Len(s)
          BY <1>6
        <5>2. i < k + d
          BY <1>5, <3>3
        <5> QED BY <1>2, <3>1, <5>1, <5>2
      <4>2. Len(r) >= MaxMessages
        BY <1>5, <3>3
      <4> QED BY <1>1, <4>1, <4>2 DEF Kept
    <3> QED BY <3>2, <3>3
  <2>2. ASSUME Len(data) >= MaxMessages, \A i \in 1..Len(data) : data[i] > m
        PROVE  Kept(m)'
    <3>1. \A i \in 1..Len(s) : s[i] > m
      <4> TAKE i \in 1..Len(s)
      <4>1. CASE i \in 1..Len(data)
        BY <1>2, <2>2, <4>1
      <4>2. CASE i = Len(data) + 1
        BY <1>1, <1>2, <1>8, <4>2
      <4> QED BY <1>2, <4>1, <4>2
    <3>2. \A k \in 1..Len(r) : r[k] > m
      BY <1>6, <3>1
    <3>3. Len(r) >= MaxMessages
      BY <1>1, <1>2, <1>4, <2>2
    <3> QED BY <1>1, <3>2, <3>3 DEF Kept
  <2> QED BY <1>8, <2>1, <2>2 DEF Kept
<1> QED BY <1>7, <1>8

LEMMA KeepKept ==
  ASSUME StoreInv, HistInv, Next
  PROVE  KeepInv'
<1> USE DEF StoreInv, HistInv
<1>0. /\ sent \in Nat /\ pend \in Nat /\ pend <= sent
      /\ \A i \in 1..Len(good) : good[i] \in Nat /\ good[i] <= sent
      /\ \A i \in 1..Len(app) : app[i] \in Nat /\ app[i] <= sent
      /\ \A i \in 1..Len(log) : log[i] \in Nat /\ log[i] <= sent
  BY ElementOfSeq DEF TypeOK, SeqsOK, NumsOK, OrderInv, SentInv, UpTo
<1> DEFINE All(x) == \A i \in 1..Len(x) : Kept(x[i])
<1>1. CASE Add
  <2> SUFFICES ASSUME ~spoilt
               PROVE  All(good)' /\ All(log)' /\ All(app)' /\ (pend' # 0 => Kept(pend)')
    BY <1>1 DEF Add, KeepInv
  <2>1. /\ UNCHANGED <<good, log, app>> /\ (pend' = pend \/ pend' = sent + 1)
        /\ All(good) /\ All(log) /\ All(app) /\ (pend # 0 => Kept(pend))
    BY <1>1 DEF Add, KeepInv
  <2>2. /\ \A m \in Nat : Kept(m) /\ m <= sent => Kept(m)'
        /\ \A m \in Nat : m = sent + 1 => Kept(m)'
    BY <1>1, AddKeeps
  <2>3. All(good)' /\ All(log)' /\ All(app)'
    BY <1>0, <2>1, <2>2
  <2>4. ASSUME pend' # 0  PROVE Kept(pend)'
    <3>1. CASE pend' = pend
      BY <1>0, <2>1, <2>2, <2>4, <3>1
    <3>2. CASE pend' = sent + 1
      BY <1>0, <2>2, <3>2
    <3> QED BY <2>1, <3>1, <3>2
  <2> QED BY <2>3, <2>4
<1>2. CASE AddSend
  <2> SUFFICES ASSUME ~spoilt
               PROVE  All(good)' /\ All(log)' /\ All(app)' /\ pend' = 0
    BY <1>2 DEF AddSend, KeepInv
  <2>1. /\ UNCHANGED <<data, good, log>> /\ pend' = 0 /\ app' = Append(app, pend) /\ pend # 0
        /\ proc = "up"
    BY <1>2 DEF AddSend, LockInv
  <2>2. All(good) /\ All(log) /\ All(app) /\ Kept(pend) /\ \A m : Kept(m)' = Kept(m)
    BY <2>1 DEF KeepInv, Kept
  <2> QED
  PROOF
    <3>1. app \in Seq(Nat) /\ Len(app) \in Nat
      BY DEF TypeOK, SeqsOK
    <3>2. /\ Len(app') = Len(app) + 1 /\ app'[Len(app) + 1] = pend
          /\ \A i \in 1..Len(app) : app'[i] = app[i]
      BY <1>0, <2>1, <3>1, AppendProperties
    <3>3. \A i \in 1..Len(app) + 1 : i \in 1..Len(app) \/ i = Len(app) + 1
      BY <3>1
    <3> QED BY <2>1, <2>2, <3>2, <3>3
<1>3. CASE AppendOne \/ AppendFails
  <2> SUFFICES ASSUME ~spoilt
               PROVE  All(good)' /\ All(log)' /\ All(app)' /\ (pend' # 0 => Kept(pend)')
    BY <1>3 DEF AppendOne, AppendFails, KeepInv
  <2>1. /\ UNCHANGED <<data, good, pend>> /\ app' = Tail(app) /\ app # <<>>
        /\ log' \in {log, Append(log, Head(app))} /\ proc = "up" /\ UNCHANGED spoilt
    BY <1>3 DEF AppendOne, AppendFails, LockInv, memVars
  <2>2. /\ All(good) /\ All(log) /\ All(app) /\ (pend # 0 => Kept(pend)) /\ \A m : Kept(m)' = Kept(m)
    BY <2>1 DEF KeepInv, Kept
  <2>3. app \in Seq(Nat) /\ Len(app) \in Nat /\ log \in Seq(Nat) /\ Len(log) \in Nat
    BY DEF TypeOK, SeqsOK
  <2>4. /\ Len(app) > 0 /\ Head(app) = app[1] /\ Head(app) \in Nat
        /\ Len(app') = Len(app) - 1 /\ \A i \in 1..Len(app') : app'[i] = app[i + 1]
    BY <2>1, <2>3, HeadTailProperties
  <2>5. All(app)'
    <3> SUFFICES ASSUME NEW i \in 1..Len(app')  PROVE Kept(app[i])'
      OBVIOUS
    <3>1. i + 1 \in 1..Len(app) /\ app'[i] = app[i + 1]
      BY <2>3, <2>4
    <3> QED BY <2>2, <3>1
  <2>6. All(log)'
    <3>1. CASE log' = log
      BY <2>2, <3>1
    <3>2. CASE log' = Append(log, Head(app))
      <4>1. /\ Len(log') = Len(log) + 1 /\ log'[Len(log) + 1] = Head(app)
            /\ \A i \in 1..Len(log) : log'[i] = log[i]
        BY <2>3, <2>4, <3>2, AppendProperties
      <4>2. \A i \in 1..Len(log) + 1 : i \in 1..Len(log) \/ i = Len(log) + 1
        BY <2>3
      <4>3. Kept(app[1])
        BY <2>2, <2>3, <2>4
      <4> QED BY <2>2, <2>4, <4>1, <4>2, <4>3
    <3> QED BY <2>1, <3>1, <3>2
  <2> QED BY <2>1, <2>2, <2>5, <2>6
<1>4. CASE LoadHeader
  <2> SUFFICES ASSUME ~spoilt, proc' = "up"
               PROVE  good' = <<>> /\ log' = <<>> /\ app' = <<>> /\ pend' = 0
    BY <1>4 DEF LoadHeader, KeepInv
  <2>1. proc = "open" /\ file = NoFile /\ UNCHANGED <<good, log, app, pend>>
    BY <1>4 DEF LoadHeader, appVars
  <2>2. saver = "none"
    BY <2>1 DEF LockInv
  <2> QED BY <2>1, <2>2 DEF LockInv, GoodInv, NoFile
<1>5. CASE LoadEnd
  <2> SUFFICES ASSUME ~spoilt, ~spoilt'
               PROVE  All(good)' /\ log' = <<>> /\ app' = <<>> /\ pend' = 0
    BY <1>5 DEF LoadEnd, KeepInv
  <2>1. /\ proc = "items" /\ Len(data) = want /\ UNCHANGED <<data, good, log, app, pend>>
    BY <1>5 DEF LoadEnd, appVars
  <2>2. /\ saver = "none" /\ want = file.n /\ Agree(file.items, data, Len(data)) /\ good = file.items
        /\ log = <<>> /\ app = <<>> /\ pend = 0
    BY <2>1 DEF LoadInv, LockInv, GoodInv
  <2>3. Len(file.items) \in Nat /\ Len(data) \in Nat /\ Len(file.items) <= Len(data)
    BY <2>1, <2>2 DEF TypeOK, FileOK, SeqsOK, SaveInv
  <2>4. \A i \in 1..Len(good) : i \in 1..Len(data) /\ good[i] = data[i]
    BY <2>2, <2>3 DEF Agree
  <2> QED BY <2>1, <2>2, <2>4 DEF Kept
<1>6. ASSUME NEW s \in Savers, Saved(s)  PROVE KeepInv'
  <2> SUFFICES ASSUME ~spoilt, proc = "up"
               PROVE  All(good)' /\ All(log)' /\ All(app)' /\ (pend' # 0 => Kept(pend)')
    BY <1>6 DEF Saved, KeepInv
  <2>1. good' = data /\ UNCHANGED <<data, log, app, pend>>
    BY <1>6 DEF Saved, appVars
  <2>2. All(log) /\ All(app) /\ (pend # 0 => Kept(pend)) /\ \A m : Kept(m)' = Kept(m)
    BY <2>1 DEF KeepInv, Kept
  <2>3. All(good)'
    BY <2>1 DEF Kept
  <2> QED BY <2>1, <2>2, <2>3
<1>7. CASE proc' # "up" \/ spoilt'
  BY <1>7 DEF KeepInv
<1>8. CASE UNCHANGED <<proc, data, good, log, app, pend>> /\ (spoilt => spoilt')
  BY <1>8 DEF KeepInv, Kept
<1>9. \/ Add \/ AddSend \/ AppendOne \/ AppendFails \/ LoadHeader \/ LoadEnd \/ (\E s \in Savers : Saved(s))
      \/ proc' # "up" \/ spoilt'
      \/ UNCHANGED <<proc, data, good, log, app, pend>> /\ (spoilt => spoilt')
  <2> USE DEF memVars, saveVars, appVars
  <2>1. Boot \/ Gone \/ LoadItem => proc' # "up" \/ UNCHANGED <<proc, data, good, log, app, pend>>
    BY DEF Boot, Gone, LoadItem
  <2>2. \A s \in Savers : Create(s) \/ Lock(s) \/ Write(s) \/ WriteFails(s) =>
          UNCHANGED <<proc, data, good, log, app, pend>> /\ (spoilt => spoilt')
    BY DEF Create, Lock, Write, WriteFails, TypeOK, FlagsOK
  <2>3. Signal \/ NothingNew \/ Terminating \/ StartAppend \/ AppendEnds
          => UNCHANGED <<proc, data, good, log, app, pend>> /\ (spoilt => spoilt')
    BY DEF Signal, NothingNew, Terminating, vars, StartAppend, AppendEnds
  <2>4. \A x : Stop(x) \/ StopFlag(x) \/ StopClose(x) \/ StopWait(x) =>
          UNCHANGED <<proc, data, good, log, app, pend>> /\ (spoilt => spoilt')
    BY DEF Stop, StopFlag, StopClose, StopWait
  <2>5. Crash \/ Fail \/ AddPanics \/ Exit \/ (\E x : StopPanics(x)) => proc' # "up"
    BY DEF Crash, Fail, AddPanics, Exit, StopPanics, Gone
  <2>6. LoadItem => proc' # "up"
    BY DEF LoadItem
  <2> QED
    BY <2>1, <2>2, <2>3, <2>4, <2>5, <2>6
       DEF Next, LoadStep, SaveStep, AddStep, AppendStep, CloseStep, Boot
<1> QED BY <1>1, <1>2, <1>3, <1>4, <1>5, <1>6, <1>7, <1>8, <1>9

-----------------------------------------------------------------------------
(* The append-only log.                                                    *)

LEMMA LogKept ==
  ASSUME TypeOK, LockInv, StopInv, LogInv, Next
  PROVE  LogInv'
<1>0. /\ sent \in Nat /\ pend \in Nat
      /\ app \in Seq(Nat) /\ log \in Seq(Nat) /\ Len(app) \in Nat /\ Len(log) \in Nat
  BY DEF TypeOK, SeqsOK, NumsOK
<1>1. PICK b \in 0..sent : CountsFrom(b)
  BY DEF LogInv
<1>2. CASE Add
  <2>1. b \in 0..sent'
    BY <1>0, <1>2 DEF Add
  <2>2. pend = 0
    BY <1>2 DEF Add, LockInv
  <2>3. CountsFrom(b)'
    BY <1>0, <1>1, <1>2, <2>2 DEF Add, CountsFrom
  <2> QED BY <2>1, <2>3 DEF LogInv
<1>3. CASE AddSend
  <2>1. /\ Len(app') = Len(app) + 1 /\ app'[Len(app) + 1] = pend /\ pend # 0
        /\ \A i \in 1..Len(app) : app'[i] = app[i]
        /\ pend' = 0 /\ UNCHANGED <<log, sent, wpc, appending>>
    BY <1>0, <1>3, AppendProperties DEF AddSend
  <2>2. \A i \in 1..Len(app) + 1 : i \in 1..Len(app) \/ i = Len(app) + 1
    BY <1>0
  <2>3. CountsFrom(b)'
    BY <1>0, <1>1, <2>1, <2>2 DEF CountsFrom
  <2> QED BY <2>1, <2>3 DEF LogInv
<1>4. CASE AppendOne
  <2>1. /\ app # <<>> /\ log' = Append(log, Head(app)) /\ app' = Tail(app) /\ wpc # "error"
        /\ UNCHANGED <<sent, pend, wpc, appending>>
    BY <1>4 DEF AppendOne
  <2>2. /\ Len(app) > 0 /\ Head(app) = app[1] /\ Head(app) \in Nat
        /\ Len(app') = Len(app) - 1 /\ \A i \in 1..Len(app') : app'[i] = app[i + 1]
    BY <1>0, <2>1, HeadTailProperties
  <2>3. /\ Len(log') = Len(log) + 1 /\ log'[Len(log) + 1] = Head(app)
        /\ \A i \in 1..Len(log) : log'[i] = log[i]
    BY <1>0, <2>1, <2>2, AppendProperties
  <2>4. /\ \A i \in 1..Len(log) + 1 : i \in 1..Len(log) \/ i = Len(log) + 1
        /\ \A i \in 1..Len(app') : i + 1 \in 1..Len(app)
    BY <1>0, <2>2
  <2>5. Head(app) = b + Len(log) + 1
    BY <1>0, <1>1, <2>1, <2>2 DEF CountsFrom
  <2>6. \A i \in 1..Len(log') : log'[i] = b + i
    <3> TAKE i \in 1..Len(log')
    <3>1. CASE i \in 1..Len(log)
      BY <1>1, <2>3, <3>1 DEF CountsFrom
    <3>2. CASE i = Len(log) + 1
      BY <1>0, <2>3, <2>5, <3>2
    <3> QED BY <2>3, <2>4, <3>1, <3>2
  <2>7. \A i \in 1..Len(app') : app'[i] = b + Len(log') + i
    BY <1>0, <1>1, <2>1, <2>2, <2>3, <2>4 DEF CountsFrom
  <2>8. /\ pend' # 0 => pend' = b + Len(log') + Len(app') + 1
        /\ appending' => sent' = b + Len(log') + Len(app') + (IF pend' = 0 THEN 0 ELSE 1)
    <3>1. Len(log') + Len(app') = Len(log) + Len(app)
      BY <1>0, <2>2, <2>3
    <3>2. b + Len(log') + Len(app') = b + Len(log) + Len(app)
      BY <1>0, <2>2, <2>3, <3>1
    <3> QED BY <1>1, <2>1, <3>2 DEF CountsFrom
  <2>9. CountsFrom(b)'
    BY <2>6, <2>7, <2>8 DEF CountsFrom
  <2> QED BY <2>1, <2>9 DEF LogInv
<1>5. CASE StartAppend
  <2>1. log = <<>> /\ app = <<>> /\ pend = 0 /\ UNCHANGED <<log, app, pend, sent>>
    BY <1>5 DEF StartAppend, LockInv
  <2>2. b \in Nat /\ sent \in 0..sent
    BY <1>0
  <2>3. ASSUME NEW c, c = sent  PROVE CountsFrom(c)'
    BY <1>0, <2>1, <2>3 DEF CountsFrom
  <2> QED BY <2>1, <2>2, <2>3 DEF LogInv
<1>6. CASE Boot
  <2>1. wpc = "off" /\ log' = <<>> /\ UNCHANGED <<app, pend, sent, wpc, appending>>
    BY <1>6 DEF Boot, LockInv
  <2>2. app = <<>> /\ pend = 0 /\ ~appending
    BY <2>1 DEF LockInv
  <2>3. CountsFrom(b)'
    BY <1>0, <2>1, <2>2 DEF CountsFrom
  <2> QED BY <2>1, <2>3 DEF LogInv
<1>7. CASE Gone
  <2>1. CountsFrom(b)'
    BY <1>0, <1>1, <1>7 DEF Gone, CountsFrom
  <2> QED BY <1>7, <2>1 DEF Gone, LogInv
<1>8. CASE /\ UNCHANGED <<app, log, pend, sent, wpc>>
           /\ appending' => appending
  <2>1. CountsFrom(b)'
    BY <1>1, <1>8 DEF CountsFrom
  <2> QED BY <1>8, <2>1 DEF LogInv
<1>9. CASE AppendFails \/ AppendEnds
  <2>1. /\ UNCHANGED <<log, sent, pend, appending>>
        /\ wpc' = "error" \/ (UNCHANGED app /\ wpc = "run")
    BY <1>9 DEF AppendFails, AppendEnds
  <2>2. CountsFrom(b)'
    BY <1>1, <2>1 DEF CountsFrom
  <2> QED BY <2>1, <2>2 DEF LogInv
<1>10. \/ Add \/ AddSend \/ AppendOne \/ AppendFails \/ AppendEnds \/ StartAppend \/ Boot \/ Gone
       \/ UNCHANGED <<app, log, pend, sent, wpc>> /\ (appending' => appending)
  BY LogCases DEF LogStill, appVars, LoadHeader, LoadItem, LoadEnd, StopFlag, StopClose
<1> QED BY <1>2, <1>3, <1>4, <1>5, <1>6, <1>7, <1>8, <1>9, <1>10

\* Messages that count on from one number have no gap.
LEMMA CountIsGapless ==
  ASSUME TypeOK, LogInv
  PROVE  LogGapless
<1>0. /\ sent \in Nat /\ pend \in Nat
      /\ app \in Seq(Nat) /\ log \in Seq(Nat) /\ Len(app) \in Nat /\ Len(log) \in Nat
  BY DEF TypeOK, SeqsOK, NumsOK
<1>1. PICK b \in 0..sent : CountsFrom(b)
  BY DEF LogInv
<1> DEFINE P == IF pend = 0 THEN <<>> ELSE <<pend>>
           all == log \o app \o P
<1>2. P \in Seq(Nat) /\ Len(P) \in {0, 1} /\ \A i \in 1..Len(P) : i = 1 /\ P[i] = pend /\ pend # 0
  <2>1. CASE pend = 0
    BY <2>1
  <2>2. CASE pend # 0
    BY <1>0, <2>2
  <2> QED BY <2>1, <2>2
<1> HIDE DEF P
<1>3. /\ log \o app \in Seq(Nat) /\ Len(log \o app) = Len(log) + Len(app)
      /\ \A i \in 1..Len(log) + Len(app) :
           (log \o app)[i] = IF i <= Len(log) THEN log[i] ELSE app[i - Len(log)]
  BY <1>0, ConcatProperties
<1>4. /\ Len(all) = Len(log) + Len(app) + Len(P)
      /\ \A i \in 1..Len(log) + Len(app) + Len(P) :
           all[i] = IF i <= Len(log) + Len(app) THEN (log \o app)[i] ELSE P[i - (Len(log) + Len(app))]
  <2>1. /\ Len((log \o app) \o P) = Len(log \o app) + Len(P)
        /\ \A i \in 1..Len(log \o app) + Len(P) :
             ((log \o app) \o P)[i] = IF i <= Len(log \o app) THEN (log \o app)[i] ELSE P[i - Len(log \o app)]
    BY <1>2, <1>3, ConcatProperties
  <2> QED BY <1>3, <2>1
<1>5. ASSUME wpc # "error", NEW i \in 1..Len(all)
      PROVE  all[i] = b + i
  <2>0. i \in 1..Len(log) + Len(app) + Len(P) /\ Len(P) \in Nat
    BY <1>2, <1>4
  <2>1. CASE i <= Len(log)
    BY <1>0, <1>1, <1>3, <1>4, <2>0, <2>1 DEF CountsFrom
  <2>2. CASE i > Len(log) /\ i <= Len(log) + Len(app)
    <3>1. i - Len(log) \in 1..Len(app) /\ all[i] = app[i - Len(log)]
      BY <1>0, <1>3, <1>4, <2>0, <2>2
    <3>2. app[i - Len(log)] = b + Len(log) + (i - Len(log))
      BY <1>1, <1>5, <3>1 DEF CountsFrom
    <3> QED BY <1>0, <2>0, <3>1, <3>2
  <2>3. CASE i > Len(log) + Len(app)
    <3>1. i - (Len(log) + Len(app)) \in 1..Len(P) /\ all[i] = P[i - (Len(log) + Len(app))]
      BY <1>0, <1>4, <2>0, <2>3
    <3>2. all[i] = pend /\ pend # 0 /\ i = Len(log) + Len(app) + 1
      BY <1>0, <1>2, <2>0, <3>1
    <3> QED BY <1>0, <1>1, <1>5, <3>2 DEF CountsFrom
  <2> QED BY <1>0, <2>0, <2>1, <2>2, <2>3
<1>6. Len(all) \in Nat
  BY <1>0, <1>2, <1>4
<1> HIDE DEF all
<1>7. wpc # "error" => \A i \in 1..(Len(all) - 1) : all[i + 1] = all[i] + 1
  <2> SUFFICES ASSUME wpc # "error", NEW i \in 1..(Len(all) - 1)
               PROVE  all[i + 1] = all[i] + 1
    OBVIOUS
  <2>1. i \in 1..Len(all) /\ i + 1 \in 1..Len(all)
    BY <1>6
  <2>2. all[i] = b + i /\ all[i + 1] = b + (i + 1)
    BY <1>5, <2>1
  <2> QED BY <1>1, <2>2
<1> QED BY <1>7 DEF all, P, LogGapless

-----------------------------------------------------------------------------
LEMMA InitOK == Init => IInv
<1> SUFFICES ASSUME Init PROVE IInv
  OBVIOUS
<1>1. file = NoFile \/ \E v \in {"v1", "v2"} :
        file.n \in Nat /\ file = [v |-> v, n |-> file.n, items |-> [i \in 1..file.n |-> i]]
  BY RecordsAssumption DEF Init
<1>2. /\ file \in [v : {"none", "v1", "v2"}, n : Nat, items : Seq(Nat)]
      /\ Len(file.items) = file.n /\ \A i \in 1..Len(file.items) : file.items[i] = i
      /\ file = NoFile \/ file.v \in {"v1", "v2"}
  <2>1. CASE file = NoFile
    BY <2>1, EmptySeq DEF NoFile
  <2>2. ASSUME NEW v \in {"v1", "v2"}, file.n \in Nat,
               file = [v |-> v, n |-> file.n, items |-> [i \in 1..file.n |-> i]]
        PROVE  <1>2!:
    <3> DEFINE it == [i \in 1..file.n |-> i]
    <3>1. it \in Seq(Nat) /\ Len(it) = file.n /\ \A i \in 1..file.n : it[i] = i
      <4>1. it \in [1..file.n -> Nat]
        OBVIOUS
      <4>2. it \in Seq(Nat)
        BY <2>2, <4>1, SeqDef
      <4>3. DOMAIN it = 1..Len(it) /\ Len(it) \in Nat
        BY <4>2, LenProperties
      <4> QED BY <2>2, <4>2, <4>3
    <3>2. file.v = v /\ file.items = it
      BY <2>2
    <3>3. file = [v |-> file.v, n |-> file.n, items |-> file.items]
      BY <2>2, <3>2
    <3> HIDE DEF it
    <3> QED BY <2>2, <3>1, <3>2, <3>3
  <2> QED BY <1>1, <2>1, <2>2
<1>3. Len(file.items) \in Nat /\ file.items \in Seq(Nat) /\ sent = Len(file.items)
  BY <1>2 DEF Init
<1>4. TypeOK
  <2>1. FileOK
    BY <1>2 DEF FileOK
  <2>2. SeqsOK
    BY <1>3, EmptySeq DEF Init, SeqsOK
  <2>3. FlagsOK /\ PlacesOK
    BY DEF Init, FlagsOK, PlacesOK
  <2>4. NumsOK
    BY <1>3 DEF Init, NumsOK
  <2> QED BY <2>1, <2>2, <2>3, <2>4 DEF TypeOK
<1>5. LockInv /\ LoadInv /\ StopInv
  BY DEF Init, LockInv, LoadInv, StopInv, Savers
<1>6. SaveInv /\ GoodInv
  BY <1>2 DEF Init, SaveInv, GoodInv
<1>7. StartsAgain /\ FlagTruth /\ KeepInv
  BY <1>2 DEF Init, StartsAgain, FileWhole, StartFailsOnlySpoilt, FlagTruth, KeepInv, Complete
<1>8. OrderInv
  BY <1>2, <1>3 DEF Init, OrderInv, Increasing, UpTo
<1>9. SentInv
  BY <1>3 DEF Init, SentInv, UpTo
<1>10. LogInv
  <2>1. CountsFrom(0)
    BY DEF Init, CountsFrom
  <2> QED BY <1>3, <2>1 DEF LogInv
<1> QED
  BY <1>4, <1>5, <1>6, <1>7, <1>8, <1>9, <1>10 DEF IInv, StoreInv, HistInv, AppInv

LEMMA StepOK == IInv /\ [Next]_vars => IInv'
<1> SUFFICES ASSUME IInv, [Next]_vars PROVE IInv'
  OBVIOUS
<1>1. CASE Next
  <2> USE DEF IInv, StoreInv, HistInv, AppInv
  <2>1. StoreInv'
    BY <1>1, TypeStep, LockStep, SaveKept, LoadKept, GoodKept, WholeKept, FlagKept
  <2>2. HistInv'
    BY <1>1, OrderKept, SentKept, KeepKept
  <2>3. AppInv'
    BY <1>1, LogKept, StopStep
  <2> QED BY <2>1, <2>2, <2>3
<1>2. CASE UNCHANGED vars
  <2> USE <1>2 DEF vars, memVars, saveVars, appVars
  <2>1. TypeOK'
    BY DEF IInv, StoreInv, TypeOK, FileOK, SeqsOK, FlagsOK, PlacesOK, NumsOK
  <2>2. LockInv' /\ SaveInv' /\ LoadInv' /\ GoodInv' /\ FlagTruth'
    BY DEF IInv, StoreInv, LockInv, SaveInv, LoadInv, GoodInv, Agree, FlagTruth
  <2>3. StartsAgain'
    BY DEF IInv, StoreInv, StartsAgain, FileWhole, StartFailsOnlySpoilt, Complete
  <2>4. OrderInv' /\ SentInv' /\ KeepInv'
    BY DEF IInv, HistInv, OrderInv, Increasing, UpTo, SentInv, KeepInv, Kept
  <2>5. LogInv' /\ StopInv'
    BY DEF IInv, AppInv, LogInv, CountsFrom, StopInv
  <2> QED BY <2>1, <2>2, <2>3, <2>4, <2>5 DEF IInv, StoreInv, HistInv, AppInv
<1> QED BY <1>1, <1>2

LEMMA Invariant == Spec => []IInv
BY InitOK, StepOK, PTL DEF Spec

\* What BinaryHistory, the server and the files hold has its type.
THEOREM TypesKept == Spec => []TypeOK
<1>1. IInv => TypeOK
  BY DEF IInv, StoreInv
<1> QED BY <1>1, Invariant, PTL

\* The store file is whole between saves, and only a save that was cut short,
\* or met a load, makes Load and with it serve fail.
THEOREM AlwaysStartsAgain == Spec => []StartsAgain
<1>1. IInv => StartsAgain
  BY DEF IInv, StoreInv
<1> QED BY <1>1, Invariant, PTL

\* Without haveNew the store file is the history; and what Save once wrote, or
\* the log holds, is in the history of any later start until MaxMessages newer
\* messages are.
THEOREM NothingIsForgotten == Spec => []NothingForgotten
<1>1. IInv => NothingForgotten
  <2> SUFFICES ASSUME IInv PROVE NothingForgotten
    OBVIOUS
  <2> USE DEF IInv, StoreInv, HistInv
  <2>1. /\ data \in Seq(Nat) /\ Range(data) = {data[i] : i \in 1..Len(data)}
        /\ Range(good) = {good[i] : i \in 1..Len(good)}
        /\ Range(log) = {log[i] : i \in 1..Len(log)}
    BY RangeEquality DEF TypeOK, SeqsOK
  <2>2. \A m : Kept(m) => m \in Range(data) \/ (Len(data) >= MaxMessages /\ \A d \in Range(data) : d > m)
    BY <2>1 DEF Kept
  <2>3. NeverForget
    BY <2>1, <2>2 DEF NeverForget, KeepInv
  <2> QED BY <2>3 DEF NothingForgotten
<1> QED BY <1>1, Invariant, PTL

\* The append-only log, app and the Add that waits for it have every message
\* since StartAppend in order, and StopAppend leaves none of them behind.
THEOREM LogIsComplete == Spec => []LogComplete
<1>1. IInv => LogComplete
  <2> SUFFICES ASSUME IInv PROVE LogComplete
    OBVIOUS
  <2>1. LogGapless
    BY CountIsGapless DEF IInv, StoreInv, AppInv
  <2>2. LogDrained
    BY DEF IInv, AppInv, StopInv, Closers, LogDrained
  <2> QED BY <2>1, <2>2 DEF LogComplete
<1> QED BY <1>1, Invariant, PTL

-----------------------------------------------------------------------------
(* The lists of users: module Presence *)

\* What do may send: so many connections for every name.
Lists == {NoList} \cup UNION {[N -> 0..255] : N \in SUBSET {Name[c] : c \in Conns}}

PresenceType ==
  /\ conn \in [Conns -> {"new", "up", "gone"}]
  /\ told \in Nat /\ change \in BOOLEAN /\ asks \in Nat
  /\ pc \in [Tasks -> {"idle", "clear", "get", "send"}]
  /\ at \in [Tasks -> Nat]
  /\ list \in [Tasks -> Lists]
  /\ \A t \in Tasks : pc[t] \in {"get", "send"} => at[t] \in DOMAIN UsersChannels
  /\ seen \in [Conns -> [Listed -> Lists]]
  /\ tick \in [Conns -> [Listed -> Lists]]
  /\ raced \in [Conns -> [Listed -> BOOLEAN]]

\* A change is known of that the ticker has yet to look for.
Ahead == told > 0 \/ change

\* The ticker is on its way to send the list of h as it is now.
Coming(h) ==
  \/ pc[Ticker] = "clear"
  \/ \E j \in DOMAIN UsersChannels :
       /\ UsersChannels[j] = h
       /\ \/ pc[Ticker] \in {"get", "send"} /\ j > at[Ticker]
          \/ pc[Ticker] = "get" /\ j = at[Ticker]
          \/ pc[Ticker] = "send" /\ j = at[Ticker] /\ list[Ticker] = Users(h)

\* The list in the ticker's hands is old only if it will come again.
HeldInv ==
  pc[Ticker] = "send" => Ahead \/ list[Ticker] = Users(UsersChannels[at[Ticker]])

\* So is a list that it has sent, and one that a client shows.
TickInv ==
  \A c \in Conns, h \in Listed :
    Watches(c, h) => Ahead \/ Coming(h) \/ tick[c][h] = Users(h)

SeenInv ==
  \A c \in Conns, h \in Listed :
    Watches(c, h) => Ahead \/ Coming(h) \/ seen[c][h] = Users(h) \/ raced[c][h]

ListsInv == PresenceType /\ HeldInv /\ TickInv /\ SeenInv

-----------------------------------------------------------------------------
\* What GetUsers returns is a list.
LEMMA UsersIsList ==
  ASSUME PresenceType, NEW h
  PROVE  Users(h) \in Lists
<1> DEFINE N == {Name[c] : c \in {d \in Up : h \in Subscribed[d]}}
<1>1. N \in SUBSET {Name[c] : c \in Conns}
  BY DEF Up
<1>2. \A n : Cardinality(Of(n, h)) % 256 \in 0..255
  <2> TAKE n
  <2>1. Of(n, h) \subseteq Conns
    BY DEF Of, Up
  <2>2. Cardinality(Of(n, h)) \in Nat
    BY <2>1, PresenceAssumption, FS_Subset, FS_CardinalityType
  <2> HIDE DEF N
  <2> QED BY <2>2
<1>3. Users(h) = [n \in N |-> Cardinality(Of(n, h)) % 256]
  BY DEF Users
<1> HIDE DEF N
<1>4. Users(h) \in [N -> 0..255]
  BY <1>2, <1>3
<1> QED BY <1>1, <1>4 DEF Lists

\* The lists depend on the registrations alone.
LEMMA UsersStay ==
  ASSUME UNCHANGED conn, NEW h
  PROVE  Users(h)' = Users(h) /\ Up' = Up /\ \A c : Watches(c, h)' = Watches(c, h)
<1>1. Up' = Up
  BY DEF Up
<1>2. \A n : Of(n, h)' = Of(n, h)
  BY <1>1 DEF Of
<1> QED BY <1>1, <1>2 DEF Users, Watches

\* As long as a change is known of, the lists may be as old as they like.
LEMMA AheadCovers ==
  ASSUME PresenceType', Ahead'
  PROVE  ListsInv'
BY DEF ListsInv, HeldInv, TickInv, SeenInv

\* A step that only brings a goroutine other than the ticker further.
LEMMA OthersMove ==
  ASSUME ListsInv, PresenceType',
         UNCHANGED <<conn, told, change, seen, tick, raced>>,
         pc'[Ticker] = pc[Ticker], at'[Ticker] = at[Ticker], list'[Ticker] = list[Ticker]
  PROVE  ListsInv'
<1>1. Ahead' = Ahead
  BY DEF Ahead
<1>2. \A h : Coming(h)' = Coming(h)
  BY UsersStay DEF Coming
<1>3. HeldInv'
  BY <1>1, UsersStay DEF ListsInv, HeldInv
<1>4. TickInv'
  BY <1>1, <1>2, UsersStay DEF ListsInv, TickInv
<1>5. SeenInv'
  BY <1>1, <1>2, UsersStay DEF ListsInv, SeenInv
<1> QED BY <1>3, <1>4, <1>5 DEF ListsInv

-----------------------------------------------------------------------------
LEMMA PresenceStarts == PresenceInit => ListsInv
<1> SUFFICES ASSUME PresenceInit PROVE ListsInv
  OBVIOUS
<1>1. PresenceType
  BY DEF PresenceInit, PresenceType, Lists
<1>2. \A c, h : ~Watches(c, h)
  BY DEF PresenceInit, Watches, Up
<1>3. HeldInv
  BY DEF PresenceInit, HeldInv, Tasks
<1> QED BY <1>1, <1>2, <1>3 DEF ListsInv, TickInv, SeenInv

\* Every step keeps the data well formed.
LEMMA PresenceTypeStep ==
  ASSUME PresenceType, [PresenceNext]_presencevars
  PROVE  PresenceType'
<1> USE DEF PresenceType
<1>1. ASSUME NEW c \in Conns, SetClient(c)  PROVE PresenceType'
  BY <1>1 DEF SetClient, doVars
<1>2. ASSUME NEW c \in Conns, UnsetClient(c)  PROVE PresenceType'
  BY <1>2 DEF UnsetClient, doVars
<1>3. ASSUME NEW c \in Conns, Ask(c)  PROVE PresenceType'
  <2>1. 1 \in DOMAIN UsersChannels
    BY PresenceAssumption
  <2> QED BY <1>3, <2>1 DEF Ask, Tasks
<1>4. ASSUME NEW t \in Tasks, GetUsers(t)  PROVE PresenceType'
  <2>1. Users(UsersChannels[at[t]]) \in Lists
    BY UsersIsList
  <2> QED BY <1>4, <2>1 DEF GetUsers
<1>5. ASSUME NEW t \in Tasks, Broadcast(t)  PROVE PresenceType'
  <2> DEFINE h == UsersChannels[at[t]]
             to == Recipients(t, h)
             Told(f) == [c \in Conns |-> IF c \in to THEN [f[c] EXCEPT ![h] = list[t]] ELSE f[c]]
  <2>1. ASSUME NEW f \in [Conns -> [Listed -> Lists]]
        PROVE  Told(f) \in [Conns -> [Listed -> Lists]]
    OBVIOUS
  <2>2. seen' \in [Conns -> [Listed -> Lists]] /\ tick' \in [Conns -> [Listed -> Lists]]
    <3>1. Told(seen) \in [Conns -> [Listed -> Lists]] /\ Told(tick) \in [Conns -> [Listed -> Lists]]
      BY <2>1
    <3> QED BY <1>5, <3>1 DEF Broadcast
  <2>3. raced' \in [Conns -> [Listed -> BOOLEAN]]
    <3> DEFINE r == [c \in Conns |-> IF c \in to THEN [raced[c] EXCEPT ![h] = c = t /\ list[t] # Users(h)]
                                     ELSE raced[c]]
    <3>1. \A c \in Conns : (c = t /\ list[t] # Users(h)) \in BOOLEAN
      OBVIOUS
    <3>2. \A c \in Conns, b \in BOOLEAN : [raced[c] EXCEPT ![h] = b] \in [Listed -> BOOLEAN]
      OBVIOUS
    <3>3. r \in [Conns -> [Listed -> BOOLEAN]]
      <4> HIDE DEF h, to
      <4> QED BY <3>1, <3>2, Zenon
    <3>4. raced' = r
      BY <1>5 DEF Broadcast
    <3> QED BY <3>3, <3>4
  <2>4. list' \in [Tasks -> Lists]
    BY <1>5 DEF Broadcast, Lists
  <2>5. /\ pc' \in [Tasks -> {"idle", "clear", "get", "send"}]
        /\ at' \in [Tasks -> Nat]
        /\ \A u \in Tasks : pc'[u] \in {"get", "send"} => at'[u] \in DOMAIN UsersChannels
    <3>1. pc[t] = "send" /\ at[t] \in DOMAIN UsersChannels /\ at[t] \in Nat
      BY <1>5 DEF Broadcast
    <3>2. CASE at[t] < Len(UsersChannels)
      <4>1. at' = [at EXCEPT ![t] = @ + 1] /\ pc' = [pc EXCEPT ![t] = "get"]
        BY <1>5, <3>2 DEF Broadcast, Advance
      <4>2. at[t] + 1 \in DOMAIN UsersChannels
        BY <3>1, <3>2, PresenceAssumption
      <4> QED BY <3>1, <4>1, <4>2
    <3>3. CASE ~(at[t] < Len(UsersChannels))
      <4>1. at' = [at EXCEPT ![t] = 0] /\ pc' = [pc EXCEPT ![t] = "idle"]
        BY <1>5, <3>3 DEF Broadcast, Advance
      <4> QED BY <4>1
    <3> QED BY <3>2, <3>3
  <2> QED BY <1>5, <2>2, <2>3, <2>4, <2>5 DEF Broadcast
<1>6. CASE UserUpdate
  BY <1>6 DEF UserUpdate, doVars
<1>7. CASE Wake
  BY <1>7 DEF Wake, Tasks
<1>8. CASE Clear
  <2>1. 1 \in DOMAIN UsersChannels
    BY PresenceAssumption
  <2> QED BY <1>8, <2>1 DEF Clear, Tasks
<1>9. CASE PresenceEnds \/ UNCHANGED presencevars
  BY <1>9 DEF PresenceEnds, presencevars, doVars
<1> QED
  BY <1>1, <1>2, <1>3, <1>4, <1>5, <1>6, <1>7, <1>8, <1>9 DEF PresenceNext, DoStep, TickerStep, Tasks

-----------------------------------------------------------------------------
\* What do sends for the ticker is either right or will come again.
LEMMA TickerBroadcasts ==
  ASSUME ListsInv, PresenceType', Broadcast(Ticker), ~Ahead
  PROVE  ListsInv'
<1> USE DEF ListsInv
<1> DEFINE h0 == UsersChannels[at[Ticker]]
<1>0. Ticker \in Tasks /\ Ticker \notin Conns
  BY PresenceAssumption DEF Tasks
<1>1. /\ pc[Ticker] = "send" /\ list[Ticker] = Users(h0)
      /\ UNCHANGED conn /\ Ahead' = Ahead
  BY DEF Broadcast, HeldInv, Ahead
<1>2. \A c \in Conns : Watches(c, h0) <=> c \in Recipients(Ticker, h0)
  BY <1>0 DEF Watches, Recipients
<1>3. HeldInv'
  BY <1>0 DEF Broadcast, Advance, PresenceType, HeldInv
<1>4. ASSUME NEW h \in Listed, Coming(h), h # h0  PROVE Coming(h)'
  <2>1. PICK j \in DOMAIN UsersChannels : UsersChannels[j] = h /\ j > at[Ticker]
    BY <1>1, <1>4 DEF Coming
  <2>2. pc'[Ticker] = "get" /\ at'[Ticker] = at[Ticker] + 1
    BY <1>0, <2>1, PresenceAssumption DEF Broadcast, Advance, PresenceType
  <2> QED BY <1>0, <2>1, <2>2, PresenceAssumption DEF Coming, PresenceType
<1>5. ASSUME NEW c \in Conns, Watches(c, h0)
      PROVE  tick'[c][h0] = Users(h0) /\ seen'[c][h0] = Users(h0)
  <2>1. h0 \in Listed
    BY <1>5, PresenceAssumption DEF Watches, Listed
  <2>2. c \in Recipients(Ticker, h0)
    BY <1>2, <1>5
  <2>3. /\ seen'[c] = [seen[c] EXCEPT ![h0] = list[Ticker]]
        /\ tick'[c] = [tick[c] EXCEPT ![h0] = list[Ticker]]
    BY <2>2 DEF Broadcast
  <2> QED BY <1>1, <2>1, <2>3 DEF PresenceType
<1>6. ASSUME NEW c \in Conns, NEW h \in Listed, h # h0
      PROVE  tick'[c][h] = tick[c][h] /\ seen'[c][h] = seen[c][h]
  BY <1>6 DEF Broadcast, PresenceType
<1>7. ASSUME NEW c \in Conns, NEW h \in Listed, h # h0
      PROVE  raced'[c][h] = raced[c][h]
  BY <1>7 DEF Broadcast, PresenceType
<1>8. TickInv'
  BY <1>1, <1>4, <1>5, <1>6, UsersStay DEF TickInv
<1>9. SeenInv'
  BY <1>1, <1>4, <1>5, <1>6, <1>7, UsersStay DEF SeenInv
<1> QED BY <1>3, <1>8, <1>9

\* An answer leaves what the ticker sent alone, and who gets an old one has
\* raced.
LEMMA Answers ==
  ASSUME ListsInv, PresenceType', NEW t \in Conns, Broadcast(t)
  PROVE  ListsInv'
<1> USE DEF ListsInv
<1> DEFINE h0 == UsersChannels[at[t]]
<1>0. Ticker \in Tasks /\ t \in Tasks /\ Ticker # t
  BY PresenceAssumption DEF Tasks
<1>1. /\ UNCHANGED <<conn, told, change, tick>>
      /\ pc'[Ticker] = pc[Ticker] /\ at'[Ticker] = at[Ticker] /\ list'[Ticker] = list[Ticker]
  BY <1>0 DEF Broadcast, Advance, PresenceType
<1>2. Ahead' = Ahead /\ \A h : Coming(h)' = Coming(h)
  BY <1>1, UsersStay DEF Ahead, Coming
<1>3. HeldInv' /\ TickInv'
  BY <1>1, <1>2, UsersStay DEF HeldInv, TickInv
<1>4. ASSUME NEW c \in Conns, NEW h \in Listed, c # t \/ h # h0
      PROVE  seen'[c][h] = seen[c][h]
  BY <1>0, <1>4 DEF Broadcast, Recipients, PresenceType
<1>5. ASSUME NEW c \in Conns, NEW h \in Listed, c # t \/ h # h0
      PROVE  raced'[c][h] = raced[c][h]
  BY <1>0, <1>5 DEF Broadcast, Recipients, PresenceType
<1>6. ASSUME Watches(t, h0), h0 \in Listed
      PROVE  seen'[t][h0] = Users(h0) \/ raced'[t][h0]
  <2>1. t \in Recipients(t, h0)
    BY <1>6 DEF Watches, Recipients
  <2>2. seen'[t][h0] = list[t]
    BY <1>6, <2>1 DEF Broadcast, PresenceType
  <2>3. raced'[t][h0] = (t = t /\ list[t] # Users(h0))
    <3>1. raced'[t] = [raced[t] EXCEPT ![h0] = t = t /\ list[t] # Users(h0)]
      BY <2>1, Zenon DEF Broadcast
    <3>2. h0 \in DOMAIN raced[t]
      BY <1>6 DEF PresenceType
    <3> HIDE DEF h0
    <3> QED BY <3>1, <3>2, Zenon
  <2> QED BY <2>2, <2>3
<1>7. SeenInv'
  <2> SUFFICES ASSUME NEW c \in Conns, NEW h \in Listed, Watches(c, h)', ~(Ahead \/ Coming(h))'
               PROVE  (seen[c][h] = Users(h) \/ raced[c][h])'
    BY DEF SeenInv
  <2>1. Watches(c, h) /\ ~(Ahead \/ Coming(h)) /\ Users(h)' = Users(h)
    BY <1>1, <1>2, UsersStay
  <2>2. CASE c = t /\ h = h0
    BY <1>6, <2>1, <2>2
  <2>3. CASE c # t \/ h # h0
    BY <1>4, <1>5, <2>1, <2>3 DEF SeenInv
  <2> QED BY <2>2, <2>3
<1> QED BY <1>3, <1>7

LEMMA PresenceStep ==
  ASSUME ListsInv, [PresenceNext]_presencevars
  PROVE  ListsInv'
<1>0. PresenceType'
  BY PresenceTypeStep DEF ListsInv
<1>00. PresenceType /\ Ticker \in Tasks /\ Ticker \notin Conns
  BY PresenceAssumption DEF ListsInv, Tasks
<1>1. ASSUME NEW c \in Conns, SetClient(c) \/ UnsetClient(c)  PROVE ListsInv'
  BY <1>0, <1>00, <1>1, AheadCovers DEF SetClient, UnsetClient, Ahead, PresenceType
<1>2. ASSUME NEW c \in Conns, Ask(c)  PROVE ListsInv'
  BY <1>0, <1>00, <1>2, OthersMove DEF Ask, PresenceType
<1>3. ASSUME NEW c \in Conns, GetUsers(c)  PROVE ListsInv'
  BY <1>0, <1>00, <1>3, OthersMove DEF GetUsers, PresenceType
<1>4. ASSUME NEW c \in Conns, Broadcast(c)  PROVE ListsInv'
  BY <1>0, <1>4, Answers
<1>5. CASE UserUpdate
  BY <1>0, <1>5, AheadCovers DEF UserUpdate, Ahead
<1>6. CASE Wake
  BY <1>0, <1>00, <1>6, AheadCovers DEF Wake, Ahead
<1>7. CASE Clear
  <2>1. pc'[Ticker] = "get" /\ at'[Ticker] = 1
    BY <1>00, <1>7 DEF Clear, PresenceType
  <2>2. \A h \in Listed : Coming(h)'
    BY <2>1, PresenceAssumption DEF Coming, Listed
  <2> QED BY <1>0, <2>1, <2>2 DEF ListsInv, HeldInv, TickInv, SeenInv
<1>8. CASE GetUsers(Ticker)
  <2>1. /\ pc[Ticker] = "get" /\ pc'[Ticker] = "send"
        /\ at' = at /\ list'[Ticker] = Users(UsersChannels[at[Ticker]])
        /\ UNCHANGED <<conn, told, change, seen, tick, raced>>
    BY <1>00, <1>8 DEF GetUsers, PresenceType
  <2>2. \A h : Coming(h) => Coming(h)'
    BY <2>1, UsersStay DEF Coming
  <2>3. HeldInv'
    BY <2>1, UsersStay DEF HeldInv
  <2>4. TickInv' /\ SeenInv'
    BY <2>1, <2>2, UsersStay DEF ListsInv, TickInv, SeenInv, Ahead
  <2> QED BY <1>0, <2>3, <2>4 DEF ListsInv
<1>9. CASE Broadcast(Ticker)
  <2>1. CASE Ahead
    <3>1. Ahead'
      BY <1>9, <2>1 DEF Broadcast, Ahead
    <3> QED BY <1>0, <3>1, AheadCovers
  <2>2. CASE ~Ahead
    BY <1>0, <1>9, <2>2, TickerBroadcasts
  <2> QED BY <2>1, <2>2
<1>10. CASE PresenceEnds \/ UNCHANGED presencevars
  BY <1>0, <1>10, OthersMove DEF PresenceEnds, presencevars, doVars
<1> QED
  BY <1>1, <1>2, <1>3, <1>4, <1>5, <1>6, <1>7, <1>8, <1>9, <1>10 DEF PresenceNext, DoStep, TickerStep

\* The goroutines of any clients, the registry, UserUpdate and the ticker of
\* users.go keep their data well formed.
THEOREM PresenceTypesKept == PresenceSpec => []PresenceType
<1>1. PresenceInit => PresenceType
  BY PresenceStarts DEF ListsInv
<1>2. PresenceType /\ [PresenceNext]_presencevars => PresenceType'
  BY PresenceTypeStep
<1> QED BY <1>1, <1>2, PTL DEF PresenceSpec

\* Whenever UserUpdate has run for every change and the ticker sleeps, what it
\* has sent, and what the clients show but for a raced answer, is the registry:
\* whatever SendInterval, the requests and the connections' goroutines did
\* between clearing the flag, reading the lists and sending them.
THEOREM ListsStayAccurate == PresenceSpec => []ListsAccurate
<1>1. PresenceInit => ListsInv
  BY PresenceStarts
<1>2. ListsInv /\ [PresenceNext]_presencevars => ListsInv'
  BY PresenceStep
<1>3. ListsInv => ListsAccurate
  <2> SUFFICES ASSUME ListsInv, Settled
               PROVE  \A c \in Conns, h \in Listed :
                        Watches(c, h) => tick[c][h] = Users(h) /\ (seen[c][h] = Users(h) \/ raced[c][h])
    BY DEF ListsAccurate, TickerAccurate, SeenAccurate
  <2>1. ~Ahead /\ \A h : ~Coming(h)
    BY DEF ListsInv, PresenceType, Settled, Ahead, Coming
  <2> QED BY <2>1 DEF ListsInv, TickInv, SeenInv
<1> QED BY <1>1, <1>2, <1>3, PTL DEF PresenceSpec
=============================================================================
