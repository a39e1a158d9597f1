--------------------------- MODULE DeliveryProofs ---------------------------
(***************************************************************************)
(* Proofs about Delivery, for any set of connections, callers and batches  *)
(* and any buffer capacities: the types, the inductive invariant IInv, and *)
(* from it that messages are closed only after their last use, that the    *)
(* WaitGroup counter is exact, and that Delivery implements BatchLifetime; *)
(* then that a caller's messages keep their order and that nobody misses   *)
(* one or gets one twice.                                                  *)
(***************************************************************************)
EXTENDS Delivery, FiniteSetTheorems, SequenceTheorems, TLAPS

-----------------------------------------------------------------------------
(* Queues as sets of jobs *)

\* Appending to a queue adds the element to its range.
LEMMA RangeAppend ==
  ASSUME NEW S, NEW s \in Seq(S), NEW e \in S
  PROVE  Range(Append(s, e)) = Range(s) \cup {e}
<1>1. /\ Append(s, e) \in Seq(S)
      /\ DOMAIN Append(s, e) = 1 .. Len(s) + 1
      /\ DOMAIN s = 1 .. Len(s)
      /\ Len(s) \in Nat
  BY AppendProperties
<1>2. /\ \A i \in 1 .. Len(s) : Append(s, e)[i] = s[i]
      /\ Append(s, e)[Len(s) + 1] = e
  BY AppendProperties
<1>3. 1 .. Len(s) + 1 = (1 .. Len(s)) \cup {Len(s) + 1}
  BY <1>1
<1>4. QED
  BY <1>1, <1>2, <1>3 DEF Range

\* Appending what is not there yet keeps the elements distinct.
LEMMA InjectiveAppend ==
  ASSUME NEW S, NEW s \in Seq(S), NEW e \in S, IsInjective(s), e \notin Range(s)
  PROVE  IsInjective(Append(s, e))
<1>1. /\ DOMAIN Append(s, e) = 1 .. Len(s) + 1
      /\ DOMAIN s = 1 .. Len(s)
      /\ Len(s) \in Nat
  BY AppendProperties
<1>2. /\ \A i \in 1 .. Len(s) : Append(s, e)[i] = s[i]
      /\ Append(s, e)[Len(s) + 1] = e
  BY AppendProperties
<1>3. \A i \in 1 .. Len(s) : s[i] # e
  BY <1>1 DEF Range
<1>4. QED
  BY <1>1, <1>2, <1>3 DEF IsInjective

\* Taking the head of a queue of distinct elements removes exactly it.
LEMMA RangeTail ==
  ASSUME NEW S, NEW s \in Seq(S), s # <<>>, IsInjective(s)
  PROVE  /\ Head(s) \in Range(s)
         /\ Range(Tail(s)) = Range(s) \ {Head(s)}
         /\ IsInjective(Tail(s))
<1>1. /\ Len(s) \in Nat \ {0}
      /\ DOMAIN s = 1 .. Len(s)
      /\ Head(s) = s[1]
  BY EmptySeq, LenProperties
<1>2. /\ Tail(s) \in Seq(S)
      /\ DOMAIN Tail(s) = 1 .. Len(s) - 1
      /\ \A i \in 1 .. Len(s) - 1 : Tail(s)[i] = s[i + 1]
  BY HeadTailProperties, LenProperties
<1>3. \A x : x \in Range(Tail(s)) <=> \E i \in 2 .. Len(s) : x = s[i]
  <2>1. Range(Tail(s)) = {Tail(s)[i] : i \in 1 .. Len(s) - 1}
    BY <1>2 DEF Range
  <2>2. ASSUME NEW i \in 1 .. Len(s) - 1
        PROVE  i + 1 \in 2 .. Len(s) /\ Tail(s)[i] = s[i + 1]
    BY <1>1, <1>2
  <2>3. ASSUME NEW i \in 2 .. Len(s)
        PROVE  i - 1 \in 1 .. Len(s) - 1 /\ Tail(s)[i - 1] = s[i]
    <3>1. i - 1 \in 1 .. Len(s) - 1 /\ (i - 1) + 1 = i
      BY <1>1
    <3>2. QED
      BY <3>1, <1>2
  <2>4. \A x : x \in Range(Tail(s)) => \E i \in 2 .. Len(s) : x = s[i]
    BY <2>1, <2>2
  <2>5. \A x : (\E i \in 2 .. Len(s) : x = s[i]) => x \in Range(Tail(s))
    BY <2>1, <2>3
  <2>6. QED
    BY <2>4, <2>5
<1>4. \A i \in 2 .. Len(s) : s[i] # s[1]
  BY <1>1 DEF IsInjective
<1>5. IsInjective(Tail(s))
  <2>1. ASSUME NEW i \in 1 .. Len(s) - 1, NEW j \in 1 .. Len(s) - 1,
               s[i + 1] = s[j + 1]
        PROVE  i = j
    BY <2>1, <1>1 DEF IsInjective
  <2>2. QED
    BY <2>1, <1>2 DEF IsInjective
<1>6. \A x : x \in Range(s) <=> (x = s[1] \/ \E i \in 2 .. Len(s) : x = s[i])
  <2>1. 1 .. Len(s) = {1} \cup 2 .. Len(s)
    BY <1>1
  <2>2. QED
    BY <2>1, <1>1 DEF Range
<1>7. QED
  BY <1>1, <1>3, <1>4, <1>5, <1>6

-----------------------------------------------------------------------------
(* Types *)

\* Registrations selected by a batch are entries of Subs.
LEMMA HitsType ==
  ASSUME NEW b \in Batches, reg \subseteq Subs
  PROVE  /\ Hits(b) \subseteq Nat \X Subs
         /\ IsFiniteSet(Hits(b))
         /\ \A M \in SUBSET Hits(b) : M \in Uses
<1>1. DOMAIN b = 1 .. Len(b) /\ Len(b) \in Nat
  BY DeliveryAssumption DEF BatchAssumption
<1>2. Hits(b) \subseteq (1 .. Len(b)) \X Subs
  BY <1>1 DEF Hits
<1>3. IsFiniteSet((1 .. Len(b)) \X Subs)
  <2>1. IsFiniteSet(1 .. Len(b))
    BY <1>1, FS_Interval
  <2>2. QED
    BY <2>1, FS_Product, DeliveryAssumption
<1>4. IsFiniteSet(Hits(b))
  BY <1>2, <1>3, FS_Subset
<1>5. 1 .. Len(b) \subseteq Nat
  BY <1>1
<1>6. \A M \in SUBSET Hits(b) : IsFiniteSet(M)
  BY <1>4, FS_Subset
<1>7. QED
  BY <1>2, <1>4, <1>5, <1>6 DEF Uses

\* Merging gives well-formed jobs.
LEMMA MergedJobsType ==
  ASSUME NEW k \in Calls, NEW b \in Batches, reg \subseteq Subs
  PROVE  MergedJobs(k, b) \subseteq Job
<1>1. ASSUME NEW m \in Hits(b)
      PROVE  m[2] \in Subs /\ m[2][1] \in Conns /\ m[2][2] \in Channels
  BY HitsType, DeliveryAssumption DEF Channels
<1>2. ASSUME NEW s \in {m[2] : m \in Hits(b)}
      PROVE  s[1] \in Conns /\ s[2] \in Channels
  BY <1>1
<1>3. \A S : {m \in Hits(b) : m[2][1] = S[1] /\ m[2][2] = S[2]} \in Uses
  BY HitsType
<1>4. QED
  BY <1>2, <1>3 DEF MergedJobs, Job

LEMMA InitTypeOK == Init => TypeOK
<1> SUFFICES ASSUME Init PROVE TypeOK
  OBVIOUS
<1>1. MaxCalls \in Nat
  BY DeliveryAssumption
<1>2. <<>> \in Seq(Job)
  OBVIOUS
<1>3. {} \in Uses
  BY FS_EmptySet DEF Uses
<1>4. 0 \in 0 .. MaxCalls
  BY <1>1
<1>5. /\ conn \in [Conns -> {"new", "set", "run", "left", "unset", "stop", "close", "gone"}]
      /\ writer \in Conns \cup {None}
      /\ reg \subseteq Subs
      /\ calls \in 0..MaxCalls
      /\ at \in [Callers -> 0..MaxCalls]
      /\ by \in [Calls -> Callers \cup {None}]
      /\ batch \in [Calls -> Batches \cup {<<>>}]
  BY <1>4 DEF Init
<1>6. /\ hits \in [Calls -> Uses]
      /\ phase \in [Calls -> {"idle", "push", "wait", "closed"}]
      /\ todo \in [Calls -> SUBSET Job]
      /\ wg \in [Calls -> Int]
      /\ outgoing \in Seq(Job)
      /\ dpc \in {"idle", "check", "add", "send", "done"}
      /\ hand \in Job \cup {NoJob}
  BY <1>2, <1>3 DEF Init
<1>7. /\ qwg \in [Conns -> Nat]
      /\ jobs \in [Conns -> Seq(Job)]
      /\ wpc \in [Conns -> {"off", "idle", "send", "done", "exit"}]
      /\ cur \in [Conns -> Job \cup {NoJob}]
      /\ left \in [Conns -> Uses]
  BY <1>2, <1>3 DEF Init
<1>8. panic \in BOOLEAN
  BY Zenon DEF Init
<1>9. QED
  BY <1>5, <1>6, <1>7, <1>8 DEF TypeOK

\* A connection's own steps keep the types.
LEMMA ConnTypeOK ==
  ASSUME TypeOK, NEW c \in Conns, ConnStep(c) \/ Leave(c)
  PROVE  TypeOK'
<1> USE DEF TypeOK, connVars, callVars, pushVars, queueVars, writeVars
<1>1. CASE LockSet(c)
  BY <1>1 DEF LockSet
<1>2. CASE SetClient(c)
  BY <1>2 DEF SetClient, EntriesOf
<1>3. CASE Leave(c)
  BY <1>3 DEF Leave
<1>4. CASE LockUnset(c)
  BY <1>4 DEF LockUnset
<1>5. CASE Stop(c)
  BY <1>5 DEF Stop
<1>6. CASE StopWait(c)
  BY <1>6 DEF StopWait
<1>7. CASE CloseJobs(c)
  BY <1>7 DEF CloseJobs, EntriesOf
<1>8. QED
  BY <1>1, <1>2, <1>3, <1>4, <1>5, <1>6, <1>7 DEF ConnStep

\* So do those of a caller.
LEMMA CallTypeOK ==
  ASSUME TypeOK, NEW p \in Callers,
         CallerStep(p) \/ \E b \in Batches : BroadcastBatch(p, b)
  PROVE  TypeOK'
<1> USE DEF TypeOK, connVars, callVars, pushVars, queueVars, writeVars
<1>1. CASE Push(p)
  <2>1. PICK j \in todo[at[p]] : /\ outgoing' = Append(outgoing, j)
                                /\ todo' = [todo EXCEPT ![at[p]] = @ \ {j}]
    BY <1>1 DEF Push
  <2>2. at[p] \in Calls
    BY <1>1, DeliveryAssumption DEF Push, Calls
  <2>3. j \in Job /\ todo[at[p]] \ {j} \in SUBSET Job
    BY <2>1, <2>2
  <2>4. outgoing' \in Seq(Job)
    BY <2>1, <2>3, AppendProperties
  <2>5. QED
    BY <1>1, <2>1, <2>3, <2>4 DEF Push
<1>2. CASE Return(p)
  <2>1. 0 \in 0 .. MaxCalls
    BY DeliveryAssumption
  <2>2. QED
    BY <1>2, <2>1 DEF Return
<1>3. ASSUME NEW b \in Batches, BroadcastBatch(p, b)
      PROVE  TypeOK'
  <2>1. calls + 1 \in Calls /\ calls + 1 \in 0 .. MaxCalls
    BY <1>3, DeliveryAssumption DEF BroadcastBatch, Calls
  <2>2. MergedJobs(calls + 1, b) \in SUBSET Job
    BY <2>1, MergedJobsType
  <2>3. Hits(b) \in Uses /\ Cardinality(Hits(b)) \in Int
    BY HitsType, FS_CardinalityType
  <2>4. QED
    BY <1>3, <2>1, <2>2, <2>3 DEF BroadcastBatch
<1>4. QED
  BY <1>1, <1>2, <1>3 DEF CallerStep

\* The dispatcher's steps keep the types: its hand is full between Take and
\* the end of Queue.
LEMMA DispatchTypeOK ==
  ASSUME TypeOK, HandInv, DispatchStep
  PROVE  TypeOK'
<1> USE DEF TypeOK, connVars, callVars, pushVars, queueVars, writeVars
<1>1. CASE Take
  BY <1>1, HeadTailProperties DEF Take
<1>2. dpc # "idle" => hand \in Job /\ hand.c \in Conns /\ hand.k \in Calls
  BY DEF Job, HandInv
<1>3. CASE QueueStopped
  <2>1. Cardinality(hand.ms) \in Int
    BY <1>2, <1>3, FS_CardinalityType DEF QueueStopped, Job, Uses
  <2>2. QED
    BY <1>2, <1>3, <2>1 DEF QueueStopped
<1>4. CASE QueueCheck
  BY <1>4 DEF QueueCheck
<1>5. CASE QueueAdd
  BY <1>2, <1>5 DEF QueueAdd
<1>6. CASE QueueSend
  <2>1. Append(jobs[hand.c], hand) \in Seq(Job)
    BY <1>2, <1>6, AppendProperties DEF QueueSend
  <2>2. QED
    BY <1>2, <1>6, <2>1 DEF QueueSend
<1>7. CASE QueuePanic
  BY <1>7 DEF QueuePanic
<1>8. CASE QueueDone
  <2>1. qwg[hand.c] = 1
    BY <1>2, <1>8 DEF QueueDone, HandInv
  <2>2. QED
    BY <1>2, <1>8, <2>1 DEF QueueDone
<1>9. QED
  BY <1>1, <1>3, <1>4, <1>5, <1>6, <1>7, <1>8 DEF DispatchStep

\* A writer's steps keep the types.
LEMMA WriterTypeOK ==
  ASSUME TypeOK, NEW c \in Conns, WriterStep(c),
         wpc[c] \in {"send", "done"} => cur[c] # NoJob
  PROVE  TypeOK'
<1> USE DEF TypeOK, connVars, callVars, pushVars, queueVars, writeVars
<1>1. CASE WriterTake(c)
  <2>1. Head(jobs[c]) \in Job /\ Tail(jobs[c]) \in Seq(Job)
    BY <1>1, HeadTailProperties DEF WriterTake
  <2>2. Head(jobs[c]).ms \in Uses
    BY <2>1 DEF Job
  <2>3. QED
    BY <1>1, <2>1, <2>2 DEF WriterTake
<1>2. CASE WriterSend(c)
  BY <1>2 DEF WriterSend
<1>3. CASE WriterDone(c)
  <2>1. cur[c].k \in Calls
    BY <1>3 DEF WriterDone, Job
  <2>2. PICK m \in NextMsgs(c) :
               /\ left' = [left EXCEPT ![c] = @ \ {m}]
               /\ IF left[c] = {m}
                  THEN wpc' = [wpc EXCEPT ![c] = "idle"] /\ cur' = [cur EXCEPT ![c] = NoJob]
                  ELSE wpc' = [wpc EXCEPT ![c] = "send"] /\ UNCHANGED cur
    BY <1>3 DEF WriterDone
  <2>3. left' \in [Conns -> Uses]
    <3>1. left[c] \ {m} \in Uses
      BY FS_RemoveElement DEF Uses
    <3>2. QED
      BY <2>2, <3>1
  <2>4. wpc' \in [Conns -> {"off", "idle", "send", "done", "exit"}]
        /\ cur' \in [Conns -> Job \cup {NoJob}]
    BY <2>2
  <2>5. wg' \in [Calls -> Int]
    BY <1>3, <2>1 DEF WriterDone
  <2>6. QED
    BY <1>3, <2>3, <2>4, <2>5 DEF WriterDone
<1>4. CASE WriterExit(c)
  BY <1>4 DEF WriterExit
<1>5. QED
  BY <1>1, <1>2, <1>3, <1>4 DEF WriterStep

-----------------------------------------------------------------------------
(* What each goroutine leaves alone *)

LEMMA ConnFrame ==
  ASSUME NEW c \in Conns, ConnStep(c) \/ Leave(c)
  PROVE  UNCHANGED <<callVars, pushVars, wg, outgoing, queueVars, jobs, cur, left>>
BY DEF ConnStep, LockSet, SetClient, Leave, LockUnset, Stop, StopWait, CloseJobs, writeVars

LEMMA DispatchFrame ==
  ASSUME DispatchStep
  PROVE  UNCHANGED <<connVars, callVars, pushVars, writeVars>>
BY DEF DispatchStep, Take, QueueStopped, QueueCheck, QueueAdd, QueueSend,
       QueuePanic, QueueDone

LEMMA WriterFrame ==
  ASSUME NEW c \in Conns, WriterStep(c)
  PROVE  UNCHANGED <<connVars, callVars, pushVars, outgoing, queueVars>>
BY DEF WriterStep, WriterTake, WriterSend, WriterDone, WriterExit

-----------------------------------------------------------------------------
(* The lock and the calls *)

\* The write lock excludes callers and other connections.
LEMMA LockInvStep ==
  ASSUME TypeOK, LockInv, Next \/ UNCHANGED vars
  PROVE  LockInv'
<1> USE DEF LockInv, NoReaders
<1>1. ASSUME NEW c \in Conns, ConnStep(c) \/ Leave(c)
      PROVE  LockInv'
  <2> USE DEF TypeOK, pushVars
  <2>1. CASE LockSet(c)
    BY <2>1, DeliveryAssumption DEF LockSet
  <2>2. CASE SetClient(c)
    <3>1. \A d \in Conns : conn'[d] \notin {"set", "unset", "stop", "close"}
      BY <2>2, DeliveryAssumption DEF SetClient
    <3>2. \A s \in reg' : s \in reg \/ s[1] = c
      BY <2>2 DEF SetClient, EntriesOf
    <3>3. QED
      BY <2>2, <3>1, <3>2, DeliveryAssumption DEF SetClient
  <2>3. CASE Leave(c)
    BY <2>3, DeliveryAssumption DEF Leave
  <2>4. CASE LockUnset(c)
    BY <2>4, DeliveryAssumption DEF LockUnset
  <2>5. CASE Stop(c)
    BY <2>5, DeliveryAssumption DEF Stop
  <2>6. CASE StopWait(c)
    BY <2>6, DeliveryAssumption DEF StopWait
  <2>7. CASE CloseJobs(c)
    <3>1. \A d \in Conns : conn'[d] \notin {"set", "unset", "stop", "close"}
      BY <2>7, DeliveryAssumption DEF CloseJobs
    <3>2. \A s \in reg' : s \in reg /\ s[1] # c
      BY <2>7 DEF CloseJobs, EntriesOf
    <3>3. QED
      BY <2>7, <3>1, <3>2, DeliveryAssumption DEF CloseJobs
  <2>8. QED
    BY <1>1, <2>1, <2>2, <2>3, <2>4, <2>5, <2>6, <2>7 DEF ConnStep
<1>2. ASSUME NEW p \in Callers, NEW b \in Batches, BroadcastBatch(p, b)
      PROVE  LockInv'
  <2>1. \A c \in Conns : conn[c] \notin {"stop", "close"}
    BY <1>2, DeliveryAssumption DEF BroadcastBatch, RLockable
  <2>2. QED
    BY <1>2, <2>1 DEF BroadcastBatch, connVars
<1>3. ASSUME NEW p \in Callers, CallerStep(p)
      PROVE  LockInv'
  <2>1. at' = at \/ at' = [at EXCEPT ![p] = 0]
    BY <1>3 DEF CallerStep, Push, Return
  <2>2. NoReaders => NoReaders'
    BY <2>1 DEF TypeOK
  <2>3. UNCHANGED connVars
    BY <1>3 DEF CallerStep, Push, Return
  <2>4. QED
    BY <2>2, <2>3 DEF connVars
<1>4. CASE UNCHANGED <<conn, writer, reg, at>>
  BY <1>4
<1>5. QED
  <2>1. ASSUME NEW k \in Calls, CloseMsgs(k)
        PROVE  UNCHANGED <<conn, writer, reg, at>>
    BY <2>1 DEF CloseMsgs, connVars
  <2>2. ASSUME DispatchStep \/ (\E c \in Conns : WriterStep(c)) \/ UNCHANGED vars
        PROVE  UNCHANGED <<conn, writer, reg, at>>
    BY <2>2, DispatchFrame, WriterFrame DEF connVars, pushVars, vars
  <2>3. QED
    BY <1>1, <1>2, <1>3, <1>4, <2>1, <2>2 DEF Next, Terminating

\* Calls are numbered in order and only a caller inside one fills its jobs.
LEMMA CallInvStep ==
  ASSUME TypeOK, CallInv, Next \/ UNCHANGED vars
  PROVE  CallInv'
<1> USE DEF CallInv
<1>1. ASSUME NEW p \in Callers, NEW b \in Batches, BroadcastBatch(p, b)
      PROVE  CallInv'
  <2> DEFINE k == calls + 1
  <2>1. k \in Calls /\ calls \in Nat /\ calls' = k /\ phase[k] = "idle"
    BY <1>1, DeliveryAssumption DEF BroadcastBatch, TypeOK, Calls
  <2>2. /\ at' = [at EXCEPT ![p] = k]
        /\ phase' = [phase EXCEPT ![k] = "push"]
        /\ todo' = [todo EXCEPT ![k] = MergedJobs(k, b)]
    BY <1>1 DEF BroadcastBatch
  <2>3. \A j \in MergedJobs(k, b) : j.k = k
    BY DEF MergedJobs
  <2>4. \A q \in Callers : at[q] # k
    BY <2>1
  <2>5. \A l \in Calls : phase'[l] = "idle" <=> l > k
    BY <2>1, <2>2 DEF TypeOK, Calls
  <2>6. \A q \in Callers : at'[q] # 0 => phase'[at'[q]] = "push"
    BY <2>1, <2>2 DEF TypeOK
  <2>7. \A q, r \in Callers : at'[q] = at'[r] /\ at'[q] # 0 => q = r
    BY <2>2, <2>4 DEF TypeOK
  <2>8. \A l \in Calls : todo'[l] # {} => \E q \in Callers : at'[q] = l
    <3>1. at[p] = 0 /\ at'[p] = k
      BY <1>1, <2>2 DEF BroadcastBatch, TypeOK
    <3>2. ASSUME NEW l \in Calls \ {k}, todo'[l] # {}
          PROVE  \E q \in Callers : at'[q] = l
      <4>1. todo[l] # {}
        BY <2>1, <2>2, <3>2 DEF TypeOK
      <4>2. PICK q \in Callers : at[q] = l
        BY <4>1
      <4>3. q # p
        BY <3>1, <4>2 DEF Calls
      <4>4. QED
        BY <2>2, <4>2, <4>3 DEF TypeOK
    <3>3. QED
      BY <3>1, <3>2
  <2>9. \A l \in Calls : \A j \in todo'[l] : j.k = l
    BY <2>1, <2>2, <2>3 DEF TypeOK
  <2>10. QED
    BY <2>1, <2>5, <2>6, <2>7, <2>8, <2>9
<1>2. ASSUME NEW p \in Callers, Push(p)
      PROVE  CallInv'
  <2>1. PICK j : todo' = [todo EXCEPT ![at[p]] = @ \ {j}]
    BY <1>2 DEF Push
  <2>2. UNCHANGED <<calls, phase, at>>
    BY <1>2 DEF Push, callVars
  <2>3. \A l \in Calls : todo'[l] \subseteq todo[l]
    BY <2>1 DEF TypeOK
  <2>4. \A l \in Calls : todo'[l] # {} => \E q \in Callers : at'[q] = l
    BY <2>2, <2>3
  <2>5. \A l \in Calls : \A y \in todo'[l] : y.k = l
    BY <2>3
  <2>6. QED
    BY <2>2, <2>4, <2>5
<1>3. ASSUME NEW p \in Callers, Return(p)
      PROVE  CallInv'
  <2> DEFINE k == at[p]
  <2>1. /\ k # 0 /\ k \in Calls /\ todo[k] = {}
        /\ phase[k] = "push"
        /\ at' = [at EXCEPT ![p] = 0]
        /\ phase' = [phase EXCEPT ![k] = "wait"]
        /\ UNCHANGED <<calls, todo>>
    BY <1>3, DeliveryAssumption DEF Return, TypeOK, callVars, Calls
  <2>2. \A q \in Callers \ {p} : at'[q] = at[q] /\ at[q] # k
    BY <2>1 DEF TypeOK
  <2>3. \A l \in Calls : todo'[l] # {} => \E q \in Callers : at'[q] = l
    <3>1. ASSUME NEW l \in Calls, todo[l] # {}
          PROVE  \E q \in Callers : at'[q] = l
      <4>1. PICK q \in Callers : at[q] = l
        BY <3>1
      <4>2. q # p
        BY <2>1, <3>1, <4>1
      <4>3. QED
        BY <2>1, <4>1, <4>2 DEF TypeOK
    <3>2. QED
      BY <2>1, <3>1
  <2>4. \A l \in Calls : phase'[l] = "idle" <=> l > calls'
    BY <2>1 DEF TypeOK
  <2>5. \A q \in Callers : at'[q] # 0 => phase'[at'[q]] = "push"
    <3>1. at'[p] = 0
      BY <2>1 DEF TypeOK
    <3>2. QED
      BY <2>1, <2>2, <3>1 DEF TypeOK
  <2>6. \A q, r \in Callers : at'[q] = at'[r] /\ at'[q] # 0 => q = r
    BY <2>1, <2>2 DEF TypeOK
  <2>7. QED
    BY <2>1, <2>3, <2>4, <2>5, <2>6
<1>4. ASSUME NEW k \in Calls, CloseMsgs(k)
      PROVE  CallInv'
  <2>1. /\ phase[k] = "wait" /\ phase' = [phase EXCEPT ![k] = "closed"]
        /\ UNCHANGED <<calls, at, todo>>
    BY <1>4 DEF CloseMsgs, callVars
  <2>2. \A l \in Calls : phase'[l] = "idle" <=> l > calls'
    BY <2>1 DEF TypeOK
  <2>3. \A q \in Callers : at'[q] # 0 => phase'[at'[q]] = "push"
    BY <2>1 DEF TypeOK
  <2>4. QED
    BY <2>1, <2>2, <2>3
<1>5. CASE UNCHANGED <<calls, phase, at, todo>>
  BY <1>5
<1>6. QED
  <2>1. ASSUME (\E c \in Conns : ConnStep(c) \/ Leave(c) \/ WriterStep(c)) \/ DispatchStep \/ UNCHANGED vars
        PROVE  UNCHANGED <<calls, phase, at, todo>>
    BY <2>1, ConnFrame, DispatchFrame, WriterFrame DEF callVars, pushVars, vars
  <2>2. QED
    BY <1>1, <1>2, <1>3, <1>4, <1>5, <2>1 DEF Next, Terminating, CallerStep

\* Stop runs under the write lock: no call is pushing, so none has a job for
\* the stopping client; new jobs are for registered clients that are not
\* being stopped.
LEMMA PushToLiveStep ==
  ASSUME TypeOK, LockInv, CallInv, PushToLive, Next \/ UNCHANGED vars
  PROVE  PushToLive'
<1>1. ASSUME NEW c \in Conns, ConnStep(c) \/ Leave(c)
      PROVE  PushToLive'
  <2>1. UNCHANGED todo
    BY <1>1, ConnFrame DEF pushVars
  <2>2. CASE NoReaders
    <3>1. \A k \in Calls : todo[k] = {}
      BY <2>2 DEF CallInv, NoReaders, Calls
    <3>2. QED
      BY <2>1, <3>1 DEF PushToLive
  <2>3. CASE ~NoReaders
    <3>1. conn[c] \notin {"stop", "close"}
      BY <2>3 DEF LockInv
    <3>2. LockSet(c) \/ Leave(c) \/ LockUnset(c)
      BY <1>1, <2>3, <3>1 DEF ConnStep, SetClient, Stop, StopWait, CloseJobs
    <3>3. \A d \in Conns : conn[d] \in {"run", "left", "unset"} => conn'[d] \in {"run", "left", "unset"}
      BY <3>2 DEF LockSet, Leave, LockUnset, TypeOK
    <3>4. \A k \in Calls : \A j \in todo[k] : j.c \in Conns
      BY DEF TypeOK, Job
    <3>5. QED
      BY <2>1, <3>3, <3>4 DEF PushToLive
  <2>4. QED
    BY <2>2, <2>3
<1>2. ASSUME NEW p \in Callers, NEW b \in Batches, BroadcastBatch(p, b)
      PROVE  PushToLive'
  <2> DEFINE k == calls + 1
  <2>1. k \in Calls /\ todo' = [todo EXCEPT ![k] = MergedJobs(k, b)] /\ UNCHANGED conn
    BY <1>2, DeliveryAssumption DEF BroadcastBatch, connVars, TypeOK, Calls
  <2>2. ASSUME NEW j \in MergedJobs(k, b)
        PROVE  conn[j.c] \in {"run", "left", "unset"}
    <3>1. PICK m \in Hits(b) : j.c = m[2][1]
      BY <2>2 DEF MergedJobs
    <3>2. m[2] \in reg /\ m[2][1] \in Conns
      BY <3>1, DeliveryAssumption DEF Hits, TypeOK
    <3>3. writer = None
      BY <1>2 DEF BroadcastBatch, RLockable
    <3>4. conn[m[2][1]] \notin {"unset", "stop", "close"}
      BY <3>2, <3>3, DeliveryAssumption DEF LockInv
    <3>5. QED
      BY <3>1, <3>2, <3>4 DEF LockInv
  <2>3. QED
    BY <2>1, <2>2 DEF PushToLive, TypeOK
<1>3. ASSUME NEW p \in Callers, CallerStep(p)
      PROVE  PushToLive'
  <2>1. UNCHANGED conn
    BY <1>3 DEF CallerStep, Push, Return, connVars
  <2>2. UNCHANGED todo \/ \E j : todo' = [todo EXCEPT ![at[p]] = @ \ {j}]
    BY <1>3 DEF CallerStep, Push, Return
  <2>3. \A k \in Calls : todo'[k] \subseteq todo[k]
    BY <2>2 DEF TypeOK
  <2>4. QED
    BY <2>1, <2>3 DEF PushToLive
<1>4. CASE UNCHANGED <<conn, todo>>
  BY <1>4 DEF PushToLive
<1>5. QED
  <2>1. ASSUME NEW k \in Calls, CloseMsgs(k)
        PROVE  UNCHANGED <<conn, todo>>
    BY <2>1 DEF CloseMsgs, connVars
  <2>2. ASSUME DispatchStep \/ (\E c \in Conns : WriterStep(c)) \/ UNCHANGED vars
        PROVE  UNCHANGED <<conn, todo>>
    BY <2>2, DispatchFrame, WriterFrame DEF connVars, pushVars, vars
  <2>3. QED
    BY <1>1, <1>2, <1>3, <1>4, <2>1, <2>2 DEF Next, Terminating

-----------------------------------------------------------------------------
(* Where jobs move *)

\* A job that leaves a place A for a place B, the four places being disjoint.
\* s.outgoing <- j.
LEMMA PushMoves ==
  ASSUME TypeOK, CallInv, PlaceInv, NEW p \in Callers, Push(p)
  PROVE  \E j \in Unpushed :
           /\ Unpushed' = Unpushed \ {j}
           /\ Range(outgoing') = Range(outgoing) \cup {j}
           /\ IsInjective(outgoing')
           /\ j \in Job
           /\ UNCHANGED <<InHand, Queued, jobs, left, cur, wg, phase, dpc, hand, qwg, wpc>>
<1>1. PICK j \in todo[at[p]] : /\ outgoing' = Append(outgoing, j)
                              /\ todo' = [todo EXCEPT ![at[p]] = @ \ {j}]
  BY DEF Push
<1>2. UNCHANGED <<dpc, hand, qwg, jobs, left, cur, wg, phase, wpc>>
  BY DEF Push, queueVars, writeVars
<1>3. at[p] \in Calls
  BY DeliveryAssumption DEF Push, TypeOK, Calls
<1>4. j \in Unpushed /\ j \in Job
  BY <1>1, <1>3 DEF Unpushed, TypeOK
<1>5. j.k = at[p]
  BY <1>1, <1>3 DEF CallInv
<1>6. Unpushed' = Unpushed \ {j}
  <2>1. \A k \in Calls : todo'[k] = todo[k] \ {j}
    BY <1>1, <1>5 DEF TypeOK, CallInv
  <2>2. QED
    BY <2>1 DEF Unpushed
<1>7. Range(outgoing') = Range(outgoing) \cup {j}
  BY <1>1, <1>4, RangeAppend DEF TypeOK
<1>8. IsInjective(outgoing')
  BY <1>1, <1>4, InjectiveAppend DEF PlaceInv, TypeOK
<1>9. UNCHANGED <<InHand, Queued>>
  BY <1>2 DEF InHand, Queued
<1>10. QED
  BY <1>2, <1>4, <1>6, <1>7, <1>8, <1>9

\* The dispatcher receives from s.outgoing.
LEMMA TakeMoves ==
  ASSUME TypeOK, PlaceInv, HandInv, Take
  PROVE  \E j \in Range(outgoing) :
           /\ Range(outgoing') = Range(outgoing) \ {j}
           /\ IsInjective(outgoing')
           /\ InHand = {} /\ InHand' = {j}
           /\ j \in Job /\ hand' = j /\ dpc' = "check"
           /\ UNCHANGED <<Unpushed, Queued, qwg, jobs, left, cur, wg, phase, wpc>>
<1>1. /\ dpc = "idle" /\ dpc' = "check" /\ outgoing # <<>>
      /\ hand' = Head(outgoing) /\ outgoing' = Tail(outgoing)
      /\ UNCHANGED <<todo, qwg, jobs, left, cur, wg, phase, wpc>>
  BY DEF Take, pushVars, writeVars
<1>2. /\ Head(outgoing) \in Range(outgoing)
      /\ Range(outgoing') = Range(outgoing) \ {Head(outgoing)}
      /\ IsInjective(outgoing')
  BY <1>1, RangeTail DEF TypeOK, PlaceInv
<1>3. Head(outgoing) \in Job
  BY <1>1, HeadTailProperties DEF TypeOK
<1>4. InHand = {} /\ InHand' = {Head(outgoing)}
  BY <1>1 DEF InHand
<1>5. UNCHANGED <<Unpushed, Queued>>
  BY <1>1 DEF Unpushed, Queued
<1>6. QED
  BY <1>1, <1>2, <1>3, <1>4, <1>5

\* The dispatcher sends on the client's channel.
LEMMA QueueMoves ==
  ASSUME TypeOK, PlaceInv, HandInv, QueueSend
  PROVE  /\ InHand = {hand} /\ InHand' = {}
         /\ hand \in Job
         /\ Queued' = Queued \cup {hand}
         /\ \A d \in Conns : Range(jobs'[d]) = Range(jobs[d]) \cup (IF d = hand.c THEN {hand} ELSE {})
         /\ \A d \in Conns : IsInjective(jobs'[d])
         /\ dpc' = "done" /\ dpc = "send"
         /\ UNCHANGED <<Unpushed, outgoing, hand, qwg, left, cur, wg, phase, wpc>>
<1> DEFINE c == hand.c
<1>1. /\ dpc = "send" /\ dpc' = "done"
      /\ jobs' = [jobs EXCEPT ![c] = Append(@, hand)]
      /\ UNCHANGED <<todo, outgoing, hand, qwg, left, cur, wg, phase, wpc>>
  BY DEF QueueSend, pushVars, writeVars
<1>2. hand \in Job /\ c \in Conns
  BY <1>1 DEF HandInv, TypeOK, Job
<1>3. InHand = {hand} /\ InHand' = {}
  BY <1>1 DEF InHand
<1>4. hand \notin Range(jobs[c])
  BY <1>2, <1>3 DEF PlaceInv, Queued
<1>5. \A d \in Conns : Range(jobs'[d]) = Range(jobs[d]) \cup (IF d = hand.c THEN {hand} ELSE {})
  <2>1. Range(Append(jobs[c], hand)) = Range(jobs[c]) \cup {hand}
    BY <1>2, RangeAppend DEF TypeOK
  <2>2. QED
    BY <1>1, <1>2, <2>1 DEF TypeOK
<1>6. \A d \in Conns : IsInjective(jobs'[d])
  <2>1. IsInjective(Append(jobs[c], hand))
    BY <1>2, <1>4, InjectiveAppend DEF TypeOK, PlaceInv
  <2>2. QED
    BY <1>1, <1>2, <2>1 DEF TypeOK, PlaceInv
<1>7. Queued' = Queued \cup {hand}
  BY <1>2, <1>5 DEF Queued
<1>8. UNCHANGED Unpushed
  BY <1>1 DEF Unpushed
<1>9. QED
  BY <1>1, <1>2, <1>3, <1>5, <1>6, <1>7, <1>8

\* A writer receives its next job.
LEMMA WriterMoves ==
  ASSUME TypeOK, PlaceInv, QueueInv, NEW c \in Conns, WriterTake(c)
  PROVE  \E j \in Range(jobs[c]) :
           /\ j \in Job /\ j.c = c
           /\ Queued' = Queued \ {j}
           /\ \A d \in Conns : Range(jobs'[d]) = Range(jobs[d]) \ {j}
           /\ \A d \in Conns : IsInjective(jobs'[d])
           /\ cur' = [cur EXCEPT ![c] = j]
           /\ left' = [left EXCEPT ![c] = j.ms]
           /\ wpc' = [wpc EXCEPT ![c] = "send"]
           /\ wpc[c] = "idle"
           /\ UNCHANGED <<Unpushed, outgoing, InHand, hand, dpc, qwg, wg, phase>>
<1> DEFINE j == Head(jobs[c])
<1>1. /\ wpc[c] = "idle" /\ jobs[c] # <<>>
      /\ jobs' = [jobs EXCEPT ![c] = Tail(@)]
      /\ cur' = [cur EXCEPT ![c] = j]
      /\ left' = [left EXCEPT ![c] = j.ms]
      /\ wpc' = [wpc EXCEPT ![c] = "send"]
      /\ UNCHANGED <<todo, outgoing, hand, dpc, qwg, wg, phase>>
  BY DEF WriterTake, pushVars, queueVars
<1>2. /\ j \in Range(jobs[c])
      /\ Range(Tail(jobs[c])) = Range(jobs[c]) \ {j}
      /\ IsInjective(Tail(jobs[c]))
  BY <1>1, RangeTail DEF TypeOK, PlaceInv
<1>3. j \in Job /\ j.c = c
  BY <1>1, <1>2, HeadTailProperties DEF TypeOK, QueueInv
<1>4. \A d \in Conns : d # c => j \notin Range(jobs[d])
  BY <1>3 DEF QueueInv
<1>5. \A d \in Conns : Range(jobs'[d]) = Range(jobs[d]) \ {j}
  BY <1>1, <1>2, <1>4 DEF TypeOK
<1>6. \A d \in Conns : IsInjective(jobs'[d])
  BY <1>1, <1>2 DEF TypeOK, PlaceInv
<1>7. Queued' = Queued \ {j}
  BY <1>5 DEF Queued
<1>8. UNCHANGED <<Unpushed, InHand>>
  BY <1>1 DEF Unpushed, InHand
<1>9. QED
  BY <1>1, <1>2, <1>3, <1>5, <1>6, <1>7, <1>8

-----------------------------------------------------------------------------
(* Jobs, places and counters *)

Core == WaitInv /\ HandInv /\ QueueInv /\ WriterInv /\ PlaceInv /\ CountInv

\* The placeholder for "no job" is not a job of any call.
LEMMA NoJobIsNoJob == NoJob \notin Job /\ NoJob.k \notin Calls
BY DEF NoJob, Job, Calls

\* What waits in the queues is a job.
LEMMA WaitingAreJobs ==
  ASSUME TypeOK, HandInv
  PROVE  Waiting \subseteq Job
<1>1. Unpushed \subseteq Job
  BY DEF Unpushed, TypeOK
<1>2. Range(outgoing) \subseteq Job
  BY LenProperties DEF Range, TypeOK
<1>3. InHand \subseteq Job
  BY DEF InHand, HandInv, TypeOK
<1>4. \A c \in Conns : Range(jobs[c]) \subseteq Job
  <2>1. TAKE c \in Conns
  <2>2. jobs[c] \in Seq(Job)
    BY DEF TypeOK
  <2>3. QED
    BY <2>2, LenProperties DEF Range
<1>5. QED
  BY <1>1, <1>2, <1>3, <1>4 DEF Waiting, Queued

\* A call owes the messages of its waiting jobs and of its busy writers.
LEMMA PendingMembers ==
  \A k, x : x \in Pending(k) <=> \/ \E j \in Waiting : j.k = k /\ x \in j.ms
                                \/ \E c \in Conns : cur[c].k = k /\ x \in left[c]
<1>1. TAKE k, x
<1>2. x \in WaitingUses(k) <=> \E j \in Waiting : j.k = k /\ x \in j.ms
  BY DEF WaitingUses
<1>3. x \in WriterUses(k) <=> \E c \in Conns : cur[c].k = k /\ x \in left[c]
  BY DEF WriterUses
<1>4. QED
  BY <1>2, <1>3 DEF Pending

\* A step after which every call owes what it owed.
Kept == \A l \in Calls : Pending(l)' = Pending(l)

\* A step that settles part of what one open call owes.
Settled ==
  \E k \in Calls : /\ phase[k] \in {"push", "wait"}
                  /\ Pending(k)' \subseteq Pending(k)
                  /\ \A l \in Calls : l # k => Pending(l)' = Pending(l)

\* The dispatcher keeps its hand and the clients' WaitGroups in step.
LEMMA HandInvStep ==
  ASSUME TypeOK, HandInv, DispatchStep
  PROVE  HandInv'
<1> USE DEF HandInv, TypeOK
<1>1. dpc # "idle" => hand \in Job /\ hand.c \in Conns
  BY DEF Job
<1>2. CASE Take
  <2>1. Head(outgoing) \in Job
    BY <1>2, HeadTailProperties DEF Take
  <2>2. QED
    BY <1>2, <2>1, NoJobIsNoJob DEF Take
<1>3. CASE QueueStopped
  BY <1>3 DEF QueueStopped
<1>4. CASE QueueCheck
  BY <1>4 DEF QueueCheck
<1>5. CASE QueueAdd
  BY <1>1, <1>5 DEF QueueAdd
<1>6. CASE QueueSend
  BY <1>6 DEF QueueSend
<1>7. CASE QueuePanic
  BY <1>7 DEF QueuePanic, queueVars
<1>8. CASE QueueDone
  <2>1. /\ dpc = "done" /\ dpc' = "idle" /\ hand' = NoJob /\ hand \in Job /\ hand.c \in Conns
        /\ qwg' = [qwg EXCEPT ![hand.c] = @ - 1]
    BY <1>1, <1>8 DEF QueueDone
  <2>2. \A c \in Conns : qwg'[c] = 0
    BY <2>1
  <2>3. QED
    BY <2>1, <2>2
<1>9. QED
  BY <1>2, <1>3, <1>4, <1>5, <1>6, <1>7, <1>8 DEF DispatchStep

\* Steps that move no job and settle nothing.
LEMMA StillCore ==
  ASSUME Core, HandInv', WriterInv',
         UNCHANGED <<todo, outgoing, InHand, jobs, left, cur, wg, phase>>
  PROVE  Core' /\ Kept
<1>1. UNCHANGED <<Unpushed, Queued, Waiting>>
  BY DEF Unpushed, Queued, Waiting
<1>2. \A k : Pending(k)' = Pending(k)
  BY <1>1 DEF Pending, WaitingUses, WriterUses
<1>3. WaitInv'
  BY <1>1 DEF Core, WaitInv
<1>4. QueueInv'
  BY DEF Core, QueueInv
<1>5. PlaceInv'
  BY <1>1 DEF Core, PlaceInv
<1>6. CountInv'
  BY <1>2 DEF Core, CountInv
<1>7. QED
  BY <1>2, <1>3, <1>4, <1>5, <1>6 DEF Core, Kept

\* Steps of a connection's goroutine.
LEMMA ConnCore ==
  ASSUME TypeOK, Core, NEW c \in Conns, ConnStep(c) \/ Leave(c)
  PROVE  Core' /\ Kept
<1>1. UNCHANGED <<todo, outgoing, dpc, hand, qwg, jobs, left, cur, wg, phase>>
  BY ConnFrame DEF pushVars, queueVars
<1>2. UNCHANGED InHand
  BY <1>1 DEF InHand
<1>3. HandInv'
  BY <1>1 DEF Core, HandInv
<1>4. WriterInv'
  <2>1. CASE SetClient(c)
    <3>1. /\ conn[c] = "set" /\ conn' = [conn EXCEPT ![c] = "run"]
          /\ wpc' = [wpc EXCEPT ![c] = "idle"]
      BY <2>1 DEF SetClient
    <3>2. wpc[c] = "off" /\ cur[c] = NoJob /\ left[c] = {}
      BY <3>1 DEF Core, WriterInv
    <3>3. QED
      BY <1>1, <3>1, <3>2 DEF Core, WriterInv, TypeOK
  <2>2. CASE ~SetClient(c)
    <3>1. UNCHANGED wpc /\ \A d \in Conns : conn'[d] \in {"new", "set"} => conn[d] \in {"new", "set"}
      BY <2>2 DEF ConnStep, LockSet, Leave, LockUnset, Stop, StopWait, CloseJobs, writeVars, TypeOK
    <3>2. QED
      BY <1>1, <3>1 DEF Core, WriterInv
  <2>3. QED
    BY <2>1, <2>2
<1>5. QED
  BY <1>1, <1>2, <1>3, <1>4, StillCore

\* A call returns.
LEMMA ReturnCore ==
  ASSUME TypeOK, CallInv, Core, NEW p \in Callers, Return(p)
  PROVE  Core' /\ Kept
<1> DEFINE k == at[p]
<1>1. /\ k \in Calls
      /\ phase' = [phase EXCEPT ![k] = "wait"]
      /\ UNCHANGED <<conn, todo, outgoing, dpc, hand, qwg, jobs, left, cur, wg, wpc>>
  BY DeliveryAssumption DEF Return, TypeOK, Calls, connVars, queueVars, writeVars
<1>2. phase[k] = "push"
  BY DEF Return, CallInv
<1>3. UNCHANGED <<Unpushed, Queued, InHand, Waiting>>
  BY <1>1 DEF Unpushed, Queued, InHand, Waiting
<1>4. \A l : Pending(l)' = Pending(l)
  BY <1>1, <1>3 DEF Pending, WaitingUses, WriterUses
<1>5. \A l \in Calls : /\ phase[l] \in {"push", "wait"} => phase'[l] \in {"push", "wait"}
                       /\ phase'[l] = "closed" => phase[l] = "closed"
  BY <1>1, <1>2 DEF TypeOK
<1>6. WaitInv'
  <2>1. \A j \in Waiting : j.k \in Calls
    BY WaitingAreJobs DEF Core, Job
  <2>2. QED
    BY <1>3, <1>5, <2>1 DEF Core, WaitInv
<1>7. WriterInv'
  <2>1. \A c \in Conns : cur[c] # NoJob => cur[c].k \in Calls
    BY DEF TypeOK, Job
  <2>2. QED
    BY <1>1, <1>5, <2>1 DEF Core, WriterInv
<1>8. PlaceInv'
  BY <1>1, <1>3 DEF Core, PlaceInv
<1>9. CountInv'
  BY <1>1, <1>4, <1>5 DEF Core, CountInv
<1>10. QED
  BY <1>1, <1>4, <1>6, <1>7, <1>8, <1>9 DEF Core, HandInv, QueueInv, Kept

\* The messages of a batch are closed.
LEMMA CloseCore ==
  ASSUME TypeOK, CallInv, Core, NEW k \in Calls, CloseMsgs(k)
  PROVE  Core' /\ Kept
<1>1. /\ phase[k] = "wait" /\ wg[k] = 0
      /\ phase' = [phase EXCEPT ![k] = "closed"]
      /\ UNCHANGED <<conn, todo, outgoing, dpc, hand, qwg, jobs, left, cur, wg, wpc>>
  BY DEF CloseMsgs, connVars, queueVars, writeVars
<1>2. UNCHANGED <<Unpushed, Queued, InHand, Waiting>>
  BY <1>1 DEF Unpushed, Queued, InHand, Waiting
<1>3. \A l : Pending(l)' = Pending(l)
  BY <1>1, <1>2 DEF Pending, WaitingUses, WriterUses
<1>4. Pending(k) = {}
  <2>1. IsFiniteSet(Pending(k)) /\ Cardinality(Pending(k)) = 0
    BY <1>1 DEF Core, CountInv
  <2>2. QED
    BY <2>1, FS_EmptySet
<1>5. \A l \in Calls : l # k => phase'[l] = phase[l]
  BY <1>1 DEF TypeOK
<1>6. WaitInv'
  <2>1. \A j \in Waiting : j.k \in Calls /\ j.k # k
    <3>1. TAKE j \in Waiting
    <3>2. j.ms # {}
      BY DEF Core, WaitInv
    <3>3. j.k # k
      BY <1>4, <3>2, PendingMembers
    <3>4. QED
      BY <3>3, WaitingAreJobs DEF Core, Job
  <2>2. QED
    BY <1>2, <1>5, <2>1 DEF Core, WaitInv
<1>7. WriterInv'
  <2>1. \A c \in Conns : wpc[c] \in {"send", "done"} => cur[c].k \in Calls /\ cur[c].k # k
    <3>1. SUFFICES ASSUME NEW c \in Conns, wpc[c] \in {"send", "done"}
                   PROVE  cur[c].k \in Calls /\ cur[c].k # k
      OBVIOUS
    <3>2. cur[c] # NoJob /\ left[c] # {}
      BY <3>1 DEF Core, WriterInv
    <3>3. cur[c].k # k
      BY <1>4, <3>2, PendingMembers
    <3>4. QED
      BY <3>2, <3>3 DEF TypeOK, Job
  <2>2. QED
    BY <1>1, <1>5, <2>1 DEF Core, WriterInv
<1>8. PlaceInv'
  BY <1>1, <1>2 DEF Core, PlaceInv
<1>9. CountInv'
  BY <1>1, <1>3, <1>4, <1>5 DEF Core, CountInv
<1>10. QED
  BY <1>1, <1>3, <1>6, <1>7, <1>8, <1>9 DEF Core, HandInv, QueueInv, Kept

\* The part of PlaceInv about places.
Distinct ==
  /\ IsInjective(outgoing)
  /\ \A c \in Conns : IsInjective(jobs[c])
  /\ Unpushed \cap (Range(outgoing) \cup InHand \cup Queued) = {}
  /\ Range(outgoing) \cap (InHand \cup Queued) = {}
  /\ InHand \cap Queued = {}

\* A job moves on: the same jobs wait, elsewhere.
LEMMA MoveCore ==
  ASSUME Core, Waiting' = Waiting, UNCHANGED <<left, cur, wg, phase, wpc, conn>>,
         HandInv', QueueInv', Distinct'
  PROVE  Core' /\ Kept
<1>1. \A k : Pending(k)' = Pending(k)
  BY DEF Pending, WaitingUses, WriterUses
<1>2. WaitInv'
  BY DEF Core, WaitInv
<1>3. WriterInv'
  BY DEF Core, WriterInv
<1>4. PlaceInv'
  BY DEF Core, PlaceInv, Distinct
<1>5. CountInv'
  BY <1>1 DEF Core, CountInv
<1>6. QED
  BY <1>1, <1>2, <1>3, <1>4, <1>5 DEF Core, Kept

\* s.outgoing <- j.
LEMMA PushCore ==
  ASSUME TypeOK, CallInv, Core, NEW p \in Callers, Push(p)
  PROVE  Core' /\ Kept
<1>1. PlaceInv
  BY DEF Core
<1>2. PICK j \in Unpushed :
        /\ Unpushed' = Unpushed \ {j}
        /\ Range(outgoing') = Range(outgoing) \cup {j}
        /\ IsInjective(outgoing')
        /\ UNCHANGED <<InHand, Queued, jobs, left, cur, wg, phase, dpc, hand, qwg, wpc>>
  BY <1>1, PushMoves
<1>3. UNCHANGED conn
  BY DEF Push, connVars
<1>4. Waiting' = Waiting
  BY <1>2 DEF Waiting
<1>5. Distinct'
  BY <1>1, <1>2 DEF Distinct, PlaceInv
<1>6. HandInv' /\ QueueInv'
  BY <1>2 DEF Core, HandInv, QueueInv
<1>7. QED
  BY <1>2, <1>3, <1>4, <1>5, <1>6, MoveCore

\* The dispatcher takes a job.
LEMMA TakeCore ==
  ASSUME TypeOK, Core, Take
  PROVE  Core' /\ Kept
<1>1. PlaceInv /\ HandInv
  BY DEF Core
<1>2. PICK j \in Range(outgoing) :
        /\ Range(outgoing') = Range(outgoing) \ {j}
        /\ IsInjective(outgoing')
        /\ InHand = {} /\ InHand' = {j}
        /\ j \in Job /\ hand' = j /\ dpc' = "check"
        /\ UNCHANGED <<Unpushed, Queued, qwg, jobs, left, cur, wg, phase, wpc>>
  BY <1>1, TakeMoves
<1>3. UNCHANGED conn
  BY DEF Take, connVars
<1>4. Waiting' = Waiting
  BY <1>2 DEF Waiting
<1>5. Distinct'
  BY <1>1, <1>2 DEF Distinct, PlaceInv
<1>6. HandInv'
  BY <1>1, HandInvStep DEF DispatchStep
<1>7. QueueInv'
  BY <1>2 DEF Core, QueueInv
<1>8. QED
  BY <1>2, <1>3, <1>4, <1>5, <1>6, <1>7, MoveCore

\* The dispatcher sends the job to the client.
LEMMA SendCore ==
  ASSUME TypeOK, Core, QueueSend
  PROVE  Core' /\ Kept
<1>1. PlaceInv /\ HandInv
  BY DEF Core
<1>2. /\ InHand = {hand} /\ InHand' = {}
      /\ hand \in Job
      /\ Queued' = Queued \cup {hand}
      /\ \A d \in Conns : Range(jobs'[d]) = Range(jobs[d]) \cup (IF d = hand.c THEN {hand} ELSE {})
      /\ \A d \in Conns : IsInjective(jobs'[d])
      /\ dpc' = "done" /\ dpc = "send"
      /\ UNCHANGED <<Unpushed, outgoing, hand, qwg, left, cur, wg, phase, wpc>>
  BY <1>1, QueueMoves
<1>3. UNCHANGED conn
  BY DEF QueueSend, connVars
<1>4. Waiting' = Waiting
  BY <1>2 DEF Waiting
<1>5. Distinct'
  BY <1>1, <1>2 DEF Distinct, PlaceInv
<1>6. HandInv'
  BY <1>1, HandInvStep DEF DispatchStep
<1>7. QueueInv'
  BY <1>2 DEF Core, QueueInv
<1>8. QED
  BY <1>2, <1>3, <1>4, <1>5, <1>6, <1>7, MoveCore

\* Queue on a stopped client: the whole job is given back.
LEMMA GiveBackCore ==
  ASSUME TypeOK, Core, QueueStopped
  PROVE  /\ Core'
         /\ Settled
         /\ \A l \in Calls : /\ Pending(l)' \subseteq Pending(l)
                            /\ \A m \in Pending(l) \ Pending(l)' : m[2][1] = hand.c
<1>a. PICK j : j = hand
  OBVIOUS
<1>b. PICK k : k = j.k
  OBVIOUS
<1>1. /\ dpc = "check" /\ dpc' = "idle" /\ hand' = NoJob
      /\ wg' = [wg EXCEPT ![k] = @ - Cardinality(j.ms)]
      /\ UNCHANGED <<conn, todo, outgoing, jobs, left, cur, phase, wpc>>
  BY <1>a, <1>b DEF QueueStopped, connVars, pushVars, writeVars
<1>2. j \in Job /\ k \in Calls
  BY <1>a, <1>b, <1>1 DEF Core, HandInv, TypeOK, Job
<1>3. InHand = {j} /\ InHand' = {}
  BY <1>a, <1>1 DEF InHand
<1>4. UNCHANGED <<Unpushed, Queued>>
  BY <1>1 DEF Unpushed, Queued
<1>5. Waiting' = Waiting \ {j}
  BY <1>1, <1>3, <1>4 DEF Waiting, Core, PlaceInv
<1>6. j \in Waiting
  BY <1>3 DEF Waiting
<1>7. Pending(k)' = Pending(k) \ j.ms
  <2>1. \A i \in Waiting : i.k = k /\ i # j => i.ms \cap j.ms = {}
    BY <1>b, <1>6 DEF Core, PlaceInv
  <2>2. \A c \in Conns : cur[c].k = k => left[c] \cap j.ms = {}
    BY <1>b, <1>6 DEF Core, PlaceInv
  <2>3. WaitingUses(k)' = WaitingUses(k) \ j.ms
    BY <1>b, <1>5, <2>1 DEF WaitingUses
  <2>4. WriterUses(k)' = WriterUses(k)
    BY <1>1 DEF WriterUses
  <2>5. WriterUses(k) \cap j.ms = {}
    BY <2>2 DEF WriterUses
  <2>6. QED
    BY <2>3, <2>4, <2>5 DEF Pending
<1>8. \A l : l # k => Pending(l)' = Pending(l)
  <2>1. SUFFICES ASSUME NEW l, l # k PROVE Pending(l)' = Pending(l)
    OBVIOUS
  <2>2. {i \in Waiting' : i.k = l} = {i \in Waiting : i.k = l}
    BY <1>b, <1>5, <2>1
  <2>3. QED
    BY <1>1, <2>2 DEF Pending, WaitingUses, WriterUses
<1>9. CountInv'
  <2>1. SUFFICES ASSUME NEW l \in Calls
                 PROVE  /\ IsFiniteSet(Pending(l)')
                        /\ wg'[l] = Cardinality(Pending(l)')
                        /\ phase'[l] = "closed" => Pending(l)' = {}
    BY DEF CountInv
  <2>2. CASE l # k
    BY <1>1, <1>8, <2>2 DEF Core, CountInv, TypeOK
  <2>3. CASE l = k
    <3>1. IsFiniteSet(Pending(k)) /\ wg[k] = Cardinality(Pending(k))
      BY <1>2 DEF Core, CountInv
    <3>2. j.ms \subseteq Pending(k)
      BY <1>b, <1>6, PendingMembers
    <3>3. IsFiniteSet(j.ms)
      BY <1>2 DEF Job, Uses
    <3>4. /\ IsFiniteSet(Pending(k) \ j.ms)
          /\ Cardinality(Pending(k) \ j.ms) = Cardinality(Pending(k)) - Cardinality(j.ms)
      <4>1. Pending(k) \cap j.ms = j.ms
        BY <3>2
      <4>2. /\ IsFiniteSet(Pending(k) \ j.ms)
            /\ Cardinality(Pending(k) \ j.ms) = Cardinality(Pending(k)) - Cardinality(Pending(k) \cap j.ms)
        BY <3>1, FS_Difference
      <4>3. QED
        BY <4>1, <4>2
    <3>5. wg'[k] = wg[k] - Cardinality(j.ms)
      BY <1>1, <1>2 DEF TypeOK
    <3>6. phase'[k] # "closed"
      BY <1>b, <1>1, <1>6 DEF Core, WaitInv
    <3>7. QED
      BY <1>7, <2>3, <3>1, <3>4, <3>5, <3>6
  <2>4. QED
    BY <2>2, <2>3
<1>10. WaitInv'
  BY <1>1, <1>5 DEF Core, WaitInv
<1>11. HandInv' /\ QueueInv' /\ WriterInv'
  <2>1. HandInv'
    BY HandInvStep DEF Core, DispatchStep
  <2>2. QED
    BY <1>1, <2>1 DEF Core, QueueInv, WriterInv
<1>12. PlaceInv'
  BY <1>1, <1>3, <1>4, <1>5 DEF Core, PlaceInv
<1>13. Settled
  <2>1. phase[k] \in {"push", "wait"}
    BY <1>b, <1>6 DEF Core, WaitInv
  <2>2. QED
    BY <1>2, <1>7, <1>8, <2>1 DEF Settled
<1>14. \A l \in Calls : /\ Pending(l)' \subseteq Pending(l)
                       /\ \A m \in Pending(l) \ Pending(l)' : m[2][1] = hand.c
  <2>1. \A m \in j.ms : m[2][1] = j.c
    BY <1>6 DEF Core, WaitInv
  <2>2. QED
    BY <1>a, <1>7, <1>8, <2>1
<1>15. QED
  BY <1>9, <1>10, <1>11, <1>12, <1>13, <1>14 DEF Core

\* The dispatcher's other steps move no job: after the send, the job in its
\* hand is already in the client's queue.
LEMMA DispatchCore ==
  ASSUME TypeOK, Core, DispatchStep
  PROVE  Core' /\ (Kept \/ (QueueStopped /\ Settled))
<1>1. CASE QueueCheck \/ QueueAdd \/ QueuePanic \/ QueueDone
  <2>1. /\ UNCHANGED <<conn, todo, outgoing, jobs, left, cur, wg, phase, wpc>>
        /\ \/ /\ dpc \in {"check", "add", "send"} /\ dpc' \in {"check", "add", "send"}
              /\ hand' = hand
           \/ dpc = "done" /\ dpc' = "idle" /\ hand' = NoJob
    BY <1>1 DEF QueueCheck, QueueAdd, QueuePanic, QueueDone, connVars, pushVars, queueVars, writeVars
  <2>2. UNCHANGED InHand
    BY <2>1 DEF InHand
  <2>3. HandInv'
    BY HandInvStep DEF Core
  <2>4. WriterInv'
    BY <2>1 DEF Core, WriterInv
  <2>5. QED
    BY <2>1, <2>2, <2>3, <2>4, StillCore
<1>2. QED
  BY <1>1, TakeCore, SendCore, GiveBackCore DEF DispatchStep

\* A writer takes a job: what waited in its queue is now its own to settle.
LEMMA WriterTakeCore ==
  ASSUME TypeOK, Core, NEW c \in Conns, WriterTake(c)
  PROVE  Core' /\ Kept
<1>1. PlaceInv /\ QueueInv /\ WaitInv
  BY DEF Core
<1>2. PICK j \in Range(jobs[c]) :
        /\ j \in Job /\ j.c = c
        /\ Queued' = Queued \ {j}
        /\ \A d \in Conns : Range(jobs'[d]) = Range(jobs[d]) \ {j}
        /\ \A d \in Conns : IsInjective(jobs'[d])
        /\ cur' = [cur EXCEPT ![c] = j]
        /\ left' = [left EXCEPT ![c] = j.ms]
        /\ wpc' = [wpc EXCEPT ![c] = "send"]
        /\ wpc[c] = "idle"
        /\ UNCHANGED <<Unpushed, outgoing, InHand, hand, dpc, qwg, wg, phase>>
  BY <1>1, WriterMoves
<1>3. UNCHANGED conn
  BY DEF WriterTake, connVars
<1>4. left[c] = {} /\ cur[c] = NoJob
  BY <1>2 DEF Core, WriterInv
<1>5. j \in Queued /\ j \in Waiting
  BY <1>2 DEF Queued, Waiting
<1>6. Waiting' = Waiting \ {j}
  BY <1>1, <1>2, <1>5 DEF Waiting, PlaceInv
<1>7. cur'[c] = j /\ left'[c] = j.ms /\ wpc'[c] = "send"
  BY <1>2 DEF TypeOK
<1>8. \A d \in Conns : d # c => cur'[d] = cur[d] /\ left'[d] = left[d] /\ wpc'[d] = wpc[d]
  BY <1>2 DEF TypeOK
<1>9. \A l : Pending(l)' = Pending(l)
  <2>1. TAKE l
  <2>2. \A x : x \in Pending(l)' <=> \/ \E i \in Waiting' : i.k = l /\ x \in i.ms
                                   \/ \E d \in Conns : cur'[d].k = l /\ x \in left'[d]
    BY DEF Pending, WaitingUses, WriterUses
  <2>3. \A x : x \in Pending(l) <=> \/ \E i \in Waiting : i.k = l /\ x \in i.ms
                                  \/ \E d \in Conns : cur[d].k = l /\ x \in left[d]
    BY PendingMembers
  <2>4. \A x : (\E d \in Conns : cur'[d].k = l /\ x \in left'[d])
               <=> (j.k = l /\ x \in j.ms) \/ \E d \in Conns : cur[d].k = l /\ x \in left[d]
    BY <1>4, <1>7, <1>8
  <2>5. \A x : (\E i \in Waiting : i.k = l /\ x \in i.ms)
               <=> (j.k = l /\ x \in j.ms) \/ \E i \in Waiting' : i.k = l /\ x \in i.ms
    BY <1>5, <1>6
  <2>6. QED
    BY <2>2, <2>3, <2>4, <2>5
<1>10. CountInv'
  BY <1>2, <1>9 DEF Core, CountInv
<1>11. WaitInv'
  BY <1>2, <1>6 DEF Core, WaitInv
<1>12. HandInv' /\ QueueInv'
  BY <1>2 DEF Core, HandInv, QueueInv
<1>13. WriterInv'
  <2>1. /\ j # NoJob /\ phase[j.k] \in {"push", "wait"}
        /\ j.ms # {} /\ \A m \in j.ms : m[2][1] = c
    BY <1>1, <1>2, <1>5, NoJobIsNoJob DEF WaitInv
  <2>2. conn[c] \notin {"new", "set"}
    BY <1>2 DEF Core, WriterInv
  <2>3. QED
    BY <1>2, <1>3, <1>7, <1>8, <2>1, <2>2 DEF Core, WriterInv
<1>14. PlaceInv'
  <2>1. Distinct'
    BY <1>1, <1>2 DEF Distinct, PlaceInv
  <2>2. \A i, i2 \in Waiting' : i.k = i2.k /\ i.ms \cap i2.ms # {} => i = i2
    BY <1>1, <1>6 DEF PlaceInv
  <2>3. \A i \in Waiting', d \in Conns : cur'[d].k = i.k => i.ms \cap left'[d] = {}
    BY <1>1, <1>5, <1>6, <1>7, <1>8 DEF PlaceInv
  <2>4. QED
    BY <2>1, <2>2, <2>3 DEF PlaceInv, Distinct
<1>15. QED
  BY <1>9, <1>10, <1>11, <1>12, <1>13, <1>14 DEF Core, Kept

\* A writer acknowledges a message.
LEMMA WriterDoneCore ==
  ASSUME TypeOK, Core, NEW c \in Conns, WriterDone(c)
  PROVE  /\ Core'
         /\ Settled
         /\ \E k \in Calls : \E m \in NextMsgs(c) :
              /\ k = cur[c].k /\ m \in Pending(k)
              /\ left' = [left EXCEPT ![c] = @ \ {m}]
              /\ Pending(k)' = Pending(k) \ {m}
              /\ \A l \in Calls : l # k => Pending(l)' = Pending(l)
<1>1. PICK m \in NextMsgs(c) :
        /\ left' = [left EXCEPT ![c] = @ \ {m}]
        /\ IF left[c] = {m}
           THEN wpc' = [wpc EXCEPT ![c] = "idle"] /\ cur' = [cur EXCEPT ![c] = NoJob]
           ELSE wpc' = [wpc EXCEPT ![c] = "send"] /\ UNCHANGED cur
  BY DEF WriterDone
<1>2. PICK k : k = cur[c].k
  OBVIOUS
<1>3. /\ wpc[c] = "done"
      /\ wg' = [wg EXCEPT ![k] = @ - 1]
      /\ UNCHANGED <<conn, todo, outgoing, dpc, hand, qwg, jobs, phase>>
  BY <1>2 DEF WriterDone, connVars, pushVars, queueVars
<1>4. /\ cur[c] # NoJob /\ phase[k] \in {"push", "wait"}
      /\ \A d \in Conns : \A n \in left[d] : n[2][1] = d
      /\ conn[c] \notin {"new", "set"}
  <2>1. \A d \in Conns : \A n \in left[d] : n[2][1] = d
    BY DEF Core, WriterInv
  <2>2. QED
    BY <1>2, <1>3, <2>1 DEF Core, WriterInv
<1>5. k \in Calls
  BY <1>2, <1>4 DEF TypeOK, Job
<1>6. m \in left[c]
  BY <1>1 DEF NextMsgs
<1>7. UNCHANGED <<Unpushed, Queued, InHand, Waiting>>
  BY <1>3 DEF Unpushed, Queued, InHand, Waiting
<1>8. /\ left'[c] = left[c] \ {m}
      /\ IF left[c] = {m} THEN wpc'[c] = "idle" /\ cur'[c] = NoJob
                          ELSE wpc'[c] = "send" /\ cur'[c] = cur[c]
  BY <1>1 DEF TypeOK
<1>9. \A d \in Conns : d # c => cur'[d] = cur[d] /\ left'[d] = left[d] /\ wpc'[d] = wpc[d]
  BY <1>1 DEF TypeOK
<1>10. \A l \in Calls : WaitingUses(l)' = WaitingUses(l)
  BY <1>7 DEF WaitingUses
<1>11. m \notin WaitingUses(k)
  BY <1>2, <1>6 DEF WaitingUses, Core, PlaceInv
<1>12. \A x : \A l \in Calls : x \in WriterUses(l)' <=> \E d \in Conns : cur'[d].k = l /\ x \in left'[d]
  BY DEF WriterUses
<1>13. \A x : \A l \in Calls : x \in WriterUses(l) <=> \E d \in Conns : cur[d].k = l /\ x \in left[d]
  BY DEF WriterUses
<1>14. \A x : \A l \in Calls, d \in Conns : cur'[d].k = l /\ x \in left'[d]
                                      <=> cur[d].k = l /\ x \in left[d] /\ (d = c => x # m)
  BY <1>8, <1>9, NoJobIsNoJob
<1>15. m \in WriterUses(k)
  BY <1>2, <1>5, <1>6, <1>13
<1>16. WriterUses(k)' = WriterUses(k) \ {m}
  BY <1>4, <1>5, <1>6, <1>12, <1>13, <1>14
<1>17. \A l \in Calls : l # k => WriterUses(l)' = WriterUses(l)
  <2>1. SUFFICES ASSUME NEW l \in Calls, l # k
                 PROVE  WriterUses(l)' = WriterUses(l)
    OBVIOUS
  <2>2. \A x : \A d \in Conns : cur'[d].k = l /\ x \in left'[d] <=> cur[d].k = l /\ x \in left[d]
    BY <1>2, <1>14, <2>1
  <2>3. \A x : x \in WriterUses(l)' <=> x \in WriterUses(l)
    BY <1>12, <1>13, <2>2
  <2>4. QED
    BY <2>3
<1>18. /\ m \in Pending(k) /\ Pending(k)' = Pending(k) \ {m}
       /\ \A l \in Calls : l # k => Pending(l)' = Pending(l)
  BY <1>5, <1>10, <1>11, <1>15, <1>16, <1>17 DEF Pending
<1>19. CountInv'
  <2>1. SUFFICES ASSUME NEW l \in Calls
                 PROVE  /\ IsFiniteSet(Pending(l)')
                        /\ wg'[l] = Cardinality(Pending(l)')
                        /\ phase'[l] = "closed" => Pending(l)' = {}
    BY DEF CountInv
  <2>2. CASE l # k
    BY <1>3, <1>18, <2>2 DEF Core, CountInv, TypeOK
  <2>3. CASE l = k
    <3>1. IsFiniteSet(Pending(k)) /\ wg[k] = Cardinality(Pending(k))
      BY <1>5 DEF Core, CountInv
    <3>2. /\ IsFiniteSet(Pending(k) \ {m})
          /\ Cardinality(Pending(k) \ {m}) = Cardinality(Pending(k)) - 1
      BY <1>18, <3>1, FS_RemoveElement
    <3>3. wg'[k] = wg[k] - 1
      BY <1>3, <1>5 DEF TypeOK
    <3>4. QED
      BY <1>3, <1>4, <1>18, <2>3, <3>1, <3>2, <3>3
  <2>4. QED
    BY <2>2, <2>3
<1>20. WaitInv' /\ HandInv' /\ QueueInv'
  BY <1>3, <1>7 DEF Core, WaitInv, HandInv, QueueInv
<1>21. WriterInv'
  BY <1>2, <1>3, <1>4, <1>6, <1>8, <1>9 DEF Core, WriterInv
<1>22. PlaceInv'
  <2>1. Distinct'
    BY <1>3, <1>7 DEF Core, PlaceInv, Distinct
  <2>2. \A j \in Waiting', d \in Conns : cur'[d].k = j.k => j.ms \cap left'[d] = {}
    <3>1. SUFFICES ASSUME NEW j \in Waiting, NEW d \in Conns, cur'[d].k = j.k
                   PROVE  j.ms \cap left'[d] = {}
      BY <1>7
    <3>2. left'[d] \subseteq left[d]
      BY <1>8, <1>9
    <3>3. cur[d].k = j.k
      <4>1. j.k # 0
        BY WaitingAreJobs, DeliveryAssumption DEF Core, Job, Calls
      <4>2. QED
        BY <1>8, <1>9, <3>1, <4>1 DEF NoJob
    <3>4. QED
      BY <3>2, <3>3 DEF Core, PlaceInv
  <2>3. QED
    BY <1>7, <2>1, <2>2 DEF Core, PlaceInv, Distinct
<1>23. QED
  BY <1>1, <1>2, <1>4, <1>5, <1>18, <1>19, <1>20, <1>21, <1>22 DEF Core, Settled

\* Sending and exiting settle nothing.
LEMMA WriterCore ==
  ASSUME TypeOK, Core, NEW c \in Conns, WriterStep(c)
  PROVE  Core' /\ (Kept \/ (WriterDone(c) /\ Settled))
<1>1. CASE WriterSend(c)
  <2>1. /\ wpc[c] = "send" /\ wpc' = [wpc EXCEPT ![c] = "done"]
        /\ UNCHANGED <<conn, todo, outgoing, dpc, hand, qwg, jobs, left, cur, wg, phase>>
    BY <1>1 DEF WriterSend, connVars, pushVars, queueVars
  <2>2. InHand' = InHand /\ HandInv'
    BY <2>1 DEF InHand, Core, HandInv
  <2>3. WriterInv'
    BY <2>1 DEF Core, WriterInv, TypeOK
  <2>4. QED
    BY <2>1, <2>2, <2>3, StillCore
<1>2. CASE WriterExit(c)
  <2>1. /\ wpc[c] = "idle" /\ wpc' = [wpc EXCEPT ![c] = "exit"]
        /\ UNCHANGED <<conn, todo, outgoing, dpc, hand, qwg, jobs, left, cur, wg, phase>>
    BY <1>2 DEF WriterExit, connVars, pushVars, queueVars
  <2>2. InHand' = InHand /\ HandInv'
    BY <2>1 DEF InHand, Core, HandInv
  <2>3. WriterInv'
    BY <2>1 DEF Core, WriterInv, TypeOK
  <2>4. QED
    BY <2>1, <2>2, <2>3, StillCore
<1>3. QED
  BY <1>1, <1>2, WriterTakeCore, WriterDoneCore DEF WriterStep

\* A call starts: every message of its entries is in one merged job for each
\* registration its filter selected, and in no other.
LEMMA BroadcastCore ==
  ASSUME TypeOK, CallInv, Core, NEW p \in Callers, NEW b \in Batches, BroadcastBatch(p, b)
  PROVE  /\ Core'
         /\ \E k \in Calls : /\ phase[k] = "idle" /\ phase' = [phase EXCEPT ![k] = "push"]
                            /\ k = calls + 1 /\ Pending(k)' = Hits(b)
                            /\ Pending(k)' \subseteq Nat \X Subs
                            /\ \A l \in Calls : l # k => Pending(l)' = Pending(l)
<1>1. PICK k : k = calls + 1
  OBVIOUS
<1>2. PICK M : M = MergedJobs(k, b)
  OBVIOUS
<1>3. /\ calls < MaxCalls
      /\ phase' = [phase EXCEPT ![k] = "push"]
      /\ todo' = [todo EXCEPT ![k] = M]
      /\ wg' = [wg EXCEPT ![k] = Cardinality(Hits(b))]
      /\ UNCHANGED <<conn, outgoing, dpc, hand, qwg, jobs, left, cur, wpc>>
  BY <1>1, <1>2 DEF BroadcastBatch, connVars, queueVars, writeVars
<1>4. k \in Calls /\ reg \subseteq Subs
  BY <1>1, <1>3, DeliveryAssumption DEF TypeOK, Calls
<1>5. phase[k] = "idle"
  BY <1>1, <1>4 DEF CallInv, TypeOK
<1>6. todo[k] = {}
  <2>1. k # 0
    BY <1>4, DeliveryAssumption DEF Calls
  <2>2. ~\E q \in Callers : at[q] = k
    BY <1>5, <2>1 DEF CallInv
  <2>3. QED
    BY <1>4, <2>2 DEF CallInv
<1>7. M \subseteq Job
  BY <1>2, <1>4, MergedJobsType
<1>8. \A j \in M : j.k = k
  BY <1>2 DEF MergedJobs
<1>9. \A j \in Waiting : j.k \in Calls /\ j.k # k
  BY <1>5, WaitingAreJobs DEF Core, WaitInv, Job
<1>10. \A c \in Conns : cur[c].k # k
  <2>1. SUFFICES ASSUME NEW c \in Conns PROVE cur[c].k # k
    OBVIOUS
  <2>2. CASE wpc[c] \in {"send", "done"}
    BY <1>5, <2>2 DEF Core, WriterInv
  <2>3. CASE wpc[c] \notin {"send", "done"}
    BY <1>4, <2>3, NoJobIsNoJob DEF Core, WriterInv
  <2>4. QED
    BY <2>2, <2>3
<1>11. Unpushed' = Unpushed \cup M
  <2>1. \A l \in Calls : todo'[l] = IF l = k THEN M ELSE todo[l]
    BY <1>3, <1>4 DEF TypeOK
  <2>2. QED
    BY <1>4, <1>6, <2>1 DEF Unpushed
<1>12. UNCHANGED <<Queued, InHand>>
  BY <1>3 DEF Queued, InHand
<1>13. Waiting' = Waiting \cup M
  BY <1>3, <1>11, <1>12 DEF Waiting
<1>14. M \cap Waiting = {}
  BY <1>8, <1>9
<1>15. \A j \in M : /\ j.ms # {} /\ j.ms \subseteq Hits(b)
                    /\ \A m \in j.ms : m[2][1] = j.c /\ m[2][2] = j.h
  BY <1>2 DEF MergedJobs
<1>16. \A m \in Hits(b) : \E j \in M : m \in j.ms
  <2>1. TAKE m \in Hits(b)
  <2>2. m[2] \in {n[2] : n \in Hits(b)}
    OBVIOUS
  <2> DEFINE J == [k |-> k, c |-> m[2][1], h |-> m[2][2],
                   ms |-> {n \in Hits(b) : n[2][1] = m[2][1] /\ n[2][2] = m[2][2]}]
  <2>3. J \in M
    BY <1>2, <2>2 DEF MergedJobs
  <2>4. m \in J.ms
    OBVIOUS
  <2>5. QED
    BY <2>3, <2>4
<1>17. WaitingUses(k)' = Hits(b)
  <2>1. \A x : x \in WaitingUses(k)' <=> \E j \in Waiting' : j.k = k /\ x \in j.ms
    BY DEF WaitingUses
  <2>2. \A x : x \in WaitingUses(k)' <=> \E j \in M : x \in j.ms
    BY <1>8, <1>9, <1>13, <2>1
  <2>3. \A x : x \in WaitingUses(k)' <=> x \in Hits(b)
    BY <1>15, <1>16, <2>2
  <2>4. QED
    BY <2>3
<1>18. WriterUses(k)' = {}
  BY <1>3, <1>10 DEF WriterUses
<1>19. Pending(k)' = Hits(b)
  BY <1>17, <1>18 DEF Pending
<1>20. \A l \in Calls : l # k => Pending(l)' = Pending(l)
  <2>1. SUFFICES ASSUME NEW l \in Calls, l # k PROVE Pending(l)' = Pending(l)
    OBVIOUS
  <2>2. {i \in Waiting' : i.k = l} = {i \in Waiting : i.k = l}
    BY <1>8, <1>13, <2>1
  <2>3. QED
    BY <1>3, <2>2 DEF Pending, WaitingUses, WriterUses
<1>21. CountInv'
  <2>1. IsFiniteSet(Hits(b))
    BY <1>4, HitsType
  <2>2. \A l \in Calls : /\ wg'[l] = IF l = k THEN Cardinality(Hits(b)) ELSE wg[l]
                        /\ phase'[l] = IF l = k THEN "push" ELSE phase[l]
    BY <1>3 DEF TypeOK
  <2>3. QED
    BY <1>19, <1>20, <2>1, <2>2 DEF Core, CountInv
<1>22. \A l \in Calls : phase'[l] = IF l = k THEN "push" ELSE phase[l]
  BY <1>3 DEF TypeOK
<1>23. WaitInv'
  BY <1>8, <1>9, <1>13, <1>15, <1>22, <1>4 DEF Core, WaitInv
<1>24. HandInv' /\ QueueInv'
  BY <1>3 DEF Core, HandInv, QueueInv
<1>25. WriterInv'
  <2>1. \A c \in Conns : cur[c] # NoJob => cur[c].k \in Calls
    BY DEF TypeOK, Job
  <2>2. QED
    BY <1>3, <1>10, <1>22, <2>1 DEF Core, WriterInv
<1>26. PlaceInv'
  <2>1. Distinct'
    BY <1>3, <1>11, <1>12, <1>14 DEF Core, PlaceInv, Distinct, Waiting
  <2>2. \A i, j \in M : i.ms \cap j.ms # {} => i = j
    <3>1. SUFFICES ASSUME NEW i \in M, NEW j \in M, i.ms \cap j.ms # {}
                   PROVE  i = j
      OBVIOUS
    <3>2. i.c = j.c /\ i.h = j.h
      BY <1>15, <3>1
    <3> DEFINE J(c, h) == [k |-> k, c |-> c, h |-> h,
                           ms |-> {m \in Hits(b) : m[2][1] = c /\ m[2][2] = h}]
    <3>3. \A n \in M : n = J(n.c, n.h)
      BY <1>2 DEF MergedJobs
    <3>4. i = J(i.c, i.h) /\ j = J(j.c, j.h)
      BY <3>3
    <3> HIDE DEF J
    <3>5. QED
      BY <3>2, <3>4
  <2>3. \A i, j \in Waiting' : i.k = j.k /\ i.ms \cap j.ms # {} => i = j
    BY <1>8, <1>9, <1>13, <2>2 DEF Core, PlaceInv
  <2>4. \A j \in Waiting', d \in Conns : cur'[d].k = j.k => j.ms \cap left'[d] = {}
    BY <1>3, <1>8, <1>10, <1>13 DEF Core, PlaceInv
  <2>5. QED
    BY <2>1, <2>3, <2>4 DEF PlaceInv, Distinct
<1>27. Pending(k)' \subseteq Nat \X Subs
  BY <1>4, <1>19, HitsType
<1>28. QED
  BY <1>1, <1>3, <1>4, <1>5, <1>19, <1>20, <1>21, <1>23, <1>24, <1>25, <1>26, <1>27 DEF Core

\* At the start nothing waits.
LEMMA InitCore ==
  ASSUME Init
  PROVE  Core /\ LockInv /\ PushToLive /\ CallInv
<1> USE DEF Init
<1>1. Range(<<>>) = {}
  BY DEF Range
<1>2. Unpushed = {} /\ Queued = {} /\ InHand = {} /\ Waiting = {}
  <2>1. Unpushed = {}
    BY DEF Unpushed
  <2>2. Queued = {}
    BY <1>1 DEF Queued
  <2>3. InHand = {} /\ Range(outgoing) = {}
    BY <1>1 DEF InHand
  <2>4. QED
    BY <2>1, <2>2, <2>3 DEF Waiting
<1>3. \A k \in Calls : Pending(k) = {}
  BY <1>2 DEF Pending, WaitingUses, WriterUses
<1>4. CountInv
  BY <1>3, FS_EmptySet DEF CountInv
<1>5. WaitInv /\ HandInv /\ QueueInv /\ WriterInv
  BY <1>1, <1>2 DEF WaitInv, HandInv, QueueInv, WriterInv
<1>6. PlaceInv
  <2>1. IsInjective(<<>>)
    BY DEF IsInjective
  <2>2. QED
    BY <1>1, <1>2, <2>1 DEF PlaceInv
<1>7. LockInv /\ PushToLive
  BY DEF LockInv, PushToLive
<1>8. CallInv
  BY DeliveryAssumption DEF CallInv, Calls
<1>9. QED
  BY <1>4, <1>5, <1>6, <1>7, <1>8 DEF Core

\* Every step keeps the jobs, places and counters in agreement.
LEMMA CoreStep ==
  ASSUME TypeOK, CallInv, Core, Next \/ UNCHANGED vars
  PROVE  Core'
<1>1. CASE UNCHANGED vars
  <2>1. /\ UNCHANGED <<conn, todo, outgoing, dpc, hand, qwg, jobs, left, cur, wg, phase, wpc>>
    BY <1>1 DEF vars, connVars, pushVars, queueVars, writeVars
  <2>2. InHand' = InHand /\ HandInv' /\ WriterInv'
    BY <2>1 DEF InHand, Core, HandInv, WriterInv
  <2>3. QED
    BY <2>1, <2>2, StillCore
<1>2. CASE Next /\ ~Terminating
  BY <1>2, ConnCore, WriterCore, PushCore, ReturnCore, BroadcastCore, CloseCore, DispatchCore
     DEF Next, CallerStep
<1>3. QED
  BY <1>1, <1>2 DEF Terminating

-----------------------------------------------------------------------------
(* The theorems *)

\* Every step keeps the types.
LEMMA TypeStep ==
  ASSUME TypeOK, Core, Next \/ UNCHANGED vars
  PROVE  TypeOK'
<1>1. ASSUME NEW k \in Calls, CloseMsgs(k)
      PROVE  TypeOK'
  BY <1>1 DEF CloseMsgs, TypeOK, connVars, callVars, queueVars, writeVars
<1>2. CASE UNCHANGED vars
  BY <1>2 DEF vars, TypeOK, connVars, callVars, pushVars, queueVars, writeVars
<1>3. ASSUME NEW c \in Conns, WriterStep(c)
      PROVE  TypeOK'
  BY <1>3, WriterTypeOK DEF Core, WriterInv
<1>4. CASE DispatchStep
  BY <1>4, DispatchTypeOK DEF Core, HandInv
<1>5. QED
  BY <1>1, <1>2, <1>3, <1>4, ConnTypeOK, CallTypeOK DEF Next, Terminating

\* IInv holds initially and every step keeps it.
LEMMA Inductive ==
  /\ Init => IInv
  /\ IInv /\ [Next]_vars => IInv'
<1>1. Init => IInv
  BY InitTypeOK, InitCore DEF IInv, Core
<1>2. ASSUME IInv, [Next]_vars
      PROVE  IInv'
  <2>1. TypeOK /\ LockInv /\ PushToLive /\ CallInv /\ Core
    BY <1>2 DEF IInv, Core
  <2>2. TypeOK' /\ Core'
    BY <1>2, <2>1, TypeStep, CoreStep
  <2>3. LockInv' /\ PushToLive' /\ CallInv'
    BY <1>2, <2>1, LockInvStep, PushToLiveStep, CallInvStep
  <2>4. QED
    BY <2>2, <2>3 DEF IInv, Core
<1>3. QED
  BY <1>1, <1>2

\* The registry's lock, the calls, the places of the jobs and the counters of
\* the WaitGroups agree in every state.
THEOREM Agreement == Spec => []IInv
<1>1. QED
  BY Inductive, PTL DEF Spec

\* Every variable keeps its type.
THEOREM TypeCorrect == Spec => []TypeOK
<1>1. IInv => TypeOK
  BY DEF IInv
<1>2. QED
  BY <1>1, Agreement, PTL

\* BroadcastBatch closes a message only when no queue holds it and no writer
\* is still using it, for any clients, senders and buffer capacities.
THEOREM ClosedAfterUse == Spec => []CloseAfterUse
<1>1. IInv => CloseAfterUse
  BY DEF IInv, CountInv, CloseAfterUse
<1>2. QED
  BY <1>1, Agreement, PTL

\* The WaitGroup of a batch always counts exactly the messages still owed: it
\* neither leaks the batch nor goes below zero.
THEOREM WaitGroupExact == Spec => []CounterExact
<1>1. IInv => CounterExact
  BY DEF IInv, CountInv, CounterExact
<1>2. QED
  BY <1>1, Agreement, PTL

\* unsetClient never stops a client that a running BroadcastBatch still has
\* jobs for.
THEOREM PushedToLive == Spec => []PushToLive
<1>1. IInv => PushToLive
  BY DEF IInv
<1>2. QED
  BY <1>1, Agreement, PTL

-----------------------------------------------------------------------------
(* Delivery implements BatchLifetime *)

Status == [k \in Calls |-> IF phase[k] \in {"push", "wait"} THEN "open" ELSE phase[k]]
Owed   == [k \in Calls |-> Pending(k)]

\* The refinement mapping's states and actions, spelled out.
LEMMA Mapping ==
  /\ Lifetime!Init <=> Status = [k \in Calls |-> "idle"] /\ Owed = [k \in Calls |-> {}]
  /\ \A k \in Calls : Lifetime!Open(k) <=> /\ Status[k] = "idle"
                                          /\ Status' = [Status EXCEPT ![k] = "open"]
                                          /\ Owed' = [Owed EXCEPT ![k] = Owed'[k]]
                                          /\ Owed'[k] \subseteq Nat \X Subs
  /\ \A k \in Calls : Lifetime!Settle(k) <=> /\ Status[k] = "open"
                                            /\ Owed' = [Owed EXCEPT ![k] = Owed'[k]]
                                            /\ Owed'[k] \subseteq Owed[k]
                                            /\ UNCHANGED Status
  /\ \A k \in Calls : Lifetime!Close(k) <=> /\ Status[k] = "open"
                                           /\ Owed[k] = {}
                                           /\ Status' = [Status EXCEPT ![k] = "closed"]
                                           /\ UNCHANGED Owed
BY DEF Lifetime!Init, Lifetime!vars, Lifetime!Open, Lifetime!Settle, Lifetime!Close, Status, Owed

\* A step that changes neither is a stutter.
LEMMA StutterMaps ==
  ASSUME UNCHANGED <<Status, Owed>>
  PROVE  [Lifetime!Next]_Lifetime!vars
BY DEF Lifetime!vars, Status, Owed

\* A step that keeps phase and settles at most one open call is a Settle or a
\* stutter of BatchLifetime.
LEMMA SettledMaps ==
  ASSUME TypeOK, Kept \/ Settled, UNCHANGED phase
  PROVE  [Lifetime!Next]_Lifetime!vars
<1>1. UNCHANGED Status
  BY DEF Status
<1>2. CASE Kept
  <2>1. UNCHANGED Owed
    BY <1>2 DEF Kept, Owed
  <2>2. QED
    BY <1>1, <2>1, StutterMaps
<1>3. CASE Settled
  <2>1. PICK k \in Calls : /\ phase[k] \in {"push", "wait"}
                           /\ Pending(k)' \subseteq Pending(k)
                           /\ \A l \in Calls : l # k => Pending(l)' = Pending(l)
    BY <1>3 DEF Settled
  <2>2. Status[k] = "open"
    BY <2>1 DEF Status
  <2>3. Owed' = [Owed EXCEPT ![k] = Owed'[k]] /\ Owed'[k] \subseteq Owed[k]
    BY <2>1 DEF Owed
  <2>4. Lifetime!Settle(k)
    BY <1>1, <2>2, <2>3, Mapping
  <2>5. QED
    BY <2>4 DEF Lifetime!Next
<1>4. QED
  BY <1>2, <1>3

\* Every step maps to a step of BatchLifetime or a stutter.
LEMMA StepMaps ==
  ASSUME IInv, [Next]_vars
  PROVE  [Lifetime!Next]_Lifetime!vars
<1>1. TypeOK /\ CallInv /\ Core
  BY DEF IInv, Core
<1>2. ASSUME NEW c \in Conns, ConnStep(c) \/ Leave(c)
      PROVE  [Lifetime!Next]_Lifetime!vars
  BY <1>1, <1>2, ConnFrame, ConnCore, SettledMaps DEF pushVars
<1>3. ASSUME NEW c \in Conns, WriterStep(c)
      PROVE  [Lifetime!Next]_Lifetime!vars
  BY <1>1, <1>3, WriterFrame, WriterCore, SettledMaps DEF pushVars
<1>4. CASE DispatchStep
  BY <1>1, <1>4, DispatchFrame, DispatchCore, SettledMaps DEF pushVars
<1>5. ASSUME NEW p \in Callers, Push(p)
      PROVE  [Lifetime!Next]_Lifetime!vars
  <2>1. Kept
    BY <1>1, <1>5, PushCore
  <2>2. UNCHANGED phase
    BY <1>5 DEF Push
  <2>3. QED
    BY <1>1, <2>1, <2>2, SettledMaps
<1>6. ASSUME NEW p \in Callers, Return(p)
      PROVE  [Lifetime!Next]_Lifetime!vars
  <2>1. phase' = [phase EXCEPT ![at[p]] = "wait"] /\ phase[at[p]] = "push"
    BY <1>1, <1>6 DEF Return, CallInv
  <2>2. UNCHANGED Status
    BY <1>1, <2>1 DEF Status, TypeOK
  <2>3. UNCHANGED Owed
    BY <1>1, <1>6, ReturnCore DEF Kept, Owed
  <2>4. QED
    BY <2>2, <2>3, StutterMaps
<1>7. ASSUME NEW p \in Callers, NEW b \in Batches, BroadcastBatch(p, b)
      PROVE  [Lifetime!Next]_Lifetime!vars
  <2>1. PICK k \in Calls : /\ phase[k] = "idle" /\ phase' = [phase EXCEPT ![k] = "push"]
                           /\ Pending(k)' \subseteq Nat \X Subs
                           /\ \A l \in Calls : l # k => Pending(l)' = Pending(l)
    BY <1>1, <1>7, BroadcastCore
  <2>2. Status[k] = "idle" /\ Status' = [Status EXCEPT ![k] = "open"]
    BY <1>1, <2>1 DEF Status, TypeOK
  <2>3. Owed' = [Owed EXCEPT ![k] = Owed'[k]] /\ Owed'[k] \subseteq Nat \X Subs
    BY <2>1 DEF Owed
  <2>4. Lifetime!Open(k)
    BY <2>2, <2>3, Mapping
  <2>5. QED
    BY <2>4 DEF Lifetime!Next
<1>8. ASSUME NEW k \in Calls, CloseMsgs(k)
      PROVE  [Lifetime!Next]_Lifetime!vars
  <2>1. phase[k] = "wait" /\ phase' = [phase EXCEPT ![k] = "closed"]
    BY <1>8 DEF CloseMsgs
  <2>2. Core' /\ Kept
    BY <1>1, <1>8, CloseCore
  <2>3. Status[k] = "open" /\ Status' = [Status EXCEPT ![k] = "closed"]
    BY <1>1, <2>1 DEF Status, TypeOK
  <2>4. Pending(k) = {}
    BY <1>1, <2>1, <2>2 DEF Core, CountInv, Kept, TypeOK
  <2>5. UNCHANGED Owed /\ Owed[k] = {}
    BY <2>2, <2>4 DEF Kept, Owed
  <2>6. Lifetime!Close(k)
    BY <2>3, <2>5, Mapping
  <2>7. QED
    BY <2>6 DEF Lifetime!Next
<1>9. CASE UNCHANGED vars
  <2>1. UNCHANGED phase /\ Waiting' = Waiting /\ UNCHANGED <<cur, left>>
    BY <1>9 DEF vars, pushVars, queueVars, writeVars, Waiting, Unpushed, InHand, Queued
  <2>2. Kept
    BY <2>1 DEF Kept, Pending, WaitingUses, WriterUses
  <2>3. QED
    BY <1>1, <2>1, <2>2, SettledMaps
<1>10. QED
  BY <1>2, <1>3, <1>4, <1>5, <1>6, <1>7, <1>8, <1>9 DEF Next, Terminating, CallerStep

\* Each BroadcastBatch call keeps the promise of BatchLifetime: recipients are
\* fixed at the start, uses only end, and the close comes after the last one.
THEOREM Implements == Spec => LifetimeSpec
<1>1. Init => Lifetime!Init
  <2>1. SUFFICES ASSUME Init PROVE Lifetime!Init
    OBVIOUS
  <2>2. Status = [k \in Calls |-> "idle"]
    BY <2>1 DEF Init, Status
  <2>3. Owed = [k \in Calls |-> {}]
    <3>1. \A k \in Calls : IsFiniteSet(Pending(k)) /\ Cardinality(Pending(k)) = 0
      BY <2>1, InitCore DEF Core, CountInv, Init
    <3>2. \A k \in Calls : Pending(k) = {}
      BY <3>1, FS_EmptySet
    <3>3. QED
      BY <3>2 DEF Owed
  <2>4. QED
    BY <2>2, <2>3, Mapping
<1>2. IInv /\ [Next]_vars => [Lifetime!Next]_Lifetime!vars
  BY StepMaps
<1>3. QED
  BY <1>1, <1>2, Agreement, PTL DEF Spec, LifetimeSpec, Lifetime!Spec

-----------------------------------------------------------------------------
(* The order of messages. What a client is sent stands in one line: its     *)
(* log, what its writer has left, its jobs, the dispatcher's hand,          *)
(* s.outgoing, and the jobs still to be pushed.                             *)

\* With the callers b, entry e of call k may come before entry f of call l.
Before(b, k, e, l, f) == b[k] = b[l] => k < l \/ (k = l /\ e <= f)

JobBefore(b, i, j) ==
  i.c = j.c => \A m \in i.ms, n \in j.ms : Before(b, i.k, m[1], j.k, n[1])

AllBefore(b, I, J) == \A i \in I, j \in J : JobBefore(b, i, j)

InLine(b, s) == \A x, y \in 1..Len(s) : x < y => JobBefore(b, s[x], s[y])

\* All of one job's entries are before all of the other's.
Apart(i, j) == \/ \A m \in i.ms, n \in j.ms : m[1] < n[1]
               \/ \A m \in i.ms, n \in j.ms : n[1] < m[1]

\* What a writer has left of its job, and each message it has sent, as jobs.
Rest(c)       == [k |-> cur[c].k, c |-> c, ms |-> left[c]]
Sending(c, r) == [k |-> r[1], c |-> c, ms |-> {<<r[2], r[3]>>}]
SentJobs(c)   == {Sending(c, log[c][x]) : x \in 1..Len(log[c])}

\* The log is one of calls that have started.
LogOK ==
  /\ log \in [Conns -> Seq(Calls \X Nat \X {"equal", "written"})]
  /\ \A c \in Conns : \A x \in 1..Len(log[c]) : log[c][x][1] <= calls

\* A caller makes one call at a time.
CallerInv == \A p \in Callers : at[p] # 0 => by[at[p]] = p

\* Two jobs of a call to one client hold different channels, and so one
\* stretch of the batch each.
TodoInv ==
  \A k \in Calls : \A i, j \in todo[k] : i.c = j.c => i = j \/ Apart(i, j)

\* The line from the callers to the queues.
OutInv ==
  /\ InLine(by, outgoing)
  /\ AllBefore(by, Range(outgoing), Unpushed)
  /\ AllBefore(by, InHand, Range(outgoing) \cup Unpushed)

\* The line of each queue.
JobsInv ==
  \A c \in Conns :
    /\ InLine(by, jobs[c])
    /\ AllBefore(by, Range(jobs[c]), InHand \cup Range(outgoing) \cup Unpushed)

\* What a writer has left and what it has sent is before what waits.
LeftInv == \A c \in Conns : AllBefore(by, {Rest(c)}, Waiting)
SentInv == \A c \in Conns : AllBefore(by, SentJobs(c), {Rest(c)} \cup Waiting)

PathInv == TodoInv /\ OutInv /\ JobsInv
EndInv  == LeftInv /\ SentInv /\ CallerOrder
LineInv == LogOK /\ CallerInv /\ PathInv /\ EndInv

-----------------------------------------------------------------------------
(* Lines *)

\* Appending what everything may precede keeps a line.
LEMMA AppendLine ==
  ASSUME NEW b, NEW s \in Seq(Job), NEW j \in Job,
         InLine(b, s), AllBefore(b, Range(s), {j})
  PROVE  InLine(b, Append(s, j))
<1>1. /\ Len(Append(s, j)) = Len(s) + 1 /\ Len(s) \in Nat
      /\ \A x \in 1..Len(s) : Append(s, j)[x] = s[x]
      /\ Append(s, j)[Len(s) + 1] = j
  BY AppendProperties
<1>2. \A x \in 1..Len(s) : s[x] \in Range(s)
  BY LenProperties DEF Range
<1>3. SUFFICES ASSUME NEW x \in 1..Len(s) + 1, NEW y \in 1..Len(s) + 1, x < y
               PROVE  JobBefore(b, Append(s, j)[x], Append(s, j)[y])
  BY <1>1 DEF InLine
<1>4. x \in 1..Len(s)
  BY <1>1, <1>3
<1>5. CASE y \in 1..Len(s)
  BY <1>1, <1>3, <1>4, <1>5 DEF InLine
<1>6. CASE y = Len(s) + 1
  BY <1>1, <1>2, <1>4, <1>6 DEF AllBefore
<1>7. QED
  BY <1>1, <1>3, <1>5, <1>6

\* The first of a line may precede the rest, and the rest is a line.
LEMMA TailLine ==
  ASSUME NEW b, NEW s \in Seq(Job), s # <<>>, InLine(b, s)
  PROVE  /\ InLine(b, Tail(s))
         /\ AllBefore(b, {Head(s)}, Range(Tail(s)))
<1>1. /\ Len(Tail(s)) = Len(s) - 1 /\ Len(s) \in Nat \ {0}
      /\ Tail(s) \in Seq(Job) /\ Head(s) = s[1]
      /\ \A x \in 1..Len(s) - 1 : Tail(s)[x] = s[x + 1]
  BY HeadTailProperties, EmptySeq, LenProperties
<1>2. InLine(b, Tail(s))
  BY <1>1 DEF InLine
<1>3. \A j \in Range(Tail(s)) : \E x \in 1..Len(s) - 1 : j = s[x + 1]
  BY <1>1, LenProperties DEF Range
<1>4. \A j \in Range(Tail(s)) : JobBefore(b, s[1], j)
  BY <1>1, <1>3 DEF InLine
<1>5. QED
  BY <1>1, <1>2, <1>4 DEF AllBefore

\* Fewer messages of the same call are before whatever they all were.
LEMMA FewerBefore ==
  ASSUME NEW b, NEW I, NEW J, NEW r, NEW s, AllBefore(b, I, {r} \cup J), AllBefore(b, {r}, J),
         s.c = r.c, s.ms = {} \/ (s.ms \subseteq r.ms /\ s.k = r.k)
  PROVE  AllBefore(b, I, {s} \cup J) /\ AllBefore(b, {s}, J)
BY DEF AllBefore, JobBefore

\* The callers of earlier calls are known, and nothing is after a new call.
LEMMA NewCallBefore ==
  ASSUME NEW b \in [Calls -> Callers \cup {None}], NEW k \in Calls, NEW p,
         NEW i, NEW j, i.k \in Calls, i.k < k
  PROVE  /\ j.k = k => JobBefore([b EXCEPT ![k] = p], i, j)
         /\ j.k \in Calls /\ j.k < k /\ JobBefore(b, i, j) => JobBefore([b EXCEPT ![k] = p], i, j)
<1>1. k \in Int
  BY DeliveryAssumption DEF Calls
<1>2. i.k # k /\ i.k \in Int
  BY <1>1, DeliveryAssumption DEF Calls
<1>3. j.k = k => JobBefore([b EXCEPT ![k] = p], i, j)
  BY DEF JobBefore, Before
<1>4. ASSUME j.k \in Calls, j.k < k, JobBefore(b, i, j)
      PROVE  JobBefore([b EXCEPT ![k] = p], i, j)
  <2>1. j.k # k
    BY <1>1, <1>4, DeliveryAssumption DEF Calls
  <2>2. [b EXCEPT ![k] = p][i.k] = b[i.k] /\ [b EXCEPT ![k] = p][j.k] = b[j.k]
    BY <1>2, <2>1
  <2>3. QED
    BY <1>4, <2>2 DEF JobBefore, Before
<1>5. QED
  BY <1>3, <1>4

-----------------------------------------------------------------------------
(* Steps *)

\* A step that moves no job to another place keeps the line.
LEMMA LineShrinks ==
  ASSUME PathInv, EndInv, InHand' \subseteq InHand,
         UNCHANGED <<by, todo, outgoing, jobs, log>>,
         \A c \in Conns : left'[c] = {} \/ (left'[c] \subseteq left[c] /\ cur'[c].k = cur[c].k)
  PROVE  PathInv' /\ EndInv'
<1>1. UNCHANGED <<Unpushed, Queued>>
  BY DEF Unpushed, Queued
<1>2. Waiting' \subseteq Waiting
  BY <1>1 DEF Waiting
<1>3. TodoInv' /\ OutInv' /\ JobsInv'
  BY <1>1 DEF PathInv, TodoInv, OutInv, JobsInv, AllBefore
<1>4. \A c \in Conns : /\ UNCHANGED SentJobs(c)
                       /\ Rest(c)'.c = Rest(c).c
                       /\ \/ Rest(c)'.ms = {}
                          \/ Rest(c)'.ms \subseteq Rest(c).ms /\ Rest(c)'.k = Rest(c).k
  BY DEF Rest, SentJobs
<1>5. \A c \in Conns : /\ AllBefore(by, SentJobs(c), {Rest(c)'} \cup Waiting)
                       /\ AllBefore(by, {Rest(c)'}, Waiting)
  BY <1>4, FewerBefore DEF EndInv, LeftInv, SentInv
<1>6. LeftInv' /\ SentInv'
  BY <1>2, <1>4, <1>5 DEF LeftInv, SentInv, AllBefore
<1>7. CallerOrder'
  BY DEF EndInv, CallerOrder
<1>8. QED
  BY <1>3, <1>6, <1>7 DEF PathInv, EndInv

\* A job that changes its place keeps its place behind what is written.
LEMMA EndMoves ==
  ASSUME EndInv, Waiting' = Waiting, UNCHANGED <<by, left, cur, log>>
  PROVE  EndInv'
<1>1. \A c \in Conns : UNCHANGED <<SentJobs(c), Rest(c)>>
  BY DEF SentJobs, Rest
<1>2. QED
  BY <1>1 DEF EndInv, LeftInv, SentInv, CallerOrder

\* BroadcastBatch pushes the first of its jobs for a client.
LEMMA PushLine ==
  ASSUME TypeOK, CallInv, Core, LineInv, NEW p \in Callers, Push(p)
  PROVE  PathInv' /\ EndInv'
<1>1. PICK k : k = at[p]
  OBVIOUS
<1>2. PICK j \in todo[k] : /\ Next2Push(k, j)
                           /\ outgoing' = Append(outgoing, j)
                           /\ todo' = [todo EXCEPT ![k] = @ \ {j}]
  BY <1>1 DEF Push
<1>3. UNCHANGED <<by, dpc, hand, jobs, left, cur, log, InHand, Queued>>
  BY DEF Push, callVars, queueVars, writeVars, InHand, Queued
<1>4. k \in Calls /\ k # 0 /\ by[k] = p
  BY <1>1, DeliveryAssumption DEF Push, TypeOK, Calls, LineInv, CallerInv
<1>5. j \in Job /\ j \in Unpushed /\ j \in Waiting
  BY <1>2, <1>4 DEF TypeOK, Unpushed, Waiting
<1>6. \A l \in Calls : todo'[l] = todo[l] \ (IF l = k THEN {j} ELSE {})
  BY <1>2, <1>4 DEF TypeOK
<1>7. Unpushed' \subseteq Unpushed /\ Unpushed \subseteq Unpushed' \cup {j}
  BY <1>4, <1>6 DEF Unpushed
<1>8. Range(outgoing') = Range(outgoing) \cup {j}
  BY <1>2, <1>5, RangeAppend DEF TypeOK
<1>9. Waiting' = Waiting
  BY <1>3, <1>5, <1>7, <1>8 DEF Waiting
<1>10. \A i \in Unpushed' : JobBefore(by, j, i)
  <2>1. SUFFICES ASSUME NEW l \in Calls, NEW i \in todo'[l], i.c = j.c
                 PROVE  JobBefore(by, j, i)
    BY DEF Unpushed, JobBefore
  <2>2. i \in todo[l] /\ i.k = l /\ j.k = k /\ i.ms # {} /\ i \in Job
    <3>1. i \in todo[l]
      BY <1>6, <2>1
    <3>2. i \in Waiting
      BY <3>1 DEF Waiting, Unpushed
    <3>3. QED
      BY <1>2, <1>4, <3>1, <3>2, WaitingAreJobs DEF CallInv, Core, WaitInv
  <2>3. CASE l # k
    <3>1. \E q \in Callers : at[q] = l
      BY <2>2 DEF CallInv
    <3>2. by[l] # p
      BY <1>1, <2>3, <3>1, DeliveryAssumption DEF LineInv, CallerInv, Calls
    <3>3. QED
      BY <1>4, <2>2, <3>2 DEF JobBefore, Before
  <2>4. CASE l = k
    <3>1. i # j
      BY <1>6, <2>1, <2>4
    <3>2. Apart(i, j)
      BY <1>2, <2>1, <2>2, <2>4, <3>1 DEF LineInv, PathInv, TodoInv
    <3>3. \A m \in i.ms \cup j.ms : m[1] \in Nat
      BY <1>5, <2>2 DEF Job, Uses
    <3>4. \A m \in j.ms, n \in i.ms : m[1] < n[1]
      <4>1. PICK m \in j.ms : \A n \in i.ms : m[1] <= n[1]
        BY <1>2, <2>2, <2>4 DEF Next2Push
      <4>2. PICK n \in i.ms : TRUE
        BY <2>2
      <4>3. ~ (n[1] < m[1])
        BY <3>3, <4>1
      <4>4. QED
        BY <3>2, <4>3 DEF Apart
    <3>5. \A m \in j.ms, n \in i.ms : m[1] <= n[1]
      BY <3>3, <3>4
    <3>6. QED
      BY <2>2, <2>4, <3>5 DEF JobBefore, Before
  <2>5. QED
    BY <2>3, <2>4
<1>11. TodoInv'
  BY <1>6 DEF LineInv, PathInv, TodoInv
<1>12. OutInv'
  <2>1. InLine(by, Append(outgoing, j))
    BY <1>5, AppendLine DEF LineInv, PathInv, OutInv, TypeOK, AllBefore
  <2>2. AllBefore(by, Range(outgoing'), Unpushed')
    BY <1>7, <1>8, <1>10 DEF LineInv, PathInv, OutInv, AllBefore
  <2>3. AllBefore(by, InHand, Range(outgoing') \cup Unpushed')
    BY <1>5, <1>7, <1>8 DEF LineInv, PathInv, OutInv, AllBefore
  <2>4. QED
    BY <1>2, <1>3, <2>1, <2>2, <2>3 DEF OutInv
<1>13. JobsInv'
  <2>1. \A c \in Conns : AllBefore(by, Range(jobs[c]), InHand \cup Range(outgoing') \cup Unpushed')
    BY <1>5, <1>7, <1>8 DEF LineInv, PathInv, JobsInv, AllBefore
  <2>2. QED
    BY <1>3, <2>1 DEF LineInv, PathInv, JobsInv
<1>14. EndInv'
  BY <1>3, <1>9, EndMoves DEF LineInv
<1>15. QED
  BY <1>11, <1>12, <1>13, <1>14 DEF PathInv

\* The dispatcher takes the first of s.outgoing.
LEMMA TakeLine ==
  ASSUME TypeOK, Core, LineInv, Take
  PROVE  PathInv' /\ EndInv'
<1>1. /\ dpc = "idle" /\ dpc' = "check" /\ outgoing # <<>>
      /\ hand' = Head(outgoing) /\ outgoing' = Tail(outgoing)
      /\ UNCHANGED <<by, todo, jobs, left, cur, log>>
  BY DEF Take, callVars, pushVars, writeVars
<1>2. InHand = {} /\ InHand' = {hand'}
  BY <1>1 DEF InHand
<1>3. /\ hand' \in Range(outgoing)
      /\ Range(outgoing') = Range(outgoing) \ {hand'}
  BY <1>1, RangeTail DEF TypeOK, Core, PlaceInv
<1>4. UNCHANGED <<Unpushed, Queued>>
  BY <1>1 DEF Unpushed, Queued
<1>5. Waiting' = Waiting
  BY <1>2, <1>3, <1>4 DEF Waiting
<1>6. InLine(by, outgoing') /\ AllBefore(by, {hand'}, Range(outgoing'))
  BY <1>1, TailLine DEF TypeOK, LineInv, PathInv, OutInv
<1>7. OutInv'
  BY <1>1, <1>2, <1>3, <1>4, <1>6 DEF LineInv, PathInv, OutInv, AllBefore
<1>8. JobsInv'
  BY <1>1, <1>2, <1>3, <1>4 DEF LineInv, PathInv, JobsInv, AllBefore
<1>9. TodoInv'
  BY <1>1 DEF LineInv, PathInv, TodoInv
<1>10. EndInv'
  BY <1>1, <1>5, EndMoves DEF LineInv
<1>11. QED
  BY <1>7, <1>8, <1>9, <1>10 DEF PathInv

\* The dispatcher queues the job it has.
LEMMA SendLine ==
  ASSUME TypeOK, Core, LineInv, QueueSend
  PROVE  PathInv' /\ EndInv'
<1>1. PICK c : c = hand.c
  OBVIOUS
<1>2. /\ dpc = "send" /\ dpc' = "done"
      /\ jobs' = [jobs EXCEPT ![c] = Append(@, hand)]
      /\ UNCHANGED <<by, todo, outgoing, hand, left, cur, log>>
  BY <1>1 DEF QueueSend, callVars, pushVars, writeVars
<1>3. hand \in Job /\ c \in Conns
  BY <1>1, <1>2 DEF Core, HandInv, TypeOK, Job
<1>4. InHand = {hand} /\ InHand' = {}
  BY <1>2 DEF InHand
<1>5. /\ jobs'[c] = Append(jobs[c], hand) /\ Range(jobs'[c]) = Range(jobs[c]) \cup {hand}
      /\ \A d \in Conns : d # c => jobs'[d] = jobs[d]
  BY <1>2, <1>3, RangeAppend DEF TypeOK
<1>6. UNCHANGED Unpushed /\ Queued' = Queued \cup {hand}
  BY <1>2, <1>3, <1>5 DEF Unpushed, Queued
<1>7. Waiting' = Waiting
  BY <1>2, <1>4, <1>6 DEF Waiting
<1>8. TodoInv' /\ OutInv'
  BY <1>2, <1>4, <1>6 DEF LineInv, PathInv, TodoInv, OutInv, AllBefore
<1>9. JobsInv'
  <2>1. InLine(by, Append(jobs[c], hand))
    BY <1>3, <1>4, AppendLine DEF LineInv, PathInv, JobsInv, TypeOK, AllBefore
  <2>2. AllBefore(by, {hand}, Range(outgoing) \cup Unpushed)
    BY <1>4 DEF LineInv, PathInv, OutInv
  <2>3. \A d \in Conns : InLine(by, jobs'[d])
    BY <1>5, <2>1 DEF LineInv, PathInv, JobsInv
  <2>4. \A d \in Conns : AllBefore(by, Range(jobs'[d]), Range(outgoing) \cup Unpushed)
    BY <1>5, <2>2 DEF LineInv, PathInv, JobsInv, AllBefore
  <2>5. QED
    BY <1>2, <1>4, <1>6, <2>3, <2>4 DEF JobsInv
<1>10. EndInv'
  BY <1>2, <1>7, EndMoves DEF LineInv
<1>11. QED
  BY <1>8, <1>9, <1>10 DEF PathInv

\* A writer takes the first of its jobs.
LEMMA WriterTakeLine ==
  ASSUME TypeOK, Core, LineInv, NEW c \in Conns, WriterTake(c)
  PROVE  PathInv' /\ EndInv'
<1>1. PICK j : j = Head(jobs[c])
  OBVIOUS
<1>2. /\ wpc[c] = "idle" /\ jobs[c] # <<>>
      /\ jobs' = [jobs EXCEPT ![c] = Tail(@)]
      /\ cur' = [cur EXCEPT ![c] = j]
      /\ left' = [left EXCEPT ![c] = j.ms]
      /\ UNCHANGED <<by, todo, outgoing, hand, dpc, log, InHand, Unpushed>>
  BY <1>1 DEF WriterTake, callVars, pushVars, queueVars, InHand, Unpushed
<1>3. jobs[c] \in Seq(Job)
  BY DEF TypeOK
<1>4. j \in Range(jobs[c]) /\ Range(Tail(jobs[c])) = Range(jobs[c]) \ {j}
  BY <1>1, <1>2, <1>3, RangeTail DEF Core, PlaceInv
<1>5. j.c = c
  BY <1>4 DEF Core, QueueInv
<1>6. InLine(by, Tail(jobs[c])) /\ AllBefore(by, {j}, Range(Tail(jobs[c])))
  BY <1>1, <1>2, <1>3, TailLine DEF LineInv, PathInv, JobsInv
<1>7. /\ jobs'[c] = Tail(jobs[c]) /\ cur'[c] = j /\ left'[c] = j.ms
      /\ \A d \in Conns : d # c => jobs'[d] = jobs[d] /\ cur'[d] = cur[d] /\ left'[d] = left[d]
  BY <1>2 DEF TypeOK
<1>8. TodoInv' /\ OutInv'
  BY <1>2 DEF LineInv, PathInv, TodoInv, OutInv
<1>9. JobsInv'
  BY <1>2, <1>4, <1>6, <1>7 DEF LineInv, PathInv, JobsInv, AllBefore
<1>10. j \in Waiting /\ Waiting' \subseteq Waiting
  <2>1. Queued' \subseteq Queued
    BY <1>4, <1>7 DEF Queued
  <2>2. QED
    BY <1>2, <1>4, <2>1 DEF Waiting, Queued
<1>11. AllBefore(by, {j}, Waiting')
  <2>1. SUFFICES ASSUME NEW i \in Waiting', i.c = c PROVE JobBefore(by, j, i)
    BY <1>5 DEF AllBefore, JobBefore
  <2>2. CASE i \in Queued'
    <3>1. PICK d \in Conns : i \in Range(jobs'[d])
      BY <2>2 DEF Queued
    <3>2. d = c
      BY <1>7, <2>1, <3>1 DEF Core, QueueInv
    <3>3. QED
      BY <1>6, <1>7, <3>1, <3>2 DEF AllBefore
  <2>3. CASE i \in InHand \cup Range(outgoing) \cup Unpushed
    BY <1>4, <2>3 DEF LineInv, PathInv, JobsInv, AllBefore
  <2>4. QED
    BY <1>2, <2>1, <2>2, <2>3 DEF Waiting
<1>12. \A d \in Conns : UNCHANGED SentJobs(d)
  BY <1>2 DEF SentJobs
<1>13. Rest(c)' = [k |-> j.k, c |-> c, ms |-> j.ms] /\ \A d \in Conns : d # c => UNCHANGED Rest(d)
  BY <1>7 DEF Rest
<1>14. LeftInv'
  <2>1. AllBefore(by, {Rest(c)'}, Waiting')
    BY <1>5, <1>11, <1>13 DEF AllBefore, JobBefore
  <2>2. QED
    BY <1>2, <1>10, <1>13, <2>1 DEF LineInv, EndInv, LeftInv, AllBefore
<1>15. SentInv'
  <2>1. AllBefore(by, SentJobs(c), {Rest(c)'})
    BY <1>5, <1>10, <1>13 DEF LineInv, EndInv, SentInv, AllBefore, JobBefore
  <2>2. QED
    BY <1>2, <1>10, <1>12, <1>13, <2>1 DEF LineInv, EndInv, SentInv, AllBefore
<1>16. CallerOrder'
  BY <1>2 DEF LineInv, EndInv, CallerOrder
<1>17. QED
  BY <1>8, <1>9, <1>14, <1>15, <1>16 DEF PathInv, EndInv

\* What a writer logs.
LEMMA WriterSendLogs ==
  ASSUME TypeOK, CallInv, Core, NEW c \in Conns, WriterSend(c)
  PROVE  \E m \in NextMsgs(c) : \E r \in Calls \X Nat \X {"equal", "written"} :
           /\ r[1] = cur[c].k /\ r[2] = m[1] /\ r[1] <= calls
           /\ m \in left[c] /\ m[1] \in Nat
           /\ log' = [log EXCEPT ![c] = Append(@, r)]
<1>1. PICK m \in NextMsgs(c) : \E o \in {"equal", "written"} :
        log' = [log EXCEPT ![c] = Append(@, <<cur[c].k, m[1], o>>)]
  BY DEF WriterSend
<1>2. PICK o \in {"equal", "written"} :
        log' = [log EXCEPT ![c] = Append(@, <<cur[c].k, m[1], o>>)]
  BY <1>1
<1>3. m \in left[c] /\ m[1] \in Nat
  BY <1>1 DEF NextMsgs, TypeOK, Uses
<1>4. cur[c].k \in Calls /\ cur[c].k <= calls
  <2>1. cur[c] # NoJob /\ phase[cur[c].k] \in {"push", "wait"}
    BY DEF WriterSend, Core, WriterInv
  <2>2. cur[c].k \in Calls
    BY <2>1 DEF TypeOK, Job
  <2>3. ~ (cur[c].k > calls)
    BY <2>1, <2>2 DEF CallInv
  <2>4. QED
    BY <2>2, <2>3, DeliveryAssumption DEF TypeOK, Calls
<1>5. QED
  BY <1>1, <1>2, <1>3, <1>4

\* A writer sends the first message it has left.
LEMMA WriterSendLine ==
  ASSUME TypeOK, CallInv, Core, LineInv, NEW c \in Conns, WriterSend(c)
  PROVE  LogOK' /\ PathInv' /\ EndInv'
<1>1. PICK m \in NextMsgs(c) : \E r \in Calls \X Nat \X {"equal", "written"} :
           /\ r[1] = cur[c].k /\ r[2] = m[1] /\ r[1] <= calls
           /\ m \in left[c] /\ m[1] \in Nat
           /\ log' = [log EXCEPT ![c] = Append(@, r)]
  BY WriterSendLogs
<1>2. PICK r \in Calls \X Nat \X {"equal", "written"} :
           /\ r[1] = cur[c].k /\ r[2] = m[1] /\ r[1] <= calls
           /\ m \in left[c] /\ m[1] \in Nat
           /\ log' = [log EXCEPT ![c] = Append(@, r)]
  BY <1>1
<1>3. UNCHANGED <<by, calls, todo, outgoing, dpc, hand, jobs, left, cur>>
  BY DEF WriterSend, callVars, pushVars, queueVars
<1>4. UNCHANGED <<Unpushed, Queued, InHand, Waiting>>
  BY <1>3 DEF Unpushed, Queued, InHand, Waiting
<1>5. PathInv'
  BY <1>3, <1>4 DEF LineInv, PathInv, TodoInv, OutInv, JobsInv
<1>6. log \in [Conns -> Seq(Calls \X Nat \X {"equal", "written"})]
  BY DEF LineInv, LogOK
<1>7. PICK n : n = Len(log[c])
  OBVIOUS
<1>8. /\ n \in Nat /\ Len(log'[c]) = n + 1
      /\ \A x \in 1..n : log'[c][x] = log[c][x]
      /\ log'[c][n + 1] = r
      /\ \A d \in Conns : d # c => log'[d] = log[d]
  <2>1. log'[c] = Append(log[c], r) /\ \A d \in Conns : d # c => log'[d] = log[d]
    BY <1>2, <1>6
  <2>2. QED
    BY <1>6, <1>7, <2>1, AppendProperties
<1>9. LogOK'
  <2>1. log' \in [Conns -> Seq(Calls \X Nat \X {"equal", "written"})]
    BY <1>2, <1>6, AppendProperties
  <2>2. \A x \in 1..n + 1 : x \in 1..n \/ x = n + 1
    BY <1>8
  <2>3. \A x \in 1..Len(log'[c]) : log'[c][x][1] <= calls
    BY <1>2, <1>7, <1>8, <2>2 DEF LineInv, LogOK
  <2>4. QED
    BY <1>3, <1>8, <2>1, <2>3 DEF LineInv, LogOK
<1>10. SentJobs(c)' \subseteq SentJobs(c) \cup {Sending(c, r)}
  <2>1. \A x \in 1..n + 1 : x \in 1..n \/ x = n + 1
    BY <1>8
  <2>2. QED
    BY <1>7, <1>8, <2>1 DEF SentJobs
<1>11. \A d \in Conns : UNCHANGED Rest(d) /\ (d # c => UNCHANGED SentJobs(d))
  BY <1>3, <1>8 DEF Rest, SentJobs
<1>12. \A i \in left[c] : m[1] <= i[1]
  BY DEF NextMsgs
<1>13. AllBefore(by, {Sending(c, r)}, {Rest(c)} \cup Waiting)
  <2>1. JobBefore(by, Sending(c, r), Rest(c))
    BY <1>2, <1>12 DEF JobBefore, Before, Sending, Rest
  <2>2. \A j \in Waiting : JobBefore(by, Rest(c), j) => JobBefore(by, Sending(c, r), j)
    BY <1>2 DEF JobBefore, Sending, Rest, Before
  <2>3. QED
    BY <2>1, <2>2 DEF LineInv, EndInv, LeftInv, AllBefore
<1>14. SentInv' /\ LeftInv'
  BY <1>3, <1>4, <1>10, <1>11, <1>13 DEF LineInv, EndInv, SentInv, LeftInv, AllBefore
<1>15. CallerOrder'
  <2>1. SUFFICES ASSUME NEW d \in Conns, NEW x \in DOMAIN log'[d], NEW y \in DOMAIN log'[d],
                        x < y, by[log'[d][x][1]] = by[log'[d][y][1]]
                 PROVE  \/ log'[d][x][1] < log'[d][y][1]
                        \/ log'[d][x][1] = log'[d][y][1] /\ log'[d][x][2] <= log'[d][y][2]
    BY <1>3 DEF CallerOrder
  <2>2. CASE d # c
    BY <1>8, <2>1, <2>2 DEF LineInv, EndInv, CallerOrder
  <2>3. CASE d = c
    <3>1. DOMAIN log'[c] = 1..n + 1 /\ DOMAIN log[c] = 1..n
      BY <1>6, <1>7, <1>8, <1>9, LenProperties DEF LogOK
    <3>2. x \in 1..n /\ (y \in 1..n \/ y = n + 1)
      BY <1>8, <2>1, <2>3, <3>1
    <3>3. CASE y \in 1..n
      <4>1. \A i, j \in 1..n : i < j /\ by[log[c][i][1]] = by[log[c][j][1]] =>
              \/ log[c][i][1] < log[c][j][1]
              \/ log[c][i][1] = log[c][j][1] /\ log[c][i][2] <= log[c][j][2]
        BY <3>1 DEF LineInv, EndInv, CallerOrder
      <4>2. log'[d][x] = log[c][x] /\ log'[d][y] = log[c][y]
        BY <1>8, <2>3, <3>2, <3>3
      <4>3. QED
        BY <2>1, <3>2, <3>3, <4>1, <4>2
    <3>4. CASE y = n + 1
      <4>1. JobBefore(by, Sending(c, log[c][x]), Rest(c))
        BY <1>7, <3>2 DEF LineInv, EndInv, SentInv, AllBefore, SentJobs
      <4>2. Before(by, log[c][x][1], log[c][x][2], r[1], r[2])
        BY <1>2, <4>1 DEF JobBefore, Sending, Rest
      <4>3. QED
        BY <1>8, <2>1, <2>3, <3>2, <3>4, <4>2 DEF Before
    <3>5. QED
      BY <3>2, <3>3, <3>4
  <2>4. QED
    BY <2>2, <2>3
<1>16. QED
  BY <1>5, <1>9, <1>14, <1>15 DEF EndInv

\* The entries of a client's jobs lie apart, for each job is of one channel and
\* the entries of a channel stand together.
LEMMA MergedApart ==
  ASSUME NEW b \in Batches, reg \subseteq Subs, NEW k,
         NEW i \in MergedJobs(k, b), NEW j \in MergedJobs(k, b), i.c = j.c
  PROVE  i = j \/ Apart(i, j)
<1> DEFINE J(c, h) == [k |-> k, c |-> c, h |-> h,
                       ms |-> {m \in Hits(b) : m[2][1] = c /\ m[2][2] = h}]
<1>1. i = J(i.c, i.h) /\ j = J(j.c, j.h)
  BY DEF MergedJobs
<1>2. i.h = j.h => i = j
  <2> HIDE DEF J
  <2> QED BY <1>1
<1>3. /\ \A m \in i.ms : m \in Hits(b) /\ m[2][2] = i.h
      /\ \A m \in j.ms : m \in Hits(b) /\ m[2][2] = j.h
  BY DEF MergedJobs
<1>4. /\ DOMAIN b = 1..Len(b) /\ Len(b) \in Nat
      /\ \A x, y, z \in DOMAIN b :
           x < y /\ y < z /\ b[x].h = b[z].h /\ b[x].h # None => b[y].h \in {b[x].h, None}
  BY DeliveryAssumption DEF BatchAssumption
<1>5. /\ \A m \in i.ms : m[1] \in DOMAIN b /\ b[m[1]].h = i.h
      /\ \A m \in j.ms : m[1] \in DOMAIN b /\ b[m[1]].h = j.h
  BY <1>3 DEF Hits
<1>6. i.h # None /\ j.h # None
  <2>1. \A m \in Hits(b) : m[2] \in Subs
    BY DEF Hits
  <2>2. \A m \in Hits(b) : m[2][2] \in Channels
    BY <2>1 DEF Channels
  <2>3. i.h \in Channels /\ j.h \in Channels
    BY <2>2 DEF MergedJobs
  <2>4. QED
    BY <2>3, DeliveryAssumption
<1>7. ASSUME i.h # j.h, NEW m1 \in i.ms, NEW n1 \in j.ms, ~ (m1[1] < n1[1]),
             NEW m2 \in i.ms, NEW n2 \in j.ms, ~ (n2[1] < m2[1])
      PROVE  FALSE
  <2>1. /\ m1[1] \in 1..Len(b) /\ n1[1] \in 1..Len(b)
        /\ m2[1] \in 1..Len(b) /\ n2[1] \in 1..Len(b)
    BY <1>4, <1>5
  <2>2. /\ b[m1[1]].h = i.h /\ b[m2[1]].h = i.h
        /\ b[n1[1]].h = j.h /\ b[n2[1]].h = j.h
    BY <1>5
  <2>3. m1[1] # n1[1] /\ m2[1] # n2[1] /\ m1[1] # n2[1]
    BY <1>7, <2>2
  <2>4. n1[1] < m1[1] /\ m2[1] < n2[1]
    BY <1>4, <1>7, <2>1, <2>3
  <2>5. CASE m1[1] < n2[1]
    BY <1>4, <1>6, <1>7, <2>1, <2>2, <2>4, <2>5
  <2>6. CASE n2[1] < m1[1]
    BY <1>4, <1>6, <1>7, <2>1, <2>2, <2>4, <2>6
  <2>7. QED
    BY <1>4, <2>1, <2>3, <2>5, <2>6
<1>8. QED
  BY <1>2, <1>7 DEF Apart

\* A new call comes after all.
LEMMA BroadcastLine ==
  ASSUME TypeOK, CallInv, Core, LineInv, NEW p \in Callers, NEW b \in Batches, BroadcastBatch(p, b)
  PROVE  LogOK' /\ CallerInv' /\ PathInv' /\ EndInv'
<1>1. PICK k : k = calls + 1
  OBVIOUS
<1>2. PICK M : M = MergedJobs(k, b)
  OBVIOUS
<1>3. /\ calls < MaxCalls /\ calls' = k /\ at[p] = 0
      /\ at' = [at EXCEPT ![p] = k]
      /\ by' = [by EXCEPT ![k] = p]
      /\ todo' = [todo EXCEPT ![k] = M]
      /\ UNCHANGED <<outgoing, dpc, hand, jobs, left, cur, log>>
  BY <1>1, <1>2 DEF BroadcastBatch, queueVars, writeVars
<1>4. k \in Calls /\ k \in Nat /\ k # 0 /\ calls \in Nat /\ reg \subseteq Subs
  BY <1>1, <1>3, DeliveryAssumption DEF TypeOK, Calls
<1>5. \A l \in Calls : phase[l] # "idle" => l < k
  BY <1>1, <1>4, DeliveryAssumption DEF CallInv, Calls
<1>6. \A q \in Callers : at[q] # 0 => at[q] \in Calls /\ at[q] < k
  <2>1. TAKE q \in Callers
  <2>2. HAVE at[q] # 0
  <2>3. at[q] \in Calls
    BY <2>2, DeliveryAssumption DEF TypeOK, Calls
  <2>4. phase[at[q]] = "push"
    BY <2>2 DEF CallInv
  <2>5. QED
    BY <1>5, <2>3, <2>4
<1>7. CallerInv'
  BY <1>3, <1>4, <1>6 DEF LineInv, CallerInv, TypeOK
<1>8. \A j \in Waiting : j.k \in Calls /\ j.k < k
  BY <1>5, WaitingAreJobs DEF Core, WaitInv, Job
<1>9. \A c \in Conns : left[c] # {} => cur[c].k \in Calls /\ cur[c].k < k
  <2>1. SUFFICES ASSUME NEW c \in Conns, left[c] # {} PROVE cur[c].k \in Calls /\ cur[c].k < k
    OBVIOUS
  <2>2. cur[c] # NoJob /\ phase[cur[c].k] \in {"push", "wait"}
    BY <2>1 DEF Core, WriterInv
  <2>3. cur[c].k \in Calls
    BY <2>2 DEF TypeOK, Job
  <2>4. QED
    BY <1>5, <2>2, <2>3
<1>10. \A c \in Conns : \A x \in 1..Len(log[c]) : log[c][x][1] \in Calls /\ log[c][x][1] < k
  <2>1. TAKE c \in Conns
  <2>2. TAKE x \in 1..Len(log[c])
  <2>3. log[c] \in Seq(Calls \X Nat \X {"equal", "written"}) /\ log[c][x][1] <= calls
    BY DEF LineInv, LogOK
  <2>4. log[c][x] \in Calls \X Nat \X {"equal", "written"}
    BY <2>3, ElementOfSeq
  <2>5. log[c][x][1] \in Calls
    BY <2>4
  <2>6. QED
    BY <1>1, <1>4, <2>3, <2>5, DeliveryAssumption DEF Calls
<1>11. by \in [Calls -> Callers \cup {None}]
  BY DEF TypeOK
<1>12. todo[k] = {}
  BY <1>4, <1>6 DEF CallInv
<1>13. Unpushed' = Unpushed \cup M /\ UNCHANGED <<Queued, InHand>>
  <2>1. \A l \in Calls : todo'[l] = IF l = k THEN M ELSE todo[l]
    BY <1>3, <1>4 DEF TypeOK
  <2>2. Unpushed' = Unpushed \cup M
    BY <1>4, <1>12, <2>1 DEF Unpushed
  <2>3. QED
    BY <1>3, <2>2 DEF Queued, InHand
<1>14. Waiting' = Waiting \cup M
  BY <1>3, <1>13 DEF Waiting
<1>15. \A j \in M : j.k = k
  BY <1>2 DEF MergedJobs
<1>16. ASSUME NEW I, \A i \in I : (i.k \in Calls /\ i.k < k) \/ i.ms = {}
       PROVE  /\ \A J : AllBefore(by, I, J) /\ (\A j \in J : (j.k \in Calls /\ j.k < k) \/ j.ms = {})
                          => AllBefore(by', I, J)
              /\ AllBefore(by', I, M)
  <2>1. ASSUME NEW i \in I, NEW j, j.k = k PROVE JobBefore(by', i, j)
    BY <1>3, <1>4, <1>11, <1>16, <2>1, NewCallBefore DEF JobBefore
  <2>2. ASSUME NEW i \in I, NEW j, (j.k \in Calls /\ j.k < k) \/ j.ms = {}, JobBefore(by, i, j)
        PROVE  JobBefore(by', i, j)
    BY <1>3, <1>4, <1>11, <1>16, <2>2, NewCallBefore DEF JobBefore
  <2>3. QED
    BY <1>15, <2>1, <2>2 DEF AllBefore
<1>17. ASSUME NEW s \in Seq(Job), InLine(by, s), Range(s) \subseteq Waiting
       PROVE  InLine(by', s)
  <2>1. SUFFICES ASSUME NEW x \in 1..Len(s), NEW y \in 1..Len(s), x < y
                 PROVE  JobBefore(by', s[x], s[y])
    BY DEF InLine
  <2>2. s[x] \in Waiting /\ s[y] \in Waiting
    BY <1>17, LenProperties DEF Range
  <2>3. JobBefore(by, s[x], s[y])
    BY <1>17, <2>1 DEF InLine
  <2>4. QED
    BY <1>3, <1>4, <1>8, <1>11, <2>2, <2>3, NewCallBefore
<1>18. LogOK'
  <2>1. \A c \in Conns : \A x \in 1..Len(log[c]) : log[c][x][1] <= k
    BY <1>4, <1>10, DeliveryAssumption DEF Calls
  <2>2. QED
    BY <1>3, <2>1 DEF LineInv, LogOK
<1>19. PathInv'
  <2>1. TodoInv'
    <3>1. \A l \in Calls : todo'[l] = IF l = k THEN M ELSE todo[l]
      BY <1>3, <1>4 DEF TypeOK
    <3>2. \A i, j \in M : i.c = j.c => i = j \/ Apart(i, j)
      BY <1>2, <1>4, MergedApart
    <3>3. QED
      BY <3>1, <3>2 DEF LineInv, PathInv, TodoInv
  <2>2. /\ Range(outgoing) \subseteq Waiting /\ InHand \subseteq Waiting /\ Unpushed \subseteq Waiting
        /\ \A c \in Conns : Range(jobs[c]) \subseteq Waiting
    BY DEF Waiting, Queued
  <2>3. outgoing \in Seq(Job) /\ \A c \in Conns : jobs[c] \in Seq(Job)
    BY DEF TypeOK
  <2>4. OutInv'
    <3>1. InLine(by', outgoing)
      BY <1>17, <2>2, <2>3 DEF LineInv, PathInv, OutInv
    <3>2. AllBefore(by', Range(outgoing), Unpushed) /\ AllBefore(by', Range(outgoing), M)
      BY <1>8, <1>16, <2>2 DEF LineInv, PathInv, OutInv
    <3>3. /\ AllBefore(by', InHand, Range(outgoing) \cup Unpushed)
          /\ AllBefore(by', InHand, M)
      BY <1>8, <1>16, <2>2 DEF LineInv, PathInv, OutInv
    <3>4. QED
      BY <1>3, <1>13, <3>1, <3>2, <3>3 DEF OutInv, AllBefore
  <2>5. JobsInv'
    <3>1. SUFFICES ASSUME NEW c \in Conns
                   PROVE  /\ InLine(by', jobs'[c])
                          /\ AllBefore(by', Range(jobs'[c]), InHand' \cup Range(outgoing') \cup Unpushed')
      BY DEF JobsInv
    <3>2. InLine(by', jobs[c])
      BY <1>17, <2>2, <2>3 DEF LineInv, PathInv, JobsInv
    <3>3. /\ AllBefore(by', Range(jobs[c]), InHand \cup Range(outgoing) \cup Unpushed)
          /\ AllBefore(by', Range(jobs[c]), M)
      BY <1>8, <1>16, <2>2 DEF LineInv, PathInv, JobsInv
    <3>4. QED
      BY <1>3, <1>13, <3>2, <3>3 DEF AllBefore
  <2>6. QED
    BY <2>1, <2>4, <2>5 DEF PathInv
<1>20. EndInv'
  <2>1. \A c \in Conns : UNCHANGED <<SentJobs(c), Rest(c)>>
    BY <1>3 DEF SentJobs, Rest
  <2>2. \A c \in Conns : \A i \in {Rest(c)} : (i.k \in Calls /\ i.k < k) \/ i.ms = {}
    BY <1>9 DEF Rest
  <2>3. \A c \in Conns : \A i \in SentJobs(c) : i.k \in Calls /\ i.k < k
    BY <1>10 DEF SentJobs, Sending
  <2>4. LeftInv'
    <3>1. \A c \in Conns : AllBefore(by', {Rest(c)}, Waiting) /\ AllBefore(by', {Rest(c)}, M)
      BY <1>8, <1>16, <2>2 DEF LineInv, EndInv, LeftInv
    <3>2. QED
      BY <1>14, <2>1, <3>1 DEF LeftInv, AllBefore
  <2>5. SentInv'
    <3>1. \A c \in Conns : /\ AllBefore(by', SentJobs(c), {Rest(c)} \cup Waiting)
                           /\ AllBefore(by', SentJobs(c), M)
      BY <1>8, <1>16, <2>2, <2>3 DEF LineInv, EndInv, SentInv
    <3>2. QED
      BY <1>14, <2>1, <3>1 DEF SentInv, AllBefore
  <2>6. CallerOrder'
    <3>1. \A c \in Conns : DOMAIN log[c] = 1..Len(log[c])
      BY LenProperties DEF LineInv, LogOK
    <3>2. \A c \in Conns : \A x \in DOMAIN log[c] : by'[log[c][x][1]] = by[log[c][x][1]]
      BY <1>3, <1>4, <1>10, <1>11, <3>1, DeliveryAssumption DEF Calls
    <3>3. QED
      BY <1>3, <3>2 DEF LineInv, EndInv, CallerOrder
  <2>7. QED
    BY <2>4, <2>5, <2>6 DEF EndInv
<1>21. QED
  BY <1>7, <1>18, <1>19, <1>20

\* Every step keeps the line.
LEMMA LineStep ==
  ASSUME TypeOK, CallInv, Core, LineInv, Next \/ UNCHANGED vars
  PROVE  LineInv'
<1>1. ASSUME UNCHANGED <<by, calls, log>>, CallerInv', PathInv', EndInv'
      PROVE  LineInv'
  BY <1>1 DEF LineInv, LogOK
<1>2. ASSUME UNCHANGED <<by, at, calls, todo, outgoing, jobs, left, cur, log>>, InHand' \subseteq InHand
      PROVE  LineInv'
  <2>1. PathInv' /\ EndInv'
    BY <1>2, LineShrinks DEF LineInv
  <2>2. CallerInv'
    BY <1>2 DEF LineInv, CallerInv
  <2>3. QED
    BY <1>1, <1>2, <2>1, <2>2
<1>3. ASSUME NEW c \in Conns, ConnStep(c) \/ Leave(c)
      PROVE  LineInv'
  <2>1. UNCHANGED <<by, at, calls, todo, outgoing, dpc, hand, jobs, left, cur>>
    BY <1>3, ConnFrame DEF callVars, pushVars, queueVars
  <2>2. UNCHANGED log
    BY <1>3 DEF ConnStep, LockSet, SetClient, Leave, LockUnset, Stop, StopWait, CloseJobs, writeVars
  <2>3. QED
    BY <1>2, <2>1, <2>2 DEF InHand
<1>4. ASSUME NEW c \in Conns, WriterStep(c)
      PROVE  LineInv'
  <2>1. UNCHANGED <<by, at, calls, todo, outgoing, dpc, hand, InHand>>
    BY <1>4, WriterFrame DEF callVars, pushVars, queueVars, InHand
  <2>2. CallerInv'
    BY <2>1 DEF LineInv, CallerInv
  <2>3. CASE WriterTake(c)
    BY <1>1, <2>1, <2>2, <2>3, WriterTakeLine DEF WriterTake
  <2>4. CASE WriterSend(c)
    BY <2>2, <2>4, WriterSendLine DEF LineInv
  <2>5. CASE WriterDone(c)
    <3>1. UNCHANGED <<jobs, log>>
      BY <2>5 DEF WriterDone
    <3>2. \A d \in Conns : left'[d] = {} \/ (left'[d] \subseteq left[d] /\ cur'[d].k = cur[d].k)
      BY <2>5 DEF WriterDone, TypeOK
    <3>3. PathInv' /\ EndInv'
      BY <2>1, <3>1, <3>2, LineShrinks DEF LineInv
    <3>4. QED
      BY <1>1, <2>1, <2>2, <3>1, <3>3
  <2>6. CASE WriterExit(c)
    BY <1>2, <2>1, <2>6 DEF WriterExit
  <2>7. QED
    BY <1>4, <2>3, <2>4, <2>5, <2>6 DEF WriterStep
<1>5. ASSUME NEW p \in Callers, Push(p)
      PROVE  LineInv'
  <2>1. UNCHANGED <<by, at, calls, log>>
    BY <1>5 DEF Push, callVars, writeVars
  <2>2. CallerInv'
    BY <2>1 DEF LineInv, CallerInv
  <2>3. QED
    BY <1>1, <1>5, <2>1, <2>2, PushLine
<1>6. ASSUME NEW p \in Callers, Return(p)
      PROVE  LineInv'
  <2>1. /\ UNCHANGED <<by, calls, todo, outgoing, dpc, hand, jobs, left, cur, log, InHand>>
        /\ at' = [at EXCEPT ![p] = 0]
    BY <1>6 DEF Return, callVars, queueVars, writeVars, InHand
  <2>2. CallerInv'
    BY <2>1 DEF LineInv, CallerInv, TypeOK
  <2>3. PathInv' /\ EndInv'
    BY <2>1, LineShrinks DEF LineInv
  <2>4. QED
    BY <1>1, <2>1, <2>2, <2>3
<1>7. ASSUME NEW p \in Callers, NEW b \in Batches, BroadcastBatch(p, b)
      PROVE  LineInv'
  BY <1>7, BroadcastLine DEF LineInv
<1>8. ASSUME NEW k \in Calls, CloseMsgs(k)
      PROVE  LineInv'
  <2>1. UNCHANGED <<by, at, calls, todo, outgoing, dpc, hand, jobs, left, cur, log>>
    BY <1>8 DEF CloseMsgs, callVars, queueVars, writeVars
  <2>2. QED
    BY <1>2, <2>1 DEF InHand
<1>9. ASSUME DispatchStep
      PROVE  LineInv'
  <2>1. UNCHANGED <<by, at, calls, todo, left, cur, log>>
    BY <1>9, DispatchFrame DEF callVars, pushVars, writeVars
  <2>2. CallerInv'
    BY <2>1 DEF LineInv, CallerInv
  <2>3. CASE Take
    BY <1>1, <2>1, <2>2, <2>3, TakeLine
  <2>4. CASE QueueSend
    BY <1>1, <2>1, <2>2, <2>4, SendLine
  <2>5. CASE QueueStopped \/ QueueCheck \/ QueueAdd \/ QueuePanic \/ QueueDone
    <3>1. UNCHANGED <<outgoing, jobs>> /\ InHand' \subseteq InHand
      BY <2>5 DEF QueueStopped, QueueCheck, QueueAdd, QueuePanic, QueueDone, queueVars, InHand
    <3>2. QED
      BY <1>2, <2>1, <3>1
  <2>6. QED
    BY <1>9, <2>3, <2>4, <2>5 DEF DispatchStep
<1>10. ASSUME UNCHANGED vars
       PROVE  LineInv'
  BY <1>2, <1>10 DEF vars, callVars, pushVars, queueVars, writeVars, InHand
<1>11. QED
  BY <1>3, <1>4, <1>5, <1>6, <1>7, <1>8, <1>9, <1>10 DEF Next, CallerStep, Terminating

\* At first nothing stands in the line.
LEMMA InitLine == Init => LineInv
<1>1. HAVE Init
<1>2. Unpushed = {} /\ outgoing = <<>> /\ InHand = {}
  BY <1>1 DEF Init, Unpushed, InHand
<1>3. \A c \in Conns : jobs[c] = <<>> /\ log[c] = <<>> /\ left[c] = {}
  BY <1>1 DEF Init
<1>4. Range(<<>>) = {} /\ Len(<<>>) = 0 /\ 1..0 = {}
  BY DEF Range
<1>5. LogOK
  BY <1>1, <1>4 DEF Init, LogOK
<1>6. CallerInv
  BY <1>1 DEF Init, CallerInv
<1>7. PathInv
  BY <1>1, <1>2, <1>3, <1>4 DEF Init, PathInv, TodoInv, OutInv, JobsInv, InLine, AllBefore
<1>8. EndInv
  <2>1. Waiting = {}
    BY <1>2, <1>3, <1>4 DEF Waiting, Queued
  <2>2. \A c \in Conns : SentJobs(c) = {}
    BY <1>3, <1>4 DEF SentJobs
  <2>3. CallerOrder
    BY <1>3, <1>4 DEF CallerOrder
  <2>4. QED
    BY <2>1, <2>2, <2>3 DEF EndInv, LeftInv, SentInv, AllBefore
<1>9. QED
  BY <1>5, <1>6, <1>7, <1>8 DEF LineInv

-----------------------------------------------------------------------------
(* The number of messages *)

\* What c was sent of entry e of call k, is still owed of it, and what the
\* entry's filter selected for it.
Sent(k, c, e)   == {x \in DOMAIN log[c] : log[c][x][1] = k /\ log[c][x][2] = e}
Due(k, c, e)    == {m \in Pending(k) : m[1] = e /\ m[2][1] = c}
Wanted(k, c, e) == {m \in hits[k] : m[1] = e /\ m[2][1] = c}

\* It is logged, but its Done is still to come.
Doing(k, c, e) ==
  IF wpc[c] = "done" /\ cur[c].k = k /\ \E m \in NextMsgs(c) : m[1] = e THEN 1 ELSE 0

Got(k, c, e)     == Cardinality(Sent(k, c, e)) + Cardinality(Due(k, c, e))
Allowed(k, c, e) == Cardinality(Wanted(k, c, e)) + Doing(k, c, e)

\* Sent and owed is what was selected; only a stopped client loses some.
ServeInv ==
  \A k \in Calls, c \in Conns : \A e \in Nat :
    /\ Got(k, c, e) <= Allowed(k, c, e)
    /\ ~Stopped(c) => Got(k, c, e) = Allowed(k, c, e)

\* These sets can be counted.
LEMMA Countable ==
  ASSUME TypeOK, Core, LogOK, NEW k \in Calls, NEW c \in Conns, NEW e
  PROVE  /\ IsFiniteSet(Sent(k, c, e)) /\ Cardinality(Sent(k, c, e)) \in Nat
         /\ IsFiniteSet(Due(k, c, e)) /\ Cardinality(Due(k, c, e)) \in Nat
         /\ IsFiniteSet(Wanted(k, c, e)) /\ Cardinality(Wanted(k, c, e)) \in Nat
         /\ Doing(k, c, e) \in {0, 1}
<1>1. IsFiniteSet(DOMAIN log[c])
  <2>1. log[c] \in Seq(Calls \X Nat \X {"equal", "written"})
    BY DEF LogOK
  <2>2. DOMAIN log[c] = 1..Len(log[c]) /\ Len(log[c]) \in Nat
    BY <2>1, LenProperties
  <2>3. QED
    BY <2>2, FS_Interval
<1>2. IsFiniteSet(Pending(k))
  BY DEF Core, CountInv
<1>3. IsFiniteSet(hits[k])
  BY DEF TypeOK, Uses
<1>4. /\ Sent(k, c, e) \in SUBSET DOMAIN log[c]
      /\ Due(k, c, e) \in SUBSET Pending(k)
      /\ Wanted(k, c, e) \in SUBSET hits[k]
  BY DEF Sent, Due, Wanted
<1>5. Doing(k, c, e) \in {0, 1}
  BY DEF Doing
<1>6. QED
  BY <1>1, <1>2, <1>3, <1>4, <1>5, FS_Subset, FS_CardinalityType

\* The next message is of one entry.
LEMMA NextIsOne ==
  ASSUME TypeOK, NEW c \in Conns, NEW m \in NextMsgs(c), NEW n \in NextMsgs(c)
  PROVE  m[1] = n[1]
<1>1. m \in left[c] /\ n \in left[c] /\ m[1] <= n[1] /\ n[1] <= m[1]
  BY DEF NextMsgs
<1>2. m[1] \in Nat /\ n[1] \in Nat
  BY <1>1 DEF TypeOK, Uses
<1>3. QED
  BY <1>1, <1>2

\* A step that sends nothing and settles nothing.
LEMMA ServeKept ==
  ASSUME ServeInv, Kept, UNCHANGED <<hits, log>>,
         \A c \in Conns : /\ Stopped(c) => Stopped(c)'
                          /\ wpc[c] = "done" <=> wpc'[c] = "done"
                          /\ wpc[c] = "done" => cur'[c] = cur[c] /\ left'[c] = left[c]
  PROVE  ServeInv'
<1>1. SUFFICES ASSUME NEW k \in Calls, NEW c \in Conns, NEW e \in Nat
               PROVE  /\ Got(k, c, e)' <= Allowed(k, c, e)'
                      /\ ~Stopped(c)' => Got(k, c, e)' = Allowed(k, c, e)'
  BY DEF ServeInv
<1>2. UNCHANGED Sent(k, c, e) /\ UNCHANGED Wanted(k, c, e)
  BY DEF Sent, Wanted
<1>3. UNCHANGED Due(k, c, e)
  BY DEF Due, Kept
<1>4. UNCHANGED Doing(k, c, e)
  BY DEF Doing, NextMsgs
<1>5. UNCHANGED <<Got(k, c, e), Allowed(k, c, e)>>
  BY <1>2, <1>3, <1>4 DEF Got, Allowed
<1>6. QED
  BY <1>5 DEF ServeInv

\* A writer sends a message that is due.
LEMMA ServeSend ==
  ASSUME TypeOK, CallInv, Core, LogOK, LogOK', Kept, ServeInv, NEW c \in Conns, WriterSend(c)
  PROVE  ServeInv'
<1>1. PICK m \in NextMsgs(c) : \E r \in Calls \X Nat \X {"equal", "written"} :
           /\ r[1] = cur[c].k /\ r[2] = m[1] /\ r[1] <= calls
           /\ m \in left[c] /\ m[1] \in Nat
           /\ log' = [log EXCEPT ![c] = Append(@, r)]
  BY WriterSendLogs
<1>2. PICK r \in Calls \X Nat \X {"equal", "written"} :
           /\ r[1] = cur[c].k /\ r[2] = m[1] /\ r[1] <= calls
           /\ m \in left[c] /\ m[1] \in Nat
           /\ log' = [log EXCEPT ![c] = Append(@, r)]
  BY <1>1
<1>3. /\ UNCHANGED <<conn, hits, left, cur>>
      /\ wpc[c] = "send" /\ wpc' = [wpc EXCEPT ![c] = "done"]
  BY DEF WriterSend, connVars, callVars
<1>4. wpc'[c] = "done" /\ \A d \in Conns : d # c => wpc'[d] = wpc[d]
  BY <1>3 DEF TypeOK
<1>5. log[c] \in Seq(Calls \X Nat \X {"equal", "written"})
  BY DEF LogOK
<1>6. PICK n : n = Len(log[c])
  OBVIOUS
<1>7. /\ n \in Nat /\ DOMAIN log[c] = 1..n /\ DOMAIN log'[c] = 1..n + 1
      /\ \A x \in 1..n : log'[c][x] = log[c][x]
      /\ log'[c][n + 1] = r
      /\ \A d \in Conns : d # c => log'[d] = log[d]
  <2>1. log'[c] = Append(log[c], r) /\ \A d \in Conns : d # c => log'[d] = log[d]
    BY <1>2 DEF LogOK
  <2>2. QED
    BY <1>5, <1>6, <2>1, AppendProperties, LenProperties
<1>8. SUFFICES ASSUME NEW k \in Calls, NEW d \in Conns, NEW e \in Nat
               PROVE  /\ Got(k, d, e)' <= Allowed(k, d, e)'
                      /\ ~Stopped(d)' => Got(k, d, e)' = Allowed(k, d, e)'
  BY DEF ServeInv
<1>9. UNCHANGED <<Due(k, d, e), Wanted(k, d, e), Stopped(d)>>
  BY <1>3 DEF Due, Wanted, Kept, Stopped
<1>10. /\ Got(k, d, e) <= Allowed(k, d, e)
       /\ ~Stopped(d) => Got(k, d, e) = Allowed(k, d, e)
  BY DEF ServeInv
<1>11. CASE d = c /\ k = r[1] /\ e = r[2]
  <2>1. Sent(k, d, e)' = Sent(k, d, e) \cup {n + 1} /\ n + 1 \notin Sent(k, d, e)
    <3>1. 1..n + 1 = (1..n) \cup {n + 1} /\ n + 1 \notin 1..n
      BY <1>7
    <3>2. \A x \in 1..n + 1 : log'[d][x] = IF x = n + 1 THEN r ELSE log[d][x]
      BY <1>7, <1>11, <3>1
    <3>3. /\ Sent(k, d, e) = {x \in 1..n : log[d][x][1] = k /\ log[d][x][2] = e}
          /\ Sent(k, d, e)' = {x \in 1..n + 1 : log'[d][x][1] = k /\ log'[d][x][2] = e}
      BY <1>7, <1>11 DEF Sent
    <3>4. QED
      BY <1>11, <3>1, <3>2, <3>3
  <2>2. /\ IsFiniteSet(Sent(k, d, e)) /\ Cardinality(Sent(k, d, e)) \in Nat
        /\ Cardinality(Due(k, d, e)) \in Nat /\ Cardinality(Wanted(k, d, e)) \in Nat
    BY Countable
  <2>3. Cardinality(Sent(k, d, e)') = Cardinality(Sent(k, d, e)) + 1
    BY <2>1, <2>2, FS_AddElement
  <2>4. Doing(k, d, e) = 0 /\ Doing(k, d, e)' = 1
    BY <1>2, <1>3, <1>4, <1>11 DEF Doing, NextMsgs
  <2>5. QED
    BY <1>9, <1>10, <2>2, <2>3, <2>4 DEF Got, Allowed
<1>12. CASE ~ (d = c /\ k = r[1] /\ e = r[2])
  <2>1. UNCHANGED Sent(k, d, e)
    <3>1. CASE d = c
      <4>1. \A x \in 1..n + 1 : x \in 1..n \/ x = n + 1
        BY <1>7
      <4>2. 1..n \subseteq 1..n + 1
        BY <1>7
      <4>3. QED
        BY <1>7, <1>12, <3>1, <4>1, <4>2 DEF Sent
    <3>2. CASE d # c
      BY <1>7, <3>2 DEF Sent
    <3>3. QED
      BY <3>1, <3>2
  <2>2. UNCHANGED Doing(k, d, e)
    <3>1. CASE d = c
      <4>1. ~ (cur[c].k = k /\ \E i \in NextMsgs(c) : i[1] = e)
        BY <1>1, <1>2, <1>12, <3>1, NextIsOne
      <4>2. QED
        BY <1>3, <3>1, <4>1 DEF Doing, NextMsgs
    <3>2. CASE d # c
      BY <1>3, <1>4, <3>2 DEF Doing, NextMsgs
    <3>3. QED
      BY <3>1, <3>2
  <2>3. UNCHANGED <<Got(k, d, e), Allowed(k, d, e)>>
    BY <1>9, <2>1, <2>2 DEF Got, Allowed
  <2>4. QED
    BY <1>9, <1>10, <2>3
<1>13. QED
  BY <1>11, <1>12

\* A writer is done with a message it has logged.
LEMMA ServeDone ==
  ASSUME TypeOK, Core, LogOK, ServeInv, NEW c \in Conns, WriterDone(c)
  PROVE  ServeInv'
<1>1. PICK K \in Calls : \E m \in NextMsgs(c) :
              /\ K = cur[c].k /\ m \in Pending(K)
              /\ left' = [left EXCEPT ![c] = @ \ {m}]
              /\ Pending(K)' = Pending(K) \ {m}
              /\ \A l \in Calls : l # K => Pending(l)' = Pending(l)
  BY WriterDoneCore
<1>2. PICK m \in NextMsgs(c) :
              /\ K = cur[c].k /\ m \in Pending(K)
              /\ left' = [left EXCEPT ![c] = @ \ {m}]
              /\ Pending(K)' = Pending(K) \ {m}
              /\ \A l \in Calls : l # K => Pending(l)' = Pending(l)
  BY <1>1
<1>3. UNCHANGED <<conn, hits, log>> /\ wpc[c] = "done"
  BY DEF WriterDone, connVars, callVars
<1>4. /\ wpc'[c] # "done"
      /\ \A d \in Conns : d # c => wpc'[d] = wpc[d] /\ cur'[d] = cur[d] /\ left'[d] = left[d]
  BY DEF WriterDone, TypeOK
<1>5. m[2][1] = c
  BY <1>2, <1>3 DEF NextMsgs, Core, WriterInv
<1>6. SUFFICES ASSUME NEW k \in Calls, NEW d \in Conns, NEW e \in Nat
               PROVE  /\ Got(k, d, e)' <= Allowed(k, d, e)'
                      /\ ~Stopped(d)' => Got(k, d, e)' = Allowed(k, d, e)'
  BY DEF ServeInv
<1>7. UNCHANGED <<Sent(k, d, e), Wanted(k, d, e), Stopped(d)>>
  BY <1>3 DEF Sent, Wanted, Stopped
<1>8. /\ Got(k, d, e) <= Allowed(k, d, e)
      /\ ~Stopped(d) => Got(k, d, e) = Allowed(k, d, e)
  BY DEF ServeInv
<1>9. CASE d = c /\ k = K /\ e = m[1]
  <2>1. Due(k, d, e)' = Due(k, d, e) \ {m} /\ m \in Due(k, d, e)
    BY <1>2, <1>5, <1>9 DEF Due
  <2>2. /\ IsFiniteSet(Due(k, d, e)) /\ Cardinality(Sent(k, d, e)) \in Nat
        /\ Cardinality(Due(k, d, e)) \in Nat /\ Cardinality(Wanted(k, d, e)) \in Nat
    BY Countable
  <2>3. Cardinality(Due(k, d, e)') = Cardinality(Due(k, d, e)) - 1
    <3> DEFINE D == Due(k, d, e)
    <3>1. IsFiniteSet(D) /\ m \in D
      BY <2>1, <2>2
    <3> HIDE DEF D
    <3>2. Cardinality(D \ {m}) = Cardinality(D) - 1
      BY <3>1, FS_RemoveElement
    <3> QED BY <2>1, <3>2 DEF D
  <2>4. Doing(k, d, e) = 1 /\ Doing(k, d, e)' = 0
    BY <1>2, <1>3, <1>4, <1>9 DEF Doing
  <2>5. QED
    BY <1>7, <1>8, <2>2, <2>3, <2>4 DEF Got, Allowed
<1>10. CASE ~ (d = c /\ k = K /\ e = m[1])
  <2>1. UNCHANGED Due(k, d, e)
    <3>1. CASE k = K
      BY <1>2, <1>5, <1>10, <3>1 DEF Due
    <3>2. CASE k # K
      BY <1>2, <3>2 DEF Due
    <3>3. QED
      BY <3>1, <3>2
  <2>2. UNCHANGED Doing(k, d, e)
    <3>1. CASE d = c
      <4>1. ~ (cur[c].k = k /\ \E i \in NextMsgs(c) : i[1] = e)
        BY <1>2, <1>10, <3>1, NextIsOne
      <4>2. QED
        BY <1>4, <3>1, <4>1 DEF Doing
    <3>2. CASE d # c
      BY <1>4, <3>2 DEF Doing, NextMsgs
    <3>3. QED
      BY <3>1, <3>2
  <2>3. UNCHANGED <<Got(k, d, e), Allowed(k, d, e)>>
    BY <1>7, <2>1, <2>2 DEF Got, Allowed
  <2>4. QED
    BY <1>7, <1>8, <2>3
<1>11. QED
  BY <1>9, <1>10

\* What is given back was for a stopped client.
LEMMA ServeStopped ==
  ASSUME TypeOK, Core, LogOK, ServeInv, QueueStopped
  PROVE  ServeInv'
<1>1. Stopped(hand.c) /\ UNCHANGED <<conn, hits, log, wpc, cur, left>>
  BY DEF QueueStopped, connVars, callVars, writeVars
<1>2. \A l \in Calls : /\ Pending(l)' \subseteq Pending(l)
                      /\ \A m \in Pending(l) \ Pending(l)' : m[2][1] = hand.c
  BY GiveBackCore
<1>3. SUFFICES ASSUME NEW k \in Calls, NEW d \in Conns, NEW e \in Nat
               PROVE  /\ Got(k, d, e)' <= Allowed(k, d, e)'
                      /\ ~Stopped(d)' => Got(k, d, e)' = Allowed(k, d, e)'
  BY DEF ServeInv
<1>4. UNCHANGED <<Sent(k, d, e), Wanted(k, d, e), Stopped(d), Doing(k, d, e)>>
  BY <1>1 DEF Sent, Wanted, Stopped, Doing, NextMsgs
<1>5. /\ Got(k, d, e) <= Allowed(k, d, e)
      /\ ~Stopped(d) => Got(k, d, e) = Allowed(k, d, e)
  BY DEF ServeInv
<1>6. CASE d = hand.c
  <2>1. Due(k, d, e)' \in SUBSET Due(k, d, e)
    BY <1>2 DEF Due
  <2>2. /\ IsFiniteSet(Due(k, d, e)) /\ Cardinality(Sent(k, d, e)) \in Nat
        /\ Cardinality(Due(k, d, e)) \in Nat /\ Cardinality(Wanted(k, d, e)) \in Nat
        /\ Doing(k, d, e) \in {0, 1}
    BY Countable
  <2>3. /\ Cardinality(Due(k, d, e)') <= Cardinality(Due(k, d, e))
        /\ Cardinality(Due(k, d, e)') \in Nat
    BY <2>1, <2>2, FS_Subset, FS_CardinalityType
  <2>4. QED
    BY <1>1, <1>4, <1>5, <1>6, <2>2, <2>3 DEF Got, Allowed
<1>7. CASE d # hand.c
  <2>1. UNCHANGED Due(k, d, e)
    BY <1>2, <1>7 DEF Due
  <2>2. QED
    BY <1>4, <1>5, <2>1 DEF Got, Allowed
<1>8. QED
  BY <1>6, <1>7

\* A new call owes what it selected.
LEMMA ServeBroadcast ==
  ASSUME TypeOK, CallInv, Core, LogOK, ServeInv,
         NEW p \in Callers, NEW b \in Batches, BroadcastBatch(p, b)
  PROVE  ServeInv'
<1>1. PICK K \in Calls : /\ phase[K] = "idle" /\ K = calls + 1 /\ Pending(K)' = Hits(b)
                         /\ \A l \in Calls : l # K => Pending(l)' = Pending(l)
  BY BroadcastCore
<1>2. /\ hits' = [hits EXCEPT ![K] = Hits(b)]
      /\ UNCHANGED <<conn, log, wpc, cur, left>>
  BY <1>1 DEF BroadcastBatch, connVars, writeVars
<1>3. hits'[K] = Hits(b) /\ \A l \in Calls : l # K => hits'[l] = hits[l]
  BY <1>2 DEF TypeOK
<1>4. SUFFICES ASSUME NEW k \in Calls, NEW d \in Conns, NEW e \in Nat
               PROVE  /\ Got(k, d, e)' <= Allowed(k, d, e)'
                      /\ ~Stopped(d)' => Got(k, d, e)' = Allowed(k, d, e)'
  BY DEF ServeInv
<1>5. UNCHANGED <<Sent(k, d, e), Stopped(d), Doing(k, d, e)>>
  BY <1>2 DEF Sent, Stopped, Doing, NextMsgs
<1>6. CASE k = K
  <2>1. Due(k, d, e)' = Wanted(k, d, e)'
    BY <1>1, <1>3, <1>6 DEF Due, Wanted
  <2>2. Sent(k, d, e) = {}
    <3>1. \A x \in DOMAIN log[d] : log[d][x][1] <= calls
      BY LenProperties DEF LogOK
    <3>2. ~ (K <= calls)
      BY <1>1 DEF TypeOK
    <3>3. QED
      BY <1>6, <3>1, <3>2 DEF Sent
  <2>3. Doing(k, d, e) = 0
    BY <1>1, <1>6 DEF Doing, Core, WriterInv
  <2>4. Cardinality(Sent(k, d, e)') = 0
    BY <1>5, <2>2, FS_EmptySet
  <2>5. IsFiniteSet(Wanted(k, d, e)')
    <3>1. IsFiniteSet(Hits(b))
      BY HitsType DEF TypeOK
    <3>2. Wanted(k, d, e)' \in SUBSET Hits(b)
      BY <1>3, <1>6 DEF Wanted
    <3>3. QED
      BY <3>1, <3>2, FS_Subset
  <2>6. Cardinality(Wanted(k, d, e)') \in Nat
    BY <2>5, FS_CardinalityType
  <2>7. QED
    BY <1>5, <2>1, <2>3, <2>4, <2>6 DEF Got, Allowed
<1>7. CASE k # K
  <2>1. UNCHANGED <<Due(k, d, e), Wanted(k, d, e)>>
    BY <1>1, <1>3, <1>7 DEF Due, Wanted
  <2>2. UNCHANGED <<Got(k, d, e), Allowed(k, d, e)>>
    BY <1>5, <2>1 DEF Got, Allowed
  <2>3. QED
    BY <1>5, <2>2 DEF ServeInv
<1>8. QED
  BY <1>6, <1>7

\* Every step keeps the count.
LEMMA ServeStep ==
  ASSUME TypeOK, CallInv, Core, LineInv, ServeInv, Next \/ UNCHANGED vars
  PROVE  ServeInv'
<1>1. LogOK /\ LogOK'
  BY LineStep DEF LineInv
<1>2. ASSUME NEW c \in Conns, ConnStep(c) \/ Leave(c)
      PROVE  ServeInv'
  <2>1. Kept /\ UNCHANGED <<hits, cur, left>>
    BY <1>2, ConnCore, ConnFrame DEF callVars
  <2>2. UNCHANGED log
    BY <1>2 DEF ConnStep, LockSet, SetClient, Leave, LockUnset, Stop, StopWait, CloseJobs, writeVars
  <2>3. \A d \in Conns : Stopped(d) => Stopped(d)'
    BY <1>2 DEF ConnStep, LockSet, SetClient, Leave, LockUnset, Stop, StopWait, CloseJobs, Stopped, TypeOK
  <2>4. \A d \in Conns : wpc[d] = "done" <=> wpc'[d] = "done"
    <3>1. CASE SetClient(c)
      <4>1. conn[c] = "set" /\ wpc' = [wpc EXCEPT ![c] = "idle"]
        BY <3>1 DEF SetClient
      <4>2. wpc[c] = "off"
        BY <4>1 DEF Core, WriterInv
      <4>3. QED
        BY <4>1, <4>2 DEF TypeOK
    <3>2. CASE ~SetClient(c)
      BY <1>2, <3>2 DEF ConnStep, LockSet, Leave, LockUnset, Stop, StopWait, CloseJobs, writeVars
    <3>3. QED
      BY <3>1, <3>2
  <2>5. QED
    BY <2>1, <2>2, <2>3, <2>4, ServeKept
<1>3. ASSUME Kept, UNCHANGED <<conn, hits, log, wpc, cur, left>>
      PROVE  ServeInv'
  BY <1>3, ServeKept DEF Stopped
<1>4. ASSUME NEW c \in Conns, WriterStep(c)
      PROVE  ServeInv'
  <2>1. Kept \/ WriterDone(c)
    BY <1>4, WriterCore
  <2>2. UNCHANGED <<conn, hits>>
    BY <1>4, WriterFrame DEF connVars, callVars
  <2>3. CASE WriterDone(c)
    BY <1>1, <2>3, ServeDone
  <2>4. CASE WriterSend(c) /\ Kept
    BY <1>1, <2>4, ServeSend
  <2>5. CASE (WriterTake(c) \/ WriterExit(c)) /\ Kept
    <3>1. /\ UNCHANGED log /\ wpc[c] = "idle"
          /\ wpc'[c] # "done"
          /\ \A d \in Conns : d # c => wpc'[d] = wpc[d] /\ cur'[d] = cur[d] /\ left'[d] = left[d]
      BY <2>5 DEF WriterTake, WriterExit, TypeOK
    <3>2. QED
      BY <2>2, <2>5, <3>1, ServeKept DEF Stopped
  <2>6. CASE WriterSend(c) /\ ~Kept
    BY <2>1, <2>6 DEF WriterSend, WriterDone
  <2>7. CASE (WriterTake(c) \/ WriterExit(c)) /\ ~Kept
    BY <2>1, <2>7 DEF WriterTake, WriterExit, WriterDone
  <2>8. QED
    BY <1>4, <2>3, <2>4, <2>5, <2>6, <2>7 DEF WriterStep
<1>5. ASSUME NEW p \in Callers, CallerStep(p)
      PROVE  ServeInv'
  <2>1. Kept
    BY <1>5, PushCore, ReturnCore DEF CallerStep
  <2>2. UNCHANGED <<conn, hits, log, wpc, cur, left>>
    BY <1>5 DEF CallerStep, Push, Return, connVars, callVars, writeVars
  <2>3. QED
    BY <1>3, <2>1, <2>2
<1>6. ASSUME NEW p \in Callers, NEW b \in Batches, BroadcastBatch(p, b)
      PROVE  ServeInv'
  BY <1>1, <1>6, ServeBroadcast
<1>7. ASSUME NEW k \in Calls, CloseMsgs(k)
      PROVE  ServeInv'
  <2>1. Kept
    BY <1>7, CloseCore
  <2>2. UNCHANGED <<conn, hits, log, wpc, cur, left>>
    BY <1>7 DEF CloseMsgs, connVars, callVars, writeVars
  <2>3. QED
    BY <1>3, <2>1, <2>2
<1>8. ASSUME DispatchStep
      PROVE  ServeInv'
  <2>1. Kept \/ QueueStopped
    BY <1>8, DispatchCore
  <2>2. UNCHANGED <<conn, hits, log, wpc, cur, left>>
    BY <1>8, DispatchFrame DEF connVars, callVars, writeVars
  <2>3. QED
    BY <1>1, <1>3, <2>1, <2>2, ServeStopped
<1>9. ASSUME UNCHANGED vars
      PROVE  ServeInv'
  <2>1. UNCHANGED <<conn, todo, outgoing, dpc, hand, qwg, jobs, left, cur, wg, phase, wpc, hits, log>>
    BY <1>9 DEF vars, connVars, callVars, pushVars, queueVars, writeVars
  <2>2. UNCHANGED <<InHand, Unpushed, Queued, Waiting>>
    BY <2>1 DEF InHand, Unpushed, Queued, Waiting
  <2>3. Kept
    BY <2>1, <2>2 DEF Kept, Pending, WaitingUses, WriterUses
  <2>4. QED
    BY <1>3, <2>1, <2>3
<1>10. QED
  BY <1>2, <1>4, <1>5, <1>6, <1>7, <1>8, <1>9 DEF Next, Terminating

\* At first nothing is selected.
LEMMA InitServe == Init => ServeInv
<1>1. HAVE Init
<1>2. SUFFICES ASSUME NEW k \in Calls, NEW c \in Conns, NEW e \in Nat
               PROVE  Got(k, c, e) = 0 /\ Allowed(k, c, e) = 0
  BY DEF ServeInv
<1>3. /\ hits[k] = {} /\ log[c] = <<>> /\ wpc[c] = "off"
      /\ todo = [l \in Calls |-> {}] /\ outgoing = <<>> /\ InHand = {}
      /\ \A d \in Conns : jobs[d] = <<>> /\ left[d] = {}
  BY <1>1 DEF Init, InHand
<1>4. Waiting = {}
  BY <1>3 DEF Waiting, Unpushed, Queued, Range
<1>5. Pending(k) = {}
  BY <1>3, <1>4, PendingMembers
<1>6. Sent(k, c, e) = {} /\ Due(k, c, e) = {} /\ Wanted(k, c, e) = {} /\ Doing(k, c, e) = 0
  BY <1>3, <1>5 DEF Sent, Due, Wanted, Doing
<1>7. QED
  BY <1>6, FS_EmptySet DEF Got, Allowed

\* The whole invariant.
OrderedInv == IInv /\ LineInv /\ ServeInv

LEMMA OrderedInvHolds == Spec => []OrderedInv
<1>1. Init => OrderedInv
  BY Inductive, InitLine, InitServe DEF OrderedInv
<1>2. OrderedInv /\ [Next]_vars => OrderedInv'
  <2>1. SUFFICES ASSUME OrderedInv, [Next]_vars PROVE OrderedInv'
    OBVIOUS
  <2>2. IInv'
    BY <2>1, Inductive DEF OrderedInv
  <2>3. TypeOK /\ CallInv /\ Core /\ LineInv /\ ServeInv
    BY <2>1 DEF OrderedInv, IInv, Core
  <2>4. QED
    BY <2>1, <2>2, <2>3, LineStep, ServeStep DEF OrderedInv
<1>3. QED
  BY <1>1, <1>2, PTL DEF Spec

\* A caller's messages reach a client in the order the caller sent them, by
\* whatever way the read lock, the merge of jobs, s.outgoing, the client's
\* queue and its writer are interleaved (BroadcastBatch, Init, Queue, Run).
THEOREM OrderKept == Spec => []CallerOrder
<1>1. OrderedInv => CallerOrder
  BY DEF OrderedInv, LineInv, EndInv
<1>2. QED
  BY <1>1, OrderedInvHolds, PTL

\* When a batch is closed, who is still connected was handed each message once
\* per registration its filter selected, in the caller's order, and nobody was
\* handed more (BroadcastBatch, Queue, Run and send).
THEOREM AllServedInOrder == Spec => []ServedInOrder
<1>1. OrderedInv => ServedOnce
  <2>1. SUFFICES ASSUME OrderedInv, NEW k \in Calls, phase[k] = "closed",
                        NEW c \in Conns, NEW e \in DOMAIN batch[k]
                 PROVE  /\ Cardinality(Sent(k, c, e)) <= Cardinality(Wanted(k, c, e))
                        /\ conn[c] = "run" =>
                             Cardinality(Sent(k, c, e)) = Cardinality(Wanted(k, c, e))
    BY DEF ServedOnce, Sent, Wanted
  <2>2. TypeOK /\ Core /\ LogOK /\ ServeInv
    BY <2>1 DEF OrderedInv, IInv, Core, LineInv
  <2>3. e \in Nat
    <3>1. CASE batch[k] = <<>>
      BY <2>1, <3>1
    <3>2. CASE batch[k] \in Batches
      <4>1. DOMAIN batch[k] = 1..Len(batch[k]) /\ Len(batch[k]) \in Nat
        BY <3>2, DeliveryAssumption DEF BatchAssumption
      <4>2. QED
        BY <2>1, <4>1
    <3>3. QED
      BY <2>2, <3>1, <3>2 DEF TypeOK
  <2>4. Pending(k) = {}
    BY <2>1, <2>2 DEF Core, CountInv
  <2>5. Due(k, c, e) = {}
    BY <2>4 DEF Due
  <2>6. Doing(k, c, e) = 0
    BY <2>1, <2>2 DEF Doing, Core, WriterInv
  <2>7. /\ Cardinality(Sent(k, c, e)) \in Nat /\ Cardinality(Wanted(k, c, e)) \in Nat
        /\ Cardinality(Due(k, c, e)) = 0
    BY <2>2, <2>5, Countable, FS_EmptySet
  <2>8. /\ Got(k, c, e) <= Allowed(k, c, e)
        /\ ~Stopped(c) => Got(k, c, e) = Allowed(k, c, e)
    BY <2>2, <2>3 DEF ServeInv
  <2>9. conn[c] = "run" => ~Stopped(c)
    BY DEF Stopped
  <2>10. QED
    BY <2>6, <2>7, <2>8, <2>9 DEF Got, Allowed
<1>2. OrderedInv => CallerOrder
  BY DEF OrderedInv, LineInv, EndInv
<1>3. OrderedInv => ServedInOrder
  BY <1>1, <1>2 DEF ServedInOrder
<1>4. QED
  BY <1>3, OrderedInvHolds, PTL
=============================================================================
