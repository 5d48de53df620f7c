-------------------------- MODULE RefinementProofs --------------------------
(***************************************************************************)
(* The service implements DurableQueue, step by step: seen through its log *)
(* alone, the system of goroutines, heaps, lock, file and crashes is one   *)
(* set of messages.  On the way: the message counter, rebuilt from the     *)
(* live set at every start, still gives every live message its own Seq.    *)
(***************************************************************************)
EXTENDS DurabilityProofs, HeapProofs

(* Some tombstone before chunk j names the id.                             *)
RemovedBefore(f, id, j) == \E k \in 1..(j - 1) : IsDeq(f, k) /\ f[k].rec.id = id

(* Two messages in the log have increasing Seqs unless the older one was   *)
(* removed before the younger one came: then the counter may have been     *)
(* rebuilt below it.                                                       *)
SeqOrder(f) ==
  \A i, j \in 1..Len(f) :
    i < j /\ IsEnq(f, i) /\ IsEnq(f, j) =>
      \/ MessageOf(f[i].rec).seq < MessageOf(f[j].rec).seq
      \/ RemovedBefore(f, f[i].rec.id, j)

SeqInv ==
  /\ SeqOrder(file)
  /\ up = "up" => \A m \in Live(file) : m.seq <= seq

(* A Dequeue that has written its tombstone holds a message of the log.    *)
HeldInv ==
  \A t \in Threads : pc[t] = "deqSync" =>
    \E i \in 1..Len(file) : IsEnq(file, i) /\ MessageOf(file[i].rec) = arg[t]

-----------------------------------------------------------------------------
(* What the two steps that extend the log do, in one place.                *)
LEMMA EnqueueAppendFacts ==
  ASSUME SafetyInv, NEW t \in Threads, EnqueueAppend(t)
  PROVE  \E m \in Messages :
           /\ Goto(t, "enqSync", m) /\ Gained(file, file', m) /\ Unseen(file, m.id)
           /\ m.seq = seq + 1 /\ m.enqueuedAt = now /\ m.availableAt >= now
           /\ file' \in Seq(Chunks) /\ Len(file') = Len(file) + 1
           /\ \A i \in 1..Len(file) : file'[i] = file[i]
           /\ seq' = seq + 1 /\ up = "up"
           /\ UNCHANGED <<now, mode, up, acked, deliveries>>
<1> USE DEF SafetyInv
<1>0. PICK m : m = NewMessage(arg[t])
  OBVIOUS
<1>1. /\ ControlOK /\ pc[t] = "enqueue"
      /\ Append1(EnqueueRecord(walSeq + 1, m)) /\ Goto(t, "enqSync", m)
      /\ seq' = seq + 1 /\ UNCHANGED <<now, mode, up, acked, deliveries>>
  BY <1>0 DEF TypeOK, EnqueueAppend, Enter, history
<1>2. now \in Nat /\ seq \in Nat /\ walSeq + 1 \in Nat /\ file \in Seq(Chunks) /\ WellFormed(file)
  BY FileType DEF TypeOK, DataOK, LogInv
<1>3. arg[t] \in [id : Ids, priority : Int, delay : 0..MaxDelaySeconds]
  BY <1>1 DEF ControlOK, ArgOK
<1>4. m \in Messages /\ m.seq = seq + 1 /\ m.id = arg[t].id
  BY <1>0, <1>2, <1>3, NewMessageType
<1>5. m.enqueuedAt = now /\ m.availableAt = AvailableAt(now, arg[t].delay)
  BY <1>0 DEF NewMessage
<1>6. m.availableAt >= now
  <2> DEFINE d == arg[t].delay
  <2>1. d \in 0..MaxDelaySeconds
    BY <1>3
  <2>2. m.availableAt = AvailableAt(now, d)
    BY <1>5
  <2> HIDE DEF d
  <2>3. AvailableAt(now, d) = now + d * Second /\ d * Second \in 0..(MaxDelaySeconds * Second)
    BY <2>1, NoWrap DEF AvailableAt
  <2> QED BY <1>2, <2>2, <2>3
<1>7. up = "up"
  BY <1>1, Running
<1>8. Unseen(file, m.id)
  BY <1>1, <1>4 DEF CallInv, Unseen
<1> DEFINE n == walSeq + 1 g == file'
<1>9. n \in Nat /\ m.seq # 0 /\ g = Append(file, Chunk(EnqueueRecord(n, m), "whole"))
  BY <1>1, <1>2, <1>4 DEF Append1
<1> HIDE DEF SafetyInv, n, g
<1>10. Gained(file, g, m)
  BY <1>2, <1>4, <1>8, <1>9, AppendEnqueue
<1>11. EnqueueRecord(n, m) \in Records
  BY <1>4, <1>9, RecordType
<1>12. g \in Seq(Chunks) /\ Len(g) = Len(file) + 1 /\ \A i \in 1..Len(file) : g[i] = file[i]
  BY <1>2, <1>9, <1>11, AppendFacts
<1> QED BY <1>1, <1>4, <1>5, <1>6, <1>7, <1>8, <1>10, <1>12 DEF g

LEMMA DequeueAppendFacts ==
  ASSUME SafetyInv, NEW t \in Threads, DequeueAppend(t)
  PROVE  \E m \in Live(file) :
           /\ m \in Best(mode, Visible(now)) /\ ready \cup delayed = Live(file)
           /\ Goto(t, "deqSync", m) /\ Lost(file, file', m.id)
           /\ Live(file') = Live(file) \ {m}
           /\ file' \in Seq(Chunks) /\ Len(file') = Len(file) + 1
           /\ \A i \in 1..Len(file) : file'[i] = file[i]
           /\ up = "up"
           /\ UNCHANGED <<now, mode, up, seq, acked, deliveries>>
<1> USE DEF SafetyInv
<1>1. /\ pc[t] = "dequeue" /\ NoWriter
      /\ UNCHANGED <<now, mode, up, seq, acked, deliveries>>
  BY DEF DequeueAppend, Enter, NoHolder
<1>2. PICK m \in Best(mode, Visible(now)) :
        Append1(DequeueRecord(walSeq + 1, m.id)) /\ Goto(t, "deqSync", m)
  BY DEF DequeueAppend
<1>3. up = "up" /\ InFlight = {}
  BY <1>1, Running, NoneInFlight
<1>4. ready \cup delayed = Live(file)
  BY <1>3 DEF MemoryInv, MemoryMatchesLog
<1>5. m \in Live(file)
  BY <1>4 DEF Best, Visible, Matured
<1>6. m.id \in Ids
  BY <1>5, LiveFacts DEF Messages
<1>7. walSeq + 1 \in Nat /\ file \in Seq(Chunks) /\ WellFormed(file)
  BY FileType DEF TypeOK, DataOK, LogInv
<1> DEFINE n == walSeq + 1 g == file' id == m.id
<1>8. n \in Nat /\ id \in Ids /\ g = Append(file, Chunk(DequeueRecord(n, id), "whole"))
  BY <1>2, <1>6, <1>7 DEF Append1
<1> HIDE DEF SafetyInv, n, g, id
<1>9. Lost(file, g, id)
  BY <1>7, <1>8, AppendDequeue
<1>10. DequeueRecord(n, id) \in Records
  BY <1>8, RecordType
<1>11. g \in Seq(Chunks) /\ Len(g) = Len(file) + 1 /\ \A i \in 1..Len(file) : g[i] = file[i]
  BY <1>7, <1>8, <1>10, AppendFacts
<1>12. Live(g) = Live(file) \ {m}
  <2>1. \A x \in Live(file) : x.id = m.id => x = m
    BY <1>5, <1>7, LiveUnique
  <2> QED BY <1>9, <2>1 DEF Lost, id
<1> QED BY <1>1, <1>2, <1>3, <1>4, <1>5, <1>9, <1>11, <1>12 DEF g, id

(* A power loss cuts the file at or after the durable part.                *)
LEMMA PowerLossFacts ==
  ASSUME CleanFaults, SafetyInv, PowerLoss
  PROVE  /\ Len(file') \in synced..Len(file)
         /\ file' \in Seq(Chunks) /\ WellFormed(file')
         /\ \A i \in 1..Len(file') : i \in 1..Len(file) /\ file'[i] = file[i]
         /\ \A i \in 1..synced : i \in 1..Len(file')
<1>1. PICK k \in synced..Len(file) : file' = SubSeq(file, 1, k)
  BY DEF PowerLoss, CleanFaults
<1>2. /\ file \in Seq(Chunks) /\ synced \in 0..Len(file) /\ Len(file) \in Nat
      /\ WellFormed(file) /\ k \in 0..Len(file)
  BY FileType DEF SafetyInv, LogInv
<1>3. /\ file' \in Seq(Chunks) /\ Len(file') = k /\ WellFormed(file')
      /\ \A i \in 1..k : file'[i] = file[i]
  BY <1>1, <1>2, SubSeqType, PrefixWellFormed
<1> QED BY <1>2, <1>3

-----------------------------------------------------------------------------
(* Seqs stay in order.                                                     *)
LEMMA SeqAfterEnqueue ==
  ASSUME SafetyInv, SeqInv, NEW t \in Threads, EnqueueAppend(t)
  PROVE  SeqInv'
<1>1. PICK m \in Messages :
        /\ Gained(file, file', m)
        /\ m.seq = seq + 1
        /\ file' \in Seq(Chunks) /\ Len(file') = Len(file) + 1
        /\ \A i \in 1..Len(file) : file'[i] = file[i]
        /\ seq' = seq + 1 /\ up = "up"
  BY EnqueueAppendFacts
<1>2. /\ file \in Seq(Chunks) /\ Len(file) \in Nat /\ WellFormed(file) /\ seq \in Nat
  BY FileType DEF SafetyInv, LogInv, TypeOK, DataOK
<1>3. \A x \in Live(file) : x.seq \in Nat /\ x.seq <= seq
  <2>1. Live(file) \subseteq Messages
    BY <1>2, LiveType
  <2> QED BY <1>1, <2>1 DEF SeqInv, Messages
<1>4. \A x \in Live(file') : x.seq <= seq'
  BY <1>1, <1>2, <1>3 DEF Gained
<1>5. ASSUME NEW i \in 1..Len(file'), NEW j \in 1..Len(file'), i < j,
             IsEnq(file', i), IsEnq(file', j)
      PROVE  \/ MessageOf(file'[i].rec).seq < MessageOf(file'[j].rec).seq
             \/ RemovedBefore(file', file'[i].rec.id, j)
  <2>1. i \in 1..Len(file) /\ file'[i] = file[i] /\ IsEnq(file, i)
    BY <1>1, <1>2, <1>5 DEF IsEnq
  <2>2. CASE j = Len(file')
    <3>1. MessageOf(file'[j].rec).seq = seq + 1
      BY <1>1, <2>2 DEF Gained
    <3>2. CASE Removed(file, file[i].rec.id)
      <4>1. PICK k \in 1..Len(file) : IsDeq(file, k) /\ file[k].rec.id = file[i].rec.id
        BY <3>2 DEF Removed
      <4>2. k \in 1..(j - 1) /\ file'[k] = file[k]
        BY <1>1, <1>2, <2>2
      <4> QED BY <2>1, <4>1, <4>2 DEF RemovedBefore, IsDeq
    <3>3. CASE ~Removed(file, file[i].rec.id)
      <4>1. MessageOf(file[i].rec) \in Live(file)
        BY <1>2, <2>1, <3>3, LiveWellFormed
      <4>2. MessageOf(file[i].rec).seq <= seq /\ MessageOf(file[i].rec).seq \in Nat
        BY <1>3, <4>1
      <4> QED BY <1>2, <2>1, <3>1, <4>2
    <3> QED BY <3>2, <3>3
  <2>3. CASE j \in 1..Len(file)
    <3>1. file'[j] = file[j] /\ IsEnq(file, j) /\ \A k \in 1..(j - 1) : file'[k] = file[k]
      BY <1>1, <1>2, <1>5, <2>3 DEF IsEnq
    <3> QED BY <1>5, <2>1, <2>3, <3>1 DEF SeqInv, SeqOrder, RemovedBefore, IsDeq
  <2> QED BY <1>1, <1>2, <2>2, <2>3
<1> QED BY <1>4, <1>5 DEF SeqInv, SeqOrder, IsEnq, RemovedBefore, IsDeq

LEMMA SeqAfterDequeue ==
  ASSUME SafetyInv, SeqInv, NEW t \in Threads, DequeueAppend(t)
  PROVE  SeqInv'
<1>1. PICK m \in Live(file) :
        /\ Lost(file, file', m.id) /\ Live(file') = Live(file) \ {m}
        /\ Len(file') = Len(file) + 1
        /\ \A i \in 1..Len(file) : file'[i] = file[i]
        /\ UNCHANGED <<up, seq>>
  BY DequeueAppendFacts
<1>2. Len(file) \in Nat
  BY FileType DEF SafetyInv
<1>3. up' = "up" => \A x \in Live(file') : x.seq <= seq'
  BY <1>1 DEF SeqInv
<1>4. ASSUME NEW i \in 1..Len(file'), NEW j \in 1..Len(file'), i < j,
             IsEnq(file', i), IsEnq(file', j)
      PROVE  \/ MessageOf(file'[i].rec).seq < MessageOf(file'[j].rec).seq
             \/ RemovedBefore(file', file'[i].rec.id, j)
  <2>1. j # Len(file')
    BY <1>1, <1>4 DEF Lost, IsDeq, IsEnq
  <2>2. i \in 1..Len(file) /\ j \in 1..Len(file) /\ \A k \in 1..(j - 1) : k \in 1..Len(file)
    BY <1>1, <1>2, <1>4, <2>1
  <2> QED BY <1>1, <1>4, <2>2 DEF SeqInv, SeqOrder, IsEnq, RemovedBefore, IsDeq
<1> QED BY <1>3, <1>4 DEF SeqInv, SeqOrder, IsEnq, RemovedBefore, IsDeq

LEMMA SeqAfterPowerLoss ==
  ASSUME CleanFaults, SafetyInv, SeqInv, PowerLoss
  PROVE  SeqInv'
<1>1. \A i \in 1..Len(file') : i \in 1..Len(file) /\ file'[i] = file[i]
  BY PowerLossFacts
<1>2. Len(file') \in Nat /\ Len(file) \in Nat
  BY PowerLossFacts, FileType DEF SafetyInv
<1>3. up' # "up"
  BY DEF PowerLoss, Vanish
<1>4. ASSUME NEW i \in 1..Len(file'), NEW j \in 1..Len(file'), i < j,
             IsEnq(file', i), IsEnq(file', j)
      PROVE  \/ MessageOf(file'[i].rec).seq < MessageOf(file'[j].rec).seq
             \/ RemovedBefore(file', file'[i].rec.id, j)
  <2>1. \A k \in 1..(j - 1) : k \in 1..Len(file')
    BY <1>2
  <2> QED BY <1>1, <1>4, <2>1 DEF SeqInv, SeqOrder, IsEnq, RemovedBefore, IsDeq
<1> QED BY <1>3, <1>4 DEF SeqInv, SeqOrder, IsEnq, RemovedBefore, IsDeq

(* The log stays, and so does the counter, or it is rebuilt.               *)
LEMMA SeqKept ==
  ASSUME SeqInv, file' = file,
         up' = "up" => Boot \/ (up = "up" /\ seq' = seq)
  PROVE  SeqInv'
<1>1. up' = "up" => \A m \in Live(file) : m.seq <= seq'
  BY DEF SeqInv, Boot, IsLast
<1> QED BY <1>1 DEF SeqInv, SeqOrder, IsEnq, RemovedBefore, IsDeq

-----------------------------------------------------------------------------
(* A step the abstract queue does not see.                                 *)
Still ==
  /\ UNCHANGED <<now, mode, file, acked, deliveries>>
  /\ up' = "up" => up = "up" /\ seq' = seq
  /\ \A t \in Threads : pc'[t] = "deqSync" => pc[t] = "deqSync" /\ arg'[t] = arg[t]

LEMMA MoveStill ==
  ASSUME ControlOK, NEW t \in Threads, NEW label, NEW value, Goto(t, label, value),
         label # "deqSync", UNCHANGED <<now, mode, up, seq, file, acked, deliveries>>
  PROVE  Still
  BY DEF ControlOK, Goto, Still

LEMMA WriteSteps ==
  ASSUME CleanFaults, ControlOK, NEW t \in Threads, Write(t)
  PROVE  EnqueueAppend(t) \/ EnqueueSync(t) \/ DequeueAppend(t) \/ DequeueSync(t) \/ Still
<1> USE DEF memory, log, history
<1>1. ASSUME NEW req \in Requests, NEW id \in Ids, EnqueueCall(t, req, id) PROVE Still
  BY <1>1, MoveStill DEF EnqueueCall
<1>2. CASE EnqueueAppendFails(t)
  BY <1>2, CleanFailure, MoveStill DEF EnqueueAppendFails, Return
<1>3. CASE EnqueueSyncFails(t) \/ DequeueSyncFails(t)
  BY <1>3 DEF EnqueueSyncFails, DequeueSyncFails, CleanFaults
<1>4. CASE DequeueCall(t) \/ RefuseClosed(t)
  BY <1>4, MoveStill DEF DequeueCall, RefuseClosed, Return
<1>5. CASE DequeueEmpty(t)
  BY <1>5, MoveStill DEF DequeueEmpty, Return
<1>6. CASE DequeueAppendFails(t)
  <2>1. PICK m : FailedAppend(DequeueRecord(walSeq + 1, m.id))
    BY <1>6 DEF DequeueAppendFails
  <2>2. file' = file
    BY <2>1, CleanFailure
  <2> QED BY <1>6, <2>2, MoveStill DEF DequeueAppendFails, Return
<1> QED BY <1>1, <1>2, <1>3, <1>4, <1>5, <1>6 DEF Write

LEMMA ReadSteps ==
  ASSUME ControlOK, NEW t \in Threads, Read(t)
  PROVE  Still
<1> USE DEF memory, log, history
<1>1. CASE StatsCall(t) \/ SnapshotCall(t)
  BY <1>1, MoveStill DEF StatsCall, SnapshotCall
<1>2. CASE StatsLen(t)
  BY <1>2, MoveStill DEF StatsLen
<1>3. CASE StatsAvailableLen(t) \/ SnapshotTake(t)
  BY <1>3, MoveStill DEF StatsAvailableLen, SnapshotTake, Return
<1> QED BY <1>1, <1>2, <1>3 DEF Read

(* The steps that matter to a user of the queue.                           *)
LEMMA CleanSteps ==
  ASSUME CleanFaults, ControlOK, [Next]_vars
  PROVE  \/ \E t \in Threads :
              EnqueueAppend(t) \/ EnqueueSync(t) \/ DequeueAppend(t) \/ DequeueSync(t)
         \/ PowerLoss \/ Boot \/ Clock \/ Still
<1> USE DEF memory, log, history
<1>1. ASSUME NEW t \in Writers, Write(t)
      PROVE  \/ \E u \in Threads :
                  EnqueueAppend(u) \/ EnqueueSync(u) \/ DequeueAppend(u) \/ DequeueSync(u)
             \/ Still
  <2>1. t \in Threads
    BY DEF Threads
  <2> QED BY <1>1, <2>1, WriteSteps
<1>2. ASSUME NEW t \in Readers, Read(t) PROVE Still
  BY <1>2, ReadSteps DEF Threads
<1>3. CASE Close \/ UNCHANGED vars
  BY <1>3 DEF Close, vars, Still
<1>4. CASE Kill
  BY <1>4 DEF Kill, Vanish, Still
<1>5. CASE BootFails
  BY <1>5 DEF BootFails, Still
<1> QED BY <1>1, <1>2, <1>3, <1>4, <1>5 DEF Next

LEMMA SeqStep ==
  ASSUME CleanFaults, SafetyInv, SeqInv, [Next]_vars
  PROVE  SeqInv'
<1>0. ControlOK
  BY DEF SafetyInv, TypeOK
<1>1. ASSUME NEW t \in Threads, EnqueueAppend(t) \/ DequeueAppend(t) PROVE SeqInv'
  BY <1>1, SeqAfterEnqueue, SeqAfterDequeue
<1>2. ASSUME NEW t \in Threads, EnqueueSync(t) \/ DequeueSync(t) PROVE SeqInv'
  <2>1. UNCHANGED <<file, up, seq>>
    BY <1>2 DEF EnqueueSync, DequeueSync, memory
  <2> QED BY <2>1, SeqKept
<1>3. CASE PowerLoss
  BY <1>3, SeqAfterPowerLoss
<1>4. CASE Boot
  BY <1>4, SeqKept DEF Boot, log
<1>5. CASE Clock
  BY <1>5, SeqKept DEF Clock, memory, log
<1>6. CASE Still
  BY <1>6, SeqKept DEF Still
<1> QED BY <1>0, <1>1, <1>2, <1>3, <1>4, <1>5, <1>6, CleanSteps

LEMMA SeqImplies ==
  ASSUME SafetyInv, SeqInv
  PROVE  LiveSeqUnique
<1>0. file \in Seq(Chunks) /\ WellFormed(file) /\ Len(file) \in Nat
  BY FileType DEF SafetyInv, LogInv
<1>1. ASSUME NEW a \in Live(file), NEW b \in Live(file), a.seq = b.seq PROVE a = b
  <2>1. PICK i \in 1..Len(file) :
          IsEnq(file, i) /\ ~Removed(file, file[i].rec.id) /\ a = MessageOf(file[i].rec)
    BY <1>0, LiveWellFormed
  <2>2. PICK j \in 1..Len(file) :
          IsEnq(file, j) /\ ~Removed(file, file[j].rec.id) /\ b = MessageOf(file[j].rec)
    BY <1>0, LiveWellFormed
  <2>3. \A k \in 1..Len(file) : \A id : RemovedBefore(file, id, k) => Removed(file, id)
    BY <1>0 DEF RemovedBefore, Removed
  <2>4. a.seq \in Nat /\ b.seq \in Nat
    BY <1>0, LiveType DEF Messages
  <2>5. ~(i < j) /\ ~(j < i)
    BY <1>1, <2>1, <2>2, <2>3, <2>4 DEF SeqInv, SeqOrder
  <2>6. i = j
    BY <2>5
  <2> QED BY <2>1, <2>2, <2>6
<1> QED BY <1>1 DEF LiveSeqUnique, SeqInv

LEMMA SeqInvariant == CleanFaults => (Spec => [](SafetyInv /\ SeqInv))
<1> SUFFICES ASSUME CleanFaults PROVE Spec => [](SafetyInv /\ SeqInv)
  OBVIOUS
<1>1. Init => SafetyInv /\ SeqInv
  <2>1. Init => Len(file) = 0 /\ up = "down"
    BY DEF Init
  <2> QED BY <2>1, SafetyInit DEF SeqInv, SeqOrder
<1>2. SafetyInv /\ SeqInv /\ [Next]_vars => (SafetyInv /\ SeqInv)'
  BY SafetyStep, SeqStep
<1> QED BY <1>1, <1>2, PTL DEF Spec

(* Seq orders the live messages strictly and the counter is never behind   *)
(* them, although a start rebuilds it from the live messages alone and so  *)
(* reuses the numbers of removed ones.                                     *)
THEOREM LiveSeqUniqueTheorem == CleanFaults => (Spec => []LiveSeqUnique)
<1>1. SafetyInv /\ SeqInv => LiveSeqUnique
  BY SeqImplies
<1> QED BY <1>1, SeqInvariant, PTL

-----------------------------------------------------------------------------
LEMMA HeldStep ==
  ASSUME CleanFaults, SafetyInv, HeldInv, [Next]_vars
  PROVE  HeldInv'
<1>0. ControlOK /\ file \in Seq(Chunks) /\ WellFormed(file) /\ Len(file) \in Nat
  BY FileType DEF SafetyInv, TypeOK, LogInv
<1>1. ASSUME file' = file,
             \A t \in Threads : pc'[t] = "deqSync" => pc[t] = "deqSync" /\ arg'[t] = arg[t]
      PROVE  HeldInv'
  BY <1>1 DEF HeldInv, IsEnq
<1>2. ASSUME NEW t \in Threads, EnqueueAppend(t) PROVE HeldInv'
  <2>1. NoWriter
    BY <1>2 DEF EnqueueAppend, Enter, NoHolder
  <2>2. \A u \in Threads : pc'[u] # "deqSync"
    BY <1>0, <1>2, <2>1 DEF EnqueueAppend, Goto, ControlOK, NoWriter, Writing
  <2> QED BY <2>2 DEF HeldInv
<1>3. ASSUME NEW t \in Threads, DequeueAppend(t) PROVE HeldInv'
  <2>1. PICK m \in Live(file) :
          /\ Goto(t, "deqSync", m)
          /\ Len(file') = Len(file) + 1
          /\ \A i \in 1..Len(file) : file'[i] = file[i]
    BY <1>3, DequeueAppendFacts
  <2>2. PICK i \in 1..Len(file) : IsEnq(file, i) /\ MessageOf(file[i].rec) = m
    BY <1>0, LiveWellFormed
  <2>3. i \in 1..Len(file') /\ IsEnq(file', i) /\ MessageOf(file'[i].rec) = m
    BY <1>0, <2>1, <2>2 DEF IsEnq
  <2>4. NoWriter
    BY <1>3 DEF DequeueAppend, Enter, NoHolder
  <2>5. \A u \in Threads : pc'[u] = "deqSync" => arg'[u] = m
    BY <1>0, <2>1, <2>4 DEF Goto, ControlOK, NoWriter, Writing
  <2> QED BY <2>3, <2>5 DEF HeldInv, IsEnq
<1>4. ASSUME NEW t \in Threads, EnqueueSync(t) \/ DequeueSync(t) PROVE HeldInv'
  BY <1>0, <1>1, <1>4 DEF EnqueueSync, DequeueSync, Return, Goto, ControlOK
<1>5. CASE PowerLoss
  BY <1>5 DEF PowerLoss, Vanish, HeldInv
<1>6. CASE Boot \/ Clock \/ Still
  BY <1>1, <1>6 DEF Boot, Clock, Still, memory, log
<1> QED BY <1>0, <1>2, <1>3, <1>4, <1>5, <1>6, CleanSteps

-----------------------------------------------------------------------------
(* Taken, with the log and the deliveries as parameters.                   *)
TakenIn(f, d) ==
  {MessageOf(f[i].rec) : i \in
     {j \in 1..Len(f) :
        /\ Enqueues(f, j, f[j].rec.id)
        /\ \E k \in 1..Len(f) : Dequeues(f, k, f[j].rec.id)
        /\ d[f[j].rec.id] = 0}}

(* In a well-formed log the messages taken are the enqueued ones that have *)
(* a tombstone and were not delivered.                                     *)
LEMMA TakenWellFormed ==
  ASSUME NEW f \in Seq(Chunks), WellFormed(f), NEW d
  PROVE  \A m : m \in TakenIn(f, d) <=>
                  \E i \in 1..Len(f) : /\ IsEnq(f, i)
                                       /\ Removed(f, f[i].rec.id)
                                       /\ d[f[i].rec.id] = 0
                                       /\ m = MessageOf(f[i].rec)
<1>1. ASSUME NEW i \in 1..Len(f)
      PROVE  /\ Enqueues(f, i, f[i].rec.id) <=> IsEnq(f, i)
             /\ (\E k \in 1..Len(f) : Dequeues(f, k, f[i].rec.id)) <=> Removed(f, f[i].rec.id)
  BY AllSound DEF Enqueues, Dequeues, IsEnq, IsDeq, Removed
<1> QED BY <1>1 DEF TakenIn

LEMMA TakenNow ==
  Taken = TakenIn(file, deliveries) /\ Taken' = TakenIn(file', deliveries')
  BY DEF Taken, TakenIn

(* No message is both live and taken.                                      *)
LEMMA LiveNotTaken ==
  ASSUME NEW f \in Seq(Chunks), WellFormed(f), NEW d
  PROVE  Live(f) \cap TakenIn(f, d) = {}
<1> SUFFICES ASSUME NEW m \in Live(f), m \in TakenIn(f, d) PROVE FALSE
  OBVIOUS
<1>1. PICK i \in 1..Len(f) :
        IsEnq(f, i) /\ ~Removed(f, f[i].rec.id) /\ m = MessageOf(f[i].rec)
  BY LiveWellFormed
<1>2. PICK j \in 1..Len(f) :
        IsEnq(f, j) /\ Removed(f, f[j].rec.id) /\ m = MessageOf(f[j].rec)
  BY TakenWellFormed
<1> QED BY <1>1, <1>2, ChunkType

(* The record of the new message removes nobody, so nobody is taken.       *)
LEMMA TakenAfterEnqueue ==
  ASSUME NEW f \in Seq(Chunks), WellFormed(f), NEW g \in Seq(Chunks), NEW m, NEW d,
         Gained(f, g, m), Unseen(f, m.id), Len(g) = Len(f) + 1,
         \A i \in 1..Len(f) : g[i] = f[i]
  PROVE  TakenIn(g, d) = TakenIn(f, d)
<1>1. /\ \A i \in 1..Len(f) : (IsEnq(g, i) <=> IsEnq(f, i)) /\ (IsDeq(g, i) <=> IsDeq(f, i))
      /\ IsEnq(g, Len(g)) /\ ~IsDeq(g, Len(g)) /\ g[Len(g)].rec.id = m.id /\ WellFormed(g)
  BY DEF Gained, IsEnq, IsDeq
<1>2. \A i \in 1..Len(g) : i \in 1..Len(f) \/ i = Len(g)
  OBVIOUS
<1>3. \A i \in 1..Len(f) : i \in 1..Len(g)
  OBVIOUS
<1>4. \A id : Removed(g, id) <=> Removed(f, id)
  BY <1>1, <1>2, <1>3 DEF Removed
<1>5. ~Removed(f, m.id)
  BY DEF Removed, Unseen
<1>6. ASSUME NEW x PROVE x \in TakenIn(g, d) <=> x \in TakenIn(f, d)
  <2>1. x \in TakenIn(g, d) <=>
          \E i \in 1..Len(g) : /\ IsEnq(g, i) /\ Removed(g, g[i].rec.id)
                               /\ d[g[i].rec.id] = 0 /\ x = MessageOf(g[i].rec)
    BY <1>1, TakenWellFormed
  <2>2. x \in TakenIn(f, d) <=>
          \E i \in 1..Len(f) : /\ IsEnq(f, i) /\ Removed(f, f[i].rec.id)
                               /\ d[f[i].rec.id] = 0 /\ x = MessageOf(f[i].rec)
    BY TakenWellFormed
  <2>3. ASSUME x \in TakenIn(g, d) PROVE x \in TakenIn(f, d)
    BY <1>1, <1>2, <1>4, <1>5, <2>1, <2>2, <2>3
  <2>4. ASSUME x \in TakenIn(f, d) PROVE x \in TakenIn(g, d)
    BY <1>1, <1>3, <1>4, <2>1, <2>2, <2>4
  <2> QED BY <2>3, <2>4
<1> QED BY <1>6

(* The tombstone of a live, undelivered message takes it.                  *)
LEMMA TakenAfterDequeue ==
  ASSUME NEW f \in Seq(Chunks), WellFormed(f), NEW g \in Seq(Chunks),
         NEW m \in Live(f), NEW d, d[m.id] = 0,
         Lost(f, g, m.id), Len(g) = Len(f) + 1, \A i \in 1..Len(f) : g[i] = f[i]
  PROVE  TakenIn(g, d) = TakenIn(f, d) \cup {m}
<1>1. /\ \A i \in 1..Len(f) : (IsEnq(g, i) <=> IsEnq(f, i)) /\ (IsDeq(g, i) <=> IsDeq(f, i))
      /\ ~IsEnq(g, Len(g)) /\ IsDeq(g, Len(g)) /\ g[Len(g)].rec.id = m.id /\ WellFormed(g)
  BY DEF Lost, IsEnq, IsDeq
<1>2. \A i \in 1..Len(g) : i \in 1..Len(f) \/ i = Len(g)
  OBVIOUS
<1>3. Len(g) \in 1..Len(g) /\ \A i \in 1..Len(f) : i \in 1..Len(g)
  OBVIOUS
<1>4. \A id : Removed(g, id) <=> Removed(f, id) \/ id = m.id
  <2> SUFFICES ASSUME NEW id PROVE Removed(g, id) <=> Removed(f, id) \/ id = m.id
    OBVIOUS
  <2>1. Removed(g, id) => Removed(f, id) \/ id = m.id
    BY <1>1, <1>2 DEF Removed
  <2>2. Removed(f, id) => Removed(g, id)
    BY <1>1, <1>3 DEF Removed
  <2>3. Removed(g, m.id)
    BY <1>1, <1>3 DEF Removed
  <2> QED BY <2>1, <2>2, <2>3
<1>5. PICK e \in 1..Len(f) : IsEnq(f, e) /\ m = MessageOf(f[e].rec)
  BY LiveWellFormed
<1>6. f[e].rec.id = m.id
  BY <1>5, ChunkType
<1>7. ASSUME NEW i \in 1..Len(f), IsEnq(f, i), f[i].rec.id = m.id PROVE i = e
  BY <1>5, <1>6, <1>7 DEF WellFormed
<1>8. ASSUME NEW x PROVE x \in TakenIn(g, d) <=> x \in TakenIn(f, d) \/ x = m
  <2>1. x \in TakenIn(g, d) <=>
          \E i \in 1..Len(g) : /\ IsEnq(g, i) /\ Removed(g, g[i].rec.id)
                               /\ d[g[i].rec.id] = 0 /\ x = MessageOf(g[i].rec)
    BY <1>1, TakenWellFormed
  <2>2. x \in TakenIn(f, d) <=>
          \E i \in 1..Len(f) : /\ IsEnq(f, i) /\ Removed(f, f[i].rec.id)
                               /\ d[f[i].rec.id] = 0 /\ x = MessageOf(f[i].rec)
    BY TakenWellFormed
  <2>3. ASSUME x \in TakenIn(g, d) PROVE x \in TakenIn(f, d) \/ x = m
    <3>1. PICK i \in 1..Len(g) : /\ IsEnq(g, i) /\ Removed(g, g[i].rec.id)
                                 /\ d[g[i].rec.id] = 0 /\ x = MessageOf(g[i].rec)
      BY <2>1, <2>3
    <3>2. i \in 1..Len(f) /\ g[i] = f[i] /\ IsEnq(f, i)
      BY <1>1, <1>2, <3>1
    <3>3. CASE f[i].rec.id = m.id
      BY <1>5, <1>7, <3>1, <3>2, <3>3
    <3>4. CASE f[i].rec.id # m.id
      BY <1>4, <2>2, <3>1, <3>2, <3>4
    <3> QED BY <3>3, <3>4
  <2>4. ASSUME x \in TakenIn(f, d) PROVE x \in TakenIn(g, d)
    BY <1>1, <1>3, <1>4, <2>1, <2>2, <2>4
  <2>5. ASSUME x = m PROVE x \in TakenIn(g, d)
    BY <1>1, <1>3, <1>4, <1>5, <1>6, <2>1, <2>5
  <2> QED BY <2>3, <2>4, <2>5
<1> QED BY <1>8

(* Handing a taken message over takes it off the list.                     *)
LEMMA TakenAfterHandOver ==
  ASSUME NEW f \in Seq(Chunks), WellFormed(f), NEW d, NEW e,
         NEW m \in TakenIn(f, d), e[m.id] # 0,
         \A id \in Ids : id # m.id => e[id] = d[id]
  PROVE  \A x : x \in TakenIn(f, e) <=> x \in TakenIn(f, d) /\ x # m
<1>1. PICK k \in 1..Len(f) : /\ IsEnq(f, k) /\ Removed(f, f[k].rec.id)
                             /\ d[f[k].rec.id] = 0 /\ m = MessageOf(f[k].rec)
  BY TakenWellFormed
<1>2. f[k].rec.id = m.id
  BY <1>1, ChunkType
<1>3. ASSUME NEW x PROVE x \in TakenIn(f, e) <=> x \in TakenIn(f, d) /\ x # m
  <2>1. x \in TakenIn(f, e) <=>
          \E i \in 1..Len(f) : /\ IsEnq(f, i) /\ Removed(f, f[i].rec.id)
                               /\ e[f[i].rec.id] = 0 /\ x = MessageOf(f[i].rec)
    BY TakenWellFormed
  <2>2. x \in TakenIn(f, d) <=>
          \E i \in 1..Len(f) : /\ IsEnq(f, i) /\ Removed(f, f[i].rec.id)
                               /\ d[f[i].rec.id] = 0 /\ x = MessageOf(f[i].rec)
    BY TakenWellFormed
  <2>3. ASSUME x \in TakenIn(f, e) PROVE x \in TakenIn(f, d) /\ x # m
    <3>1. PICK i \in 1..Len(f) : /\ IsEnq(f, i) /\ Removed(f, f[i].rec.id)
                                 /\ e[f[i].rec.id] = 0 /\ x = MessageOf(f[i].rec)
      BY <2>1, <2>3
    <3>2. f[i].rec.id # m.id /\ x.id = f[i].rec.id /\ f[i].rec.id \in Ids
      BY <3>1, ChunkType
    <3> QED BY <2>2, <3>1, <3>2
  <2>4. ASSUME x \in TakenIn(f, d), x # m PROVE x \in TakenIn(f, e)
    <3>1. PICK i \in 1..Len(f) : /\ IsEnq(f, i) /\ Removed(f, f[i].rec.id)
                                 /\ d[f[i].rec.id] = 0 /\ x = MessageOf(f[i].rec)
      BY <2>2, <2>4
    <3>2. f[i].rec.id # m.id /\ f[i].rec.id \in Ids
      BY <1>1, <1>2, <2>4, <3>1, ChunkType DEF WellFormed
    <3> QED BY <2>1, <3>1, <3>2
  <2> QED BY <2>3, <2>4
<1> QED BY <1>3

-----------------------------------------------------------------------------
(* Each step of the service is a step of the abstract queue or none.       *)

RefInv == SafetyInv /\ SeqInv /\ HeldInv /\ DueInv

LEMMA StillStep ==
  ASSUME UNCHANGED <<now, mode, file, acked, deliveries>>
  PROVE  UNCHANGED Promise!vars
  BY DEF Promise!vars, Taken

(* Writing the ENQUEUE record inserts the message.                         *)
LEMMA InsertStep ==
  ASSUME RefInv, NEW t \in Threads, EnqueueAppend(t)
  PROVE  \E m \in Live(file') : Promise!Insert(m)
<1> USE DEF RefInv
<1>1. PICK m \in Messages :
        /\ Gained(file, file', m) /\ Unseen(file, m.id)
        /\ m.seq = seq + 1 /\ m.enqueuedAt = now /\ m.availableAt >= now
        /\ file' \in Seq(Chunks) /\ Len(file') = Len(file) + 1
        /\ \A i \in 1..Len(file) : file'[i] = file[i]
        /\ up = "up"
        /\ UNCHANGED <<now, mode, acked, deliveries>>
  BY EnqueueAppendFacts
<1>2. /\ file \in Seq(Chunks) /\ WellFormed(file) /\ Len(file) \in Nat
      /\ synced \in 0..Len(file) /\ seq \in Nat /\ m.id \in Ids
  BY FileType DEF SafetyInv, TypeOK, DataOK, LogInv, Messages
<1>3. Live(file') = Live(file) \cup {m}
  BY <1>1 DEF Gained
<1>4. Taken' = Taken
  <2> DEFINE g == file' d == deliveries
  <2>1. /\ Gained(file, g, m) /\ g \in Seq(Chunks) /\ Len(g) = Len(file) + 1
        /\ \A i \in 1..Len(file) : g[i] = file[i]
    BY <1>1
  <2> HIDE DEF g, d
  <2>2. TakenIn(g, d) = TakenIn(file, d)
    BY <1>1, <1>2, <2>1, TakenAfterEnqueue
  <2> QED BY <1>1, <2>2, TakenNow DEF g, d
<1>5. \A x \in Live(file) : x.id # m.id /\ x.seq < m.seq
  <2> SUFFICES ASSUME NEW x \in Live(file) PROVE x.id # m.id /\ x.seq < m.seq
    OBVIOUS
  <2>1. x.id # m.id
    BY <1>1, LiveFacts DEF Unseen
  <2>2. x.seq \in Nat /\ x.seq <= seq
    BY <1>1, <1>2, LiveType DEF SeqInv, Messages
  <2> QED BY <1>1, <1>2, <2>1, <2>2
<1>6. \A x \in Taken : x.id # m.id
  <2> SUFFICES ASSUME NEW x \in Taken PROVE x.id # m.id
    OBVIOUS
  <2>1. PICK i \in 1..Len(file) : IsEnq(file, i) /\ x = MessageOf(file[i].rec)
    BY <1>2, TakenNow, TakenWellFormed
  <2> QED BY <1>1, <1>2, <2>1, ChunkType DEF Unseen
<1>7. \A x \in acked : x.id # m.id
  <2> SUFFICES ASSUME NEW x \in acked PROVE x.id # m.id
    OBVIOUS
  <2>1. PICK i \in 1..synced : IsEnq(file, i) /\ MessageOf(file[i].rec) = x
    BY DEF SafetyInv, LogInv
  <2>2. i \in 1..Len(file)
    BY <1>2
  <2> QED BY <1>1, <1>2, <2>1, <2>2, ChunkType DEF Unseen
<1>8. deliveries[m.id] = 0
  <2>1. \A i \in 1..synced : i \in 1..Len(file)
    BY <1>2
  <2> QED BY <1>1, <1>2, <2>1 DEF SafetyInv, LogInv, Unseen
<1>9. Promise!Unused(m.id)
  BY <1>5, <1>6, <1>7, <1>8 DEF Promise!Unused
<1>10. Promise!Insert(m)
  BY <1>1, <1>3, <1>4, <1>5, <1>9 DEF Promise!Insert
<1> QED BY <1>3, <1>10

(* The return of Enqueue accepts it.                                       *)
LEMMA AcceptStep ==
  ASSUME RefInv, NEW t \in Threads, EnqueueSync(t)
  PROVE  \E m \in Live(file) : Promise!Accept(m)
<1>1. /\ pc[t] = "enqSync" /\ acked' = acked \cup {arg[t]}
      /\ UNCHANGED <<now, mode, file, deliveries>>
  BY DEF EnqueueSync
<1>2. arg[t] \in Live(file)
  BY <1>1 DEF RefInv, SafetyInv, CallInv
<1>3. Taken' = Taken /\ Live(file)' = Live(file)
  BY <1>1 DEF Taken
<1>4. Promise!Accept(arg[t])
  BY <1>1, <1>2, <1>3 DEF Promise!Accept
<1> QED BY <1>2, <1>4

(* What Dequeue sees is all that is live and due.                          *)
LEMMA VisibleIsMatured ==
  ASSUME TypeOK, DueInv
  PROVE  Visible(now) = Matured(ready \cup delayed, now)
<1>1. \A m \in ready : Available(m, now)
  BY AvailableMeans DEF TypeOK, DataOK, DueInv
<1> QED BY <1>1 DEF Visible, Matured

(* Writing the tombstone takes the winner among all live messages due.     *)
LEMMA TakeStep ==
  ASSUME RefInv, NEW t \in Threads, DequeueAppend(t)
  PROVE  \E m \in Live(file) : Promise!Take(m)
<1> USE DEF RefInv
<1>1. PICK m \in Live(file) :
        /\ m \in Best(mode, Visible(now)) /\ ready \cup delayed = Live(file)
        /\ Lost(file, file', m.id) /\ Live(file') = Live(file) \ {m}
        /\ file' \in Seq(Chunks) /\ Len(file') = Len(file) + 1
        /\ \A i \in 1..Len(file) : file'[i] = file[i]
        /\ UNCHANGED <<now, mode, acked, deliveries>>
  BY DequeueAppendFacts
<1>2. file \in Seq(Chunks) /\ WellFormed(file) /\ deliveries[m.id] = 0
  BY FileType, LiveFacts DEF SafetyInv, LogInv
<1>3. m \in Best(mode, Matured(Live(file), now))
  BY <1>1, VisibleIsMatured DEF SafetyInv
<1>4. Taken' = Taken \cup {m}
  <2> DEFINE g == file' d == deliveries
  <2>1. /\ Lost(file, g, m.id) /\ g \in Seq(Chunks) /\ Len(g) = Len(file) + 1
        /\ d[m.id] = 0 /\ \A i \in 1..Len(file) : g[i] = file[i]
    BY <1>1, <1>2
  <2> HIDE DEF g, d
  <2>2. TakenIn(g, d) = TakenIn(file, d) \cup {m}
    BY <1>2, <2>1, TakenAfterDequeue
  <2> QED BY <1>1, <2>2, TakenNow DEF g, d
<1>5. m \in Promise!Best(mode, Promise!Due)
  <2>1. Live(file) \subseteq Messages /\ now \in Nat
    BY <1>1 DEF SafetyInv, TypeOK, DataOK
  <2>2. Matured(Live(file), now) = Promise!Due
    BY <2>1, AvailableMeans DEF Matured, Promise!Due
  <2> QED BY <1>3, <2>2 DEF Best, Outranks, Promise!Best, Promise!Outranks
<1>6. Promise!Take(m)
  BY <1>1, <1>4, <1>5 DEF Promise!Take
<1> QED BY <1>6

(* The return of Dequeue hands it over.                                    *)
LEMMA HandOverStep ==
  ASSUME RefInv, NEW t \in Threads, DequeueSync(t)
  PROVE  \E m \in Taken : Promise!HandOver(m)
<1> USE DEF RefInv
<1>0. PICK m : m = arg[t]
  OBVIOUS
<1>1. /\ pc[t] = "deqSync" /\ deliveries' = [deliveries EXCEPT ![m.id] = @ + 1]
      /\ UNCHANGED <<now, mode, file, acked>>
  BY <1>0 DEF DequeueSync
<1>2. /\ Len(file) > 0 /\ IsDeq(file, Len(file))
      /\ file[Len(file)].rec.id = m.id /\ deliveries[m.id] = 0
      /\ \E i \in 1..Len(file) : IsEnq(file, i) /\ MessageOf(file[i].rec) = m
  BY <1>0, <1>1 DEF SafetyInv, CallInv, HeldInv
<1>3. /\ file \in Seq(Chunks) /\ WellFormed(file) /\ Len(file) \in Nat
      /\ deliveries \in [Ids -> Nat]
  BY FileType DEF SafetyInv, LogInv, TypeOK, DataOK
<1>4. m.id \in Ids
  BY <1>2, <1>3, ChunkType
<1>5. Removed(file, m.id)
  <2>1. Len(file) \in 1..Len(file)
    BY <1>2, <1>3
  <2> QED BY <1>2, <2>1 DEF Removed
<1>6. m \in TakenIn(file, deliveries)
  <2>1. PICK i \in 1..Len(file) : IsEnq(file, i) /\ MessageOf(file[i].rec) = m
    BY <1>2
  <2>2. file[i].rec.id = m.id
    BY <1>3, <2>1, ChunkType
  <2> QED BY <1>2, <1>3, <1>5, <2>1, <2>2, TakenWellFormed
<1>7. Taken' = Taken \ {m}
  <2> DEFINE d == deliveries e == deliveries'
  <2>1. e[m.id] # 0
    BY <1>1, <1>2, <1>3, <1>4
  <2>2. \A id \in Ids : id # m.id => e[id] = d[id]
    BY <1>1, <1>3
  <2>3. m \in TakenIn(file, d)
    BY <1>6
  <2> HIDE DEF d, e, RefInv
  <2>4. \A x : x \in TakenIn(file, e) <=> x \in TakenIn(file, d) /\ x # m
    BY <1>3, <2>1, <2>2, <2>3, TakenAfterHandOver
  <2> QED BY <1>1, <2>4, TakenNow DEF d, e
<1>8. Live(file)' = Live(file)
  BY <1>1
<1>9. m \in Taken /\ Promise!HandOver(m)
  BY <1>1, <1>6, <1>7, <1>8, TakenNow DEF Promise!HandOver
<1> QED BY <1>9

(* A power loss loses at most what was not accepted and gives back at most *)
(* what was not handed over.                                               *)
LEMMA CrashStep ==
  ASSUME CleanFaults, RefInv, PowerLoss
  PROVE  Promise!Crash
<1> USE DEF RefInv
<1> DEFINE g == file' d == deliveries
<1>1. /\ g \in Seq(Chunks) /\ WellFormed(g)
      /\ \A i \in 1..Len(g) : i \in 1..Len(file) /\ g[i] = file[i]
      /\ \A i \in 1..synced : i \in 1..Len(g)
  BY PowerLossFacts
<1>2. /\ file \in Seq(Chunks) /\ WellFormed(file)
      /\ UNCHANGED <<now, mode, acked, deliveries>>
  BY FileType DEF SafetyInv, LogInv, PowerLoss, Vanish, history
<1>3. Taken = TakenIn(file, d) /\ Taken' = TakenIn(g, d) /\ Live(file)' = Live(g)
  BY <1>2, TakenNow
<1>4. \A m \in acked : \E i \in 1..synced : IsEnq(file, i) /\ MessageOf(file[i].rec) = m
  BY DEF SafetyInv, LogInv
<1>5. \A id \in Ids : d[id] = 0 \/ \E i \in 1..synced : IsDeq(file, i) /\ file[i].rec.id = id
  BY DEF SafetyInv, LogInv
<1> HIDE DEF g, d, RefInv
<1>6. \A i \in 1..Len(g) : (IsEnq(g, i) <=> IsEnq(file, i)) /\ (IsDeq(g, i) <=> IsDeq(file, i))
  BY <1>1 DEF IsEnq, IsDeq
<1>7. \A id : Removed(g, id) => Removed(file, id)
  BY <1>1, <1>6 DEF Removed
<1>8. \A id \in Ids : ~Removed(g, id) => d[id] = 0
  <2> SUFFICES ASSUME NEW id \in Ids, d[id] # 0 PROVE Removed(g, id)
    OBVIOUS
  <2>1. PICK i \in 1..synced : IsDeq(file, i) /\ file[i].rec.id = id
    BY <1>5
  <2> QED BY <1>1, <1>6, <2>1 DEF Removed
<1>9. ASSUME NEW m \in acked
      PROVE  \E i \in 1..Len(g) : IsEnq(g, i) /\ m = MessageOf(g[i].rec)
  BY <1>1, <1>4, <1>6
<1>10. Live(file) \cap acked \subseteq Live(g)
  <2> SUFFICES ASSUME NEW m \in acked, m \in Live(file) PROVE m \in Live(g)
    OBVIOUS
  <2>1. PICK i \in 1..Len(g) : IsEnq(g, i) /\ m = MessageOf(g[i].rec)
    BY <1>9
  <2>2. PICK j \in 1..Len(file) :
          IsEnq(file, j) /\ ~Removed(file, file[j].rec.id) /\ m = MessageOf(file[j].rec)
    BY <1>2, LiveWellFormed
  <2>3. g[i].rec.id = m.id /\ file[j].rec.id = m.id
    BY <1>1, <1>2, <2>1, <2>2, ChunkType
  <2>4. ~Removed(g, g[i].rec.id)
    BY <1>7, <2>2, <2>3
  <2> QED BY <1>1, <2>1, <2>4, LiveWellFormed
<1>11. Live(g) \subseteq Live(file) \cup TakenIn(file, d)
  <2> SUFFICES ASSUME NEW m \in Live(g), m \notin Live(file) PROVE m \in TakenIn(file, d)
    OBVIOUS
  <2>1. PICK i \in 1..Len(g) :
          IsEnq(g, i) /\ ~Removed(g, g[i].rec.id) /\ m = MessageOf(g[i].rec)
    BY <1>1, LiveWellFormed
  <2>2. i \in 1..Len(file) /\ g[i] = file[i] /\ IsEnq(file, i) /\ g[i].rec.id \in Ids
    BY <1>1, <1>6, <2>1, ChunkType
  <2>3. Removed(file, file[i].rec.id)
    BY <1>2, <2>1, <2>2, LiveWellFormed
  <2>4. d[file[i].rec.id] = 0
    BY <1>8, <2>1, <2>2
  <2> QED BY <1>2, <2>1, <2>2, <2>3, <2>4, TakenWellFormed
<1>12. TakenIn(g, d) \subseteq TakenIn(file, d)
  <2> SUFFICES ASSUME NEW m \in TakenIn(g, d) PROVE m \in TakenIn(file, d)
    OBVIOUS
  <2>1. PICK i \in 1..Len(g) : /\ IsEnq(g, i) /\ Removed(g, g[i].rec.id)
                               /\ d[g[i].rec.id] = 0 /\ m = MessageOf(g[i].rec)
    BY <1>1, TakenWellFormed
  <2>2. i \in 1..Len(file) /\ g[i] = file[i] /\ IsEnq(file, i)
    BY <1>1, <1>6, <2>1
  <2> QED BY <1>2, <1>7, <2>1, <2>2, TakenWellFormed
<1>13. Live(g) \cap TakenIn(g, d) = {}
  BY <1>1, LiveNotTaken
<1>14. TakenIn(file, d) \cap acked \subseteq Live(g) \cup TakenIn(g, d)
  <2> SUFFICES ASSUME NEW m \in acked, m \in TakenIn(file, d), m \notin Live(g)
               PROVE  m \in TakenIn(g, d)
    OBVIOUS
  <2>1. PICK i \in 1..Len(g) : IsEnq(g, i) /\ m = MessageOf(g[i].rec)
    BY <1>9
  <2>2. PICK j \in 1..Len(file) :
          IsEnq(file, j) /\ d[file[j].rec.id] = 0 /\ m = MessageOf(file[j].rec)
    BY <1>2, TakenWellFormed
  <2>3. g[i].rec.id = m.id /\ file[j].rec.id = m.id
    BY <1>1, <1>2, <2>1, <2>2, ChunkType
  <2>4. Removed(g, g[i].rec.id)
    BY <1>1, <2>1, LiveWellFormed
  <2> QED BY <1>1, <2>1, <2>2, <2>3, <2>4, TakenWellFormed
<1> QED BY <1>2, <1>3, <1>10, <1>11, <1>12, <1>13, <1>14 DEF Promise!Crash

LEMMA RefinementStep ==
  ASSUME CleanFaults, SteadyClock, RefInv, [Next]_vars
  PROVE  [Promise!Next]_(Promise!vars)
<1>0. ControlOK
  BY DEF RefInv, SafetyInv, TypeOK
<1>1. ASSUME NEW t \in Threads, EnqueueAppend(t) PROVE Promise!Next
  BY <1>1, InsertStep DEF Promise!Next
<1>2. ASSUME NEW t \in Threads, EnqueueSync(t) PROVE Promise!Next
  BY <1>2, AcceptStep DEF Promise!Next
<1>3. ASSUME NEW t \in Threads, DequeueAppend(t) PROVE Promise!Next
  BY <1>3, TakeStep DEF Promise!Next
<1>4. ASSUME NEW t \in Threads, DequeueSync(t) PROVE Promise!Next
  BY <1>4, HandOverStep DEF Promise!Next
<1>5. CASE PowerLoss
  BY <1>5, CrashStep DEF Promise!Next
<1>6. CASE Boot
  <2>1. mode' \in Modes /\ UNCHANGED <<now, file, acked, deliveries>>
    BY <1>6 DEF Boot, log, history
  <2>2. Promise!Reopen
    BY <2>1 DEF Promise!Reopen, Taken, Modes, Promise!Modes
  <2> QED BY <2>2 DEF Promise!Next
<1>7. CASE Clock
  <2>1. now' = now + 1 /\ now \in Nat /\ UNCHANGED <<mode, file, acked, deliveries>>
    BY <1>7 DEF Clock, Tick, ClockBack, SteadyClock, log, history, RefInv, SafetyInv, TypeOK, DataOK
  <2>2. now' > now
    BY <2>1
  <2>3. Promise!Tick
    BY <2>1, <2>2 DEF Promise!Tick, Taken
  <2> QED BY <2>3 DEF Promise!Next
<1>8. CASE Still
  BY <1>8, StillStep DEF Still
<1> QED BY <1>0, <1>1, <1>2, <1>3, <1>4, <1>5, <1>6, <1>7, <1>8, CleanSteps

LEMMA RefinementInit ==
  ASSUME Init
  PROVE  Promise!Init
<1>1. file = <<>> /\ Len(file) = 0
  BY DEF Init
<1>2. Live(file) = {} /\ Taken = {}
  BY <1>1 DEF Live, Taken
<1> QED BY <1>2 DEF Init, Promise!Init, Modes, Promise!Modes

(* While no record is torn, no fsync fails and the clock is not stepped    *)
(* back, the service is the durable queue it promises to be: the log alone *)
(* decides what is live, an accepted message survives every crash, and     *)
(* each Dequeue takes the winner among all messages due at that moment.    *)
THEOREM RefinementTheorem ==
  CleanFaults /\ SteadyClock => (Spec => ImplementsDurableQueue)
<1> SUFFICES ASSUME CleanFaults, SteadyClock PROVE Spec => ImplementsDurableQueue
  OBVIOUS
<1>1. Init => HeldInv
  BY DEF Init, HeldInv
<1>2. Init => Promise!Init
  BY RefinementInit
<1>3. SafetyInv /\ HeldInv /\ [Next]_vars => HeldInv'
  BY HeldStep
<1>4. SafetyInv /\ SeqInv /\ HeldInv /\ DueInv /\ [Next]_vars => [Promise!Next]_(Promise!vars)
  BY RefinementStep DEF RefInv
<1> QED BY <1>1, <1>2, <1>3, <1>4, SeqInvariant, DueInvariant, PTL
        DEF Spec, ImplementsDurableQueue, Promise!Spec
=============================================================================
