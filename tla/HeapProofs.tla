----------------------------- MODULE HeapProofs -----------------------------
(***************************************************************************)
(* The log and the heaps of the service under every fault the model knows, *)
(* torn records and failed fsyncs included.  Record numbers increase from  *)
(* line to line, and no stored message is due outside the range of delays  *)
(* Validate lets through: both rest on one lemma, LogStep (the file grows  *)
(* by one chunk with the next record number, shrinks in a power loss, or   *)
(* stays).  Stats adds up although it asks the engine twice; as long as    *)
(* the wall clock is not stepped back, no message becomes visible before   *)
(* its time although every call promotes with a clock reading of its own;  *)
(* and a fragment in the log costs at most the record appended after it.   *)
(***************************************************************************)
EXTENDS QueueServiceProofs, FiniteSetTheorems


(* Chunk i begins a line and is more than a fragment of its object; it is  *)
(* a line when its newline is there too.  Unlike Sound, neither depends on *)
(* what follows chunk i.                                                   *)
Begins(f, i) == f[i].part # "torn" /\ (i > 1 => f[i - 1].part = "whole")
Line(f, i) == Begins(f, i) /\ f[i].part = "whole"

(* Lines are numbered in order, also before a chunk whose newline is       *)
(* missing, and a running service has not numbered ahead of its counter.   *)
OrderInv ==
  /\ \A i, j \in 1..Len(file) :
       i < j /\ Line(file, i) /\ Begins(file, j)
         => file[i].rec.seq < file[j].rec.seq
  /\ up = "up" => \A i \in 1..Len(file) : Line(file, i) => file[i].rec.seq <= walSeq

(* The due time of an ENQUEUE record lies between its enqueue time and the *)
(* cap.                                                                    *)
InCap(rec) ==
  rec.op = "ENQUEUE" =>
    /\ rec.enqueuedAt <= rec.availableAt
    /\ rec.availableAt <= rec.enqueuedAt + MaxDelaySeconds * Second

DelayInv == \A i \in 1..Len(file) : InCap(file[i].rec)

(* A record with the next number is at the end of the file, in whole or in *)
(* part.                                                                   *)
Grown ==
  \E rec \in Records, part \in Parts :
    /\ file' = Append(file, Chunk(rec, part))
    /\ rec.seq = walSeq + 1
    /\ InCap(rec)
    /\ walSeq' = walSeq + 1
    /\ up = "up"

(* The file is as it was; a service that runs afterwards ran before, with  *)
(* no larger counter, or has just been started.                            *)
Kept ==
  /\ file' = file
  /\ up' = "up" => Boot \/ (up = "up" /\ walSeq' \in {walSeq, walSeq + 1})

-----------------------------------------------------------------------------
(* The record of an accepted request is within the cap.                    *)
LEMMA RecordInCap ==
  ASSUME now \in Nat, NEW r \in [id : Ids, priority : Int, delay : 0..MaxDelaySeconds],
         NEW n
  PROVE  /\ EnqueueRecord(n, NewMessage(r)).seq = n
         /\ InCap(EnqueueRecord(n, NewMessage(r)))
<1> DEFINE d == r.delay
<1>1. d \in 0..MaxDelaySeconds
  OBVIOUS
<1> HIDE DEF d
<1>2. /\ AvailableAt(now, d) = now + d * Second
      /\ d * Second \in 0..(MaxDelaySeconds * Second)
  BY <1>1, NoWrap DEF AvailableAt
<1> QED BY <1>2, DelayCapAssumption DEF d, InCap, EnqueueRecord, NewMessage

LEMMA TombstoneInCap ==
  ASSUME NEW n, NEW id
  PROVE  DequeueRecord(n, id).seq = n /\ InCap(DequeueRecord(n, id))
  BY DEF DequeueRecord, InCap

LEMMA EnqueueLogStep ==
  ASSUME TypeOK, Exclusion, NEW t \in Threads,
         EnqueueAppend(t) \/ EnqueueAppendFails(t)
  PROVE  Grown \/ Kept
<1> DEFINE rec == EnqueueRecord(walSeq + 1, NewMessage(arg[t]))
<1>1. pc[t] = "enqueue" /\ up' = up /\ walSeq' = walSeq + 1
  BY DEF EnqueueAppend, EnqueueAppendFails, Enter
<1>2. up = "up"
  BY <1>1, Running
<1>3. arg[t] \in [id : Ids, priority : Int, delay : 0..MaxDelaySeconds]
  BY <1>1 DEF TypeOK, ControlOK, ArgOK
<1>4. rec.seq = walSeq + 1 /\ InCap(rec)
  BY <1>3, RecordInCap DEF TypeOK, DataOK
<1>5. rec \in Records
  BY <1>3, NewMessageType, RecordType DEF TypeOK, DataOK
<1>6. CASE Append1(rec)
  BY <1>1, <1>2, <1>4, <1>5, <1>6 DEF Grown, Append1, Parts
<1>7. CASE FailedAppend(rec)
  <2> HIDE DEF rec
  <2>1. CASE file' = file
    BY <1>1, <1>2, <2>1 DEF Kept
  <2>2. CASE \E part \in Fragments("whole") : file' = Append(file, Chunk(rec, part))
    BY <1>1, <1>2, <1>4, <1>5, <2>2 DEF Grown, Fragments, Parts
  <2> QED BY <1>7, <2>1, <2>2 DEF FailedAppend
<1> QED BY <1>6, <1>7 DEF EnqueueAppend, EnqueueAppendFails

LEMMA DequeueLogStep ==
  ASSUME TypeOK, Exclusion, NEW t \in Threads,
         DequeueAppend(t) \/ DequeueAppendFails(t)
  PROVE  Grown \/ Kept
<1>1. pc[t] = "dequeue" /\ up' = up /\ walSeq' = walSeq + 1
  BY DEF DequeueAppend, DequeueAppendFails, Enter
<1>2. up = "up"
  BY <1>1, Running
<1>3. PICK m \in Best(mode, Visible(now)) :
         \/ Append1(DequeueRecord(walSeq + 1, m.id))
         \/ FailedAppend(DequeueRecord(walSeq + 1, m.id))
  BY DEF DequeueAppend, DequeueAppendFails
<1>4. m.id \in Ids
  BY VisibleType DEF TypeOK, Messages
<1> DEFINE rec == DequeueRecord(walSeq + 1, m.id)
<1>5. rec.seq = walSeq + 1 /\ InCap(rec)
  BY TombstoneInCap
<1>6. rec \in Records
  BY <1>4, RecordType DEF TypeOK, DataOK
<1> HIDE DEF rec
<1>7. CASE Append1(rec)
  BY <1>1, <1>2, <1>5, <1>6, <1>7 DEF Grown, Append1, Parts
<1>8. CASE FailedAppend(rec)
  <2>1. CASE file' = file
    BY <1>1, <1>2, <2>1 DEF Kept
  <2>2. CASE \E part \in Fragments("whole") : file' = Append(file, Chunk(rec, part))
    BY <1>1, <1>2, <1>5, <1>6, <2>2 DEF Grown, Fragments, Parts
  <2> QED BY <1>8, <2>1, <2>2 DEF FailedAppend
<1> QED BY <1>3, <1>7, <1>8 DEF rec

(* What a step does to the file.                                           *)
LEMMA LogStep ==
  ASSUME TypeOK, Exclusion, [Next]_vars
  PROVE  Grown \/ Kept \/ PowerLoss
<1> USE DEF memory, log, history
<1>0. walSeq \in Nat
  BY DEF TypeOK, DataOK
<1>1. CASE UNCHANGED vars
  BY <1>1 DEF vars, Kept
<1>2. ASSUME NEW t \in Writers, Write(t) PROVE Grown \/ Kept
  <2>0. t \in Threads
    BY DEF Threads
  <2>1. CASE EnqueueAppend(t) \/ EnqueueAppendFails(t)
    BY <2>0, <2>1, EnqueueLogStep
  <2>2. CASE DequeueAppend(t) \/ DequeueAppendFails(t)
    BY <2>0, <2>2, DequeueLogStep
  <2>3. CASE \/ \E req \in Requests, id \in Ids : EnqueueCall(t, req, id)
             \/ EnqueueSync(t) \/ EnqueueSyncFails(t)
             \/ DequeueCall(t) \/ DequeueEmpty(t)
             \/ DequeueSync(t) \/ DequeueSyncFails(t) \/ RefuseClosed(t)
    <3>1. UNCHANGED <<file, up, walSeq>>
      BY <2>3 DEF EnqueueCall, EnqueueSync, EnqueueSyncFails, DequeueCall, DequeueEmpty,
                  DequeueSync, DequeueSyncFails, RefuseClosed
    <3> QED BY <3>1 DEF Kept
  <2> QED BY <1>2, <2>1, <2>2, <2>3 DEF Write
<1>3. ASSUME NEW t \in Readers, Read(t) PROVE Kept
  <2>1. UNCHANGED <<file, up, walSeq>>
    BY <1>3 DEF Read, StatsCall, StatsLen, StatsAvailableLen, SnapshotCall, SnapshotTake
  <2> QED BY <2>1 DEF Kept
<1>4. CASE Close \/ Clock
  BY <1>4 DEF Close, Clock, Kept
<1>5. CASE Kill
  BY <1>5 DEF Kill, Vanish, Kept
<1>6. CASE Boot
  BY <1>6 DEF Boot, Kept
<1>7. CASE BootFails
  BY <1>7 DEF BootFails, Kept
<1> QED BY <1>1, <1>2, <1>3, <1>4, <1>5, <1>6, <1>7 DEF Next

-----------------------------------------------------------------------------
(* What an append, and what a power loss, does to the chunks.              *)
LEMMA GrownFile ==
  ASSUME NEW f \in Seq(Chunks), NEW rec \in Records, NEW part \in Parts,
         NEW g, g = Append(f, Chunk(rec, part))
  PROVE  /\ g \in Seq(Chunks)
         /\ Len(g) = Len(f) + 1
         /\ \A i \in 1..Len(f) : g[i] = f[i]
         /\ g[Len(f) + 1].rec = rec
         /\ g[Len(f) + 1].part = part
<1> DEFINE c == Chunk(rec, part)
<1>1. c \in Chunks /\ c.rec = rec /\ c.part = part
  BY DEF Chunk, Chunks
<1> HIDE DEF c
<1>2. /\ Append(f, c) \in Seq(Chunks)
      /\ Len(Append(f, c)) = Len(f) + 1
      /\ \A i \in 1..Len(f) : Append(f, c)[i] = f[i]
      /\ Append(f, c)[Len(f) + 1] = c
  BY <1>1
<1>3. g = Append(f, c)
  BY DEF c
<1> QED BY <1>1, <1>2, <1>3

(* After a power loss the file is a prefix that contains all that was      *)
(* synced, except that the last chunk may have become a fragment.          *)
LEMMA PowerLossCut ==
  ASSUME TypeOK, PowerLoss
  PROVE  \E n \in 0..Len(file) :
           /\ synced <= n
           /\ Len(file') = n
           /\ \A i \in 1..n : i < n => file'[i] = file[i]
           /\ n > 0 => file'[n].rec = file[n].rec
           /\ n > 0 => \/ file'[n].part = file[n].part
                       \/ n > synced /\ file'[n].part \in Fragments(file[n].part)
<1>0. file \in Seq(Chunks) /\ synced \in 0..Len(file) /\ Len(file) \in Nat
  BY DEF TypeOK, DataOK, Chunks
<1>1. ASSUME NEW k \in synced..Len(file), file' = SubSeq(file, 1, k)
      PROVE  /\ k \in 0..Len(file) /\ synced <= k /\ Len(file') = k
             /\ \A i \in 1..k : file'[i] = file[i]
  BY <1>0, <1>1
<1>2. CASE \E k \in synced..Len(file) : file' = SubSeq(file, 1, k)
  <2>1. PICK k \in synced..Len(file) : file' = SubSeq(file, 1, k)
    BY <1>2
  <2>2. /\ k \in 0..Len(file) /\ synced <= k /\ Len(file') = k
        /\ \A i \in 1..k : file'[i] = file[i]
    BY <1>1, <2>1
  <2>3. k > 0 => k \in 1..k
    BY <2>2
  <2> QED BY <2>2, <2>3
<1>3. CASE \E k \in synced..(Len(file) - 1) :
             \E part \in Fragments(file[k + 1].part) :
               file' = Append(SubSeq(file, 1, k), Chunk(file[k + 1].rec, part))
  <2>1. PICK k \in synced..(Len(file) - 1) :
          \E part \in Fragments(file[k + 1].part) :
            file' = Append(SubSeq(file, 1, k), Chunk(file[k + 1].rec, part))
    BY <1>3
  <2>2. PICK part \in Fragments(file[k + 1].part) :
          file' = Append(SubSeq(file, 1, k), Chunk(file[k + 1].rec, part))
    BY <2>1
  <2>3. k \in 0..Len(file) /\ k + 1 \in 1..Len(file) /\ file[k + 1] \in Chunks /\ synced <= k
    BY <1>0
  <2>4. file[k + 1].rec \in Records /\ part \in Parts
    BY <2>3 DEF Chunks, Fragments, Parts
  <2> DEFINE h == SubSeq(file, 1, k) r == file[k + 1].rec g == file'
  <2>5. h \in Seq(Chunks) /\ Len(h) = k /\ \A i \in 1..k : h[i] = file[i]
    BY <1>0, <2>3
  <2>6. r \in Records /\ g = Append(h, Chunk(r, part))
    BY <2>2, <2>4
  <2> HIDE DEF h, r, g
  <2>7. /\ Len(g) = k + 1
        /\ \A i \in 1..k : g[i] = h[i]
        /\ g[k + 1].rec = r
        /\ g[k + 1].part = part
    BY <2>4, <2>5, <2>6, GrownFile
  <2>8. \A i \in 1..(k + 1) : i < k + 1 => i \in 1..k
    BY <2>3
  <2>9. k + 1 \in 0..Len(file) /\ synced <= k + 1 /\ k + 1 > synced
    BY <1>0, <2>3
  <2>10. /\ Len(file') = k + 1
         /\ \A i \in 1..(k + 1) : i < k + 1 => file'[i] = file[i]
         /\ file'[k + 1].rec = file[k + 1].rec
         /\ file'[k + 1].part \in Fragments(file[k + 1].part)
    BY <2>2, <2>5, <2>7, <2>8 DEF g, r
  <2> QED BY <2>9, <2>10
<1> QED BY <1>2, <1>3 DEF PowerLoss

-----------------------------------------------------------------------------
LEMMA GrownOrder ==
  ASSUME TypeOK, OrderInv, Grown
  PROVE  OrderInv'
<1>0. file \in Seq(Chunks) /\ Len(file) \in Nat /\ walSeq \in Nat
  BY DEF TypeOK, DataOK, Chunks
<1>1. PICK rec \in Records, part \in Parts :
        /\ file' = Append(file, Chunk(rec, part))
        /\ rec.seq = walSeq + 1
        /\ walSeq' = walSeq + 1
        /\ up = "up"
  BY DEF Grown
<1> DEFINE g == file' n == Len(file)
<1>2. /\ Len(g) = n + 1
      /\ \A i \in 1..n : g[i] = file[i]
      /\ g[n + 1].rec = rec
  BY <1>0, <1>1, GrownFile
<1> HIDE DEF g
<1>3. ASSUME NEW i \in 1..n
      PROVE  /\ Line(g, i) => Line(file, i)
             /\ Begins(g, i) => Begins(file, i)
             /\ g[i].rec.seq = file[i].rec.seq
             /\ file[i].rec.seq \in Nat
  <2>1. i > 1 => i - 1 \in 1..n
    BY <1>0
  <2>2. file[i] \in Chunks
    BY <1>0
  <2>3. file[i].rec.seq \in Nat
    BY <2>2 DEF Chunks, Records
  <2> QED BY <1>2, <2>1, <2>3 DEF Line, Begins
<1>4. \A i \in 1..n : Line(g, i) => file[i].rec.seq <= walSeq
  BY <1>1, <1>3 DEF OrderInv
<1>5. \A i \in 1..Len(g) : i \in 1..n \/ i = n + 1
  BY <1>0, <1>2
<1>6. ASSUME NEW i \in 1..Len(g), NEW j \in 1..Len(g), i < j, Line(g, i), Begins(g, j)
      PROVE  g[i].rec.seq < g[j].rec.seq
  <2>1. i \in 1..n
    BY <1>0, <1>2, <1>6
  <2>2. CASE j \in 1..n
    BY <1>3, <1>6, <2>1, <2>2 DEF OrderInv
  <2>3. CASE j = n + 1
    BY <1>0, <1>1, <1>2, <1>3, <1>4, <1>6, <2>1, <2>3
  <2> QED BY <1>5, <2>2, <2>3
<1>7. \A i \in 1..Len(g) : Line(g, i) => g[i].rec.seq <= walSeq'
  <2> SUFFICES ASSUME NEW i \in 1..Len(g), Line(g, i) PROVE g[i].rec.seq <= walSeq'
    OBVIOUS
  <2>1. CASE i \in 1..n
    BY <1>0, <1>1, <1>3, <1>4, <2>1
  <2>2. CASE i = n + 1
    BY <1>0, <1>1, <1>2, <2>2
  <2> QED BY <1>5, <2>1, <2>2
<1> QED BY <1>6, <1>7 DEF OrderInv, Line, Begins, g

LEMMA KeptOrder ==
  ASSUME TypeOK, OrderInv, Kept
  PROVE  OrderInv'
<1>0. file \in Seq(Chunks) /\ Len(file) \in Nat /\ walSeq \in Nat
  BY DEF TypeOK, DataOK, Chunks
<1>1. ASSUME NEW i \in 1..Len(file)
      PROVE  file[i].rec.seq \in Nat
  <2>1. file[i] \in Chunks
    BY <1>0
  <2> QED BY <2>1 DEF Chunks, Records
<1>2. ASSUME up' = "up", NEW i \in 1..Len(file), Line(file, i)
      PROVE  file[i].rec.seq <= walSeq'
  <2>1. CASE Boot
    <3>1. Sound(file, i)
      BY <1>2 DEF Line, Begins, Sound
    <3>2. file[i].rec.seq \in RecordSeqs(file)
      BY <3>1 DEF RecordSeqs
    <3> QED BY <2>1, <3>2 DEF Boot, IsLast
  <2>2. CASE up = "up" /\ walSeq' \in {walSeq, walSeq + 1}
    BY <1>0, <1>1, <1>2, <2>2 DEF OrderInv
  <2> QED BY <1>2, <2>1, <2>2 DEF Kept
<1> QED BY <1>2 DEF Kept, OrderInv, Line, Begins

LEMMA PowerLossOrder ==
  ASSUME TypeOK, OrderInv, PowerLoss
  PROVE  OrderInv'
<1>0. file \in Seq(Chunks) /\ Len(file) \in Nat
  BY DEF TypeOK, DataOK, Chunks
<1>1. PICK n \in 0..Len(file) :
        /\ Len(file') = n
        /\ \A i \in 1..n : i < n => file'[i] = file[i]
        /\ n > 0 => file'[n].rec = file[n].rec
        /\ n > 0 => file'[n].part = file[n].part \/ file'[n].part \in Fragments(file[n].part)
  BY PowerLossCut
<1>2. ASSUME NEW i \in 1..n
      PROVE  /\ file'[i].rec = file[i].rec
             /\ file'[i].part # "torn" => file[i].part # "torn"
             /\ file'[i].part = "whole" => file[i].part = "whole"
  <2>1. CASE i < n
    BY <1>1, <2>1
  <2>2. CASE i = n
    <3>1. file[n] \in Chunks
      BY <1>0, <2>2
    <3>2. file[n].part \in Parts
      BY <3>1 DEF Chunks
    <3> QED BY <1>1, <2>2, <3>2 DEF Fragments, Parts
  <2> QED BY <1>1, <2>1, <2>2
<1>3. ASSUME NEW i \in 1..n
      PROVE  /\ i \in 1..Len(file)
             /\ Begins(file', i) => Begins(file, i)
             /\ Line(file', i) => Line(file, i)
  <2>1. i > 1 => i - 1 \in 1..n
    BY <1>1
  <2> QED BY <1>0, <1>2, <2>1 DEF Begins, Line
<1>4. up' # "up"
  BY DEF PowerLoss, Vanish
<1> QED BY <1>1, <1>2, <1>3, <1>4 DEF OrderInv, Line, Begins

(* The record numbers of the lines a replay accepts increase, whatever was *)
(* torn, lost, refused or left behind by a failed write: appendLocked      *)
(* never reuses a number that Recover can see.                             *)
THEOREM LogTotallyOrderedTheorem == Spec => []LogTotallyOrdered
<1>1. Init => TypeOK /\ Exclusion /\ OrderInv
  <2>1. Init => Len(file) = 0
    BY DEF Init
  <2> QED BY <2>1, TypeInit DEF OrderInv
<1>2. TypeOK /\ Exclusion /\ OrderInv /\ [Next]_vars => (TypeOK /\ Exclusion /\ OrderInv)'
  BY TypeStep, LogStep, GrownOrder, KeptOrder, PowerLossOrder
<1>3. TypeOK /\ OrderInv => LogTotallyOrdered
  <2> SUFFICES ASSUME TypeOK, OrderInv, NEW i \in 1..Len(file), NEW j \in 1..Len(file),
                      i < j, Sound(file, i), Sound(file, j)
               PROVE  file[i].rec.seq < file[j].rec.seq
    BY DEF LogTotallyOrdered
  <2>1. file \in Seq(Chunks) /\ Len(file) \in Nat
    BY DEF TypeOK, DataOK, Chunks
  <2>2. file[i] \in Chunks /\ i # Len(file)
    BY <2>1
  <2>3. Line(file, i)
    BY <2>2 DEF Chunks, Parts, Sound, Line, Begins
  <2>4. Begins(file, j)
    BY DEF Sound, Begins
  <2> QED BY <2>3, <2>4 DEF OrderInv
<1> QED BY <1>1, <1>2, <1>3, PTL DEF Spec

-----------------------------------------------------------------------------
LEMMA DelayStep ==
  ASSUME TypeOK, Exclusion, DelayInv, [Next]_vars
  PROVE  DelayInv'
<1>0. file \in Seq(Chunks) /\ Len(file) \in Nat
  BY DEF TypeOK, DataOK, Chunks
<1>1. CASE Grown
  <2>1. PICK rec \in Records, part \in Parts :
          file' = Append(file, Chunk(rec, part)) /\ InCap(rec)
    BY <1>1 DEF Grown
  <2>2. /\ Len(file') = Len(file) + 1
        /\ \A i \in 1..Len(file) : file'[i] = file[i]
        /\ file'[Len(file) + 1].rec = rec
    BY <1>0, <2>1, GrownFile
  <2>3. \A i \in 1..Len(file') : i \in 1..Len(file) \/ i = Len(file) + 1
    BY <1>0, <2>2
  <2> QED BY <2>1, <2>2, <2>3 DEF DelayInv, InCap
<1>2. CASE Kept
  BY <1>2 DEF Kept, DelayInv, InCap
<1>3. CASE PowerLoss
  <2>1. PICK n \in 0..Len(file) :
          /\ Len(file') = n
          /\ \A i \in 1..n : i < n => file'[i] = file[i]
          /\ n > 0 => file'[n].rec = file[n].rec
    BY <1>3, PowerLossCut
  <2>2. \A i \in 1..n : i \in 1..Len(file) /\ (i < n \/ i = n) /\ n > 0
    BY <1>0, <2>1
  <2>3. \A i \in 1..n : file'[i].rec = file[i].rec
    BY <2>1, <2>2
  <2> QED BY <2>1, <2>2, <2>3 DEF DelayInv, InCap
<1> QED BY <1>1, <1>2, <1>3, LogStep

(* Every message a replay can bring back is due between its enqueue time   *)
(* and the cap: the multiplication of the delay never wraps, for any       *)
(* request and under any fault.                                            *)
THEOREM DelayHonouredTheorem == Spec => []DelayHonoured
<1>1. Init => TypeOK /\ Exclusion /\ DelayInv
  <2>1. Init => Len(file) = 0
    BY DEF Init
  <2> QED BY <2>1, TypeInit DEF DelayInv
<1>2. TypeOK /\ Exclusion /\ DelayInv /\ [Next]_vars => (TypeOK /\ Exclusion /\ DelayInv)'
  BY TypeStep, DelayStep
<1>3. TypeOK /\ DelayInv => DelayHonoured
  <2> SUFFICES ASSUME TypeOK, DelayInv, NEW i \in 1..Len(file), LiveAt(file, i)
               PROVE  /\ MessageOf(file[i].rec).enqueuedAt <= MessageOf(file[i].rec).availableAt
                      /\ MessageOf(file[i].rec).availableAt
                           <= MessageOf(file[i].rec).enqueuedAt + MaxDelaySeconds * Second
    BY DEF DelayHonoured, Live
  <2>0. file \in Seq(Chunks)
    BY DEF TypeOK, DataOK, Chunks
  <2>1. file[i] \in Chunks
    BY <2>0
  <2>2. file[i].rec \in Records /\ file[i].rec.op = "ENQUEUE"
    BY <2>1 DEF Chunks, LiveAt, Enqueues
  <2>3. /\ MessageOf(file[i].rec).enqueuedAt = file[i].rec.enqueuedAt
        /\ MessageOf(file[i].rec).availableAt = file[i].rec.availableAt
    BY <2>2, NilAssumption DEF Records, MessageOf, Deref
  <2> QED BY <2>2, <2>3 DEF DelayInv, InCap
<1> QED BY <1>1, <1>2, <1>3, PTL DEF Spec

-----------------------------------------------------------------------------
Heaps == ready \cup delayed

(* The ids found in the log, in the heaps, or with a goroutine inside a    *)
(* write section.                                                          *)
InUse ==
  {file[i].rec.id : i \in 1..Len(file)}
    \cup {m.id : m \in Heaps}
    \cup {arg[t].id : t \in {u \in Threads : pc[u] \in Writing}}

(* Every id in use came from newUUID, and a pending Enqueue has one that   *)
(* nobody else uses.                                                       *)
IdInv ==
  /\ InUse \subseteq issued
  /\ \A t \in Threads : pc[t] = "enqueue" =>
       /\ arg[t].id \in issued
       /\ arg[t].id \notin InUse
       /\ \A u \in Threads : pc[u] = "enqueue" /\ arg[u].id = arg[t].id => u = t

(* The RWMutex keeps readers and the writer apart; a message is in one     *)
(* heap at most and not with the goroutine that pushes or has popped it;   *)
(* what Stats counted first is what the heaps still hold.                  *)
HeapInv ==
  /\ \A t, u \in Threads : pc[t] \in Writing => pc[u] \notin Reading
  /\ ready \cap delayed = {}
  /\ IsFiniteSet(Heaps)
  /\ \A t \in Threads : pc[t] = "enqSync" => \A m \in Heaps : m.id # arg[t].id
  /\ \A t \in Threads : pc[t] = "deqSync" => arg[t] \notin Heaps
  /\ \A t \in Threads : pc[t] = "statsLen" => arg[t].total = Cardinality(Heaps)

CountInv ==
  TypeOK /\ Exclusion /\ IdInv /\ HeapInv /\ (up # "up" => Heaps = {})

-----------------------------------------------------------------------------
(* A goroutine moves: the ids in use stay, or its own pending id is added. *)
LEMMA IdMove ==
  ASSUME ControlOK, IdInv, NEW t \in Threads, NEW label, NEW value,
         Goto(t, label, value), label # "enqueue", issued' = issued,
         \A i \in 1..Len(file') :
           file'[i].rec.id \in InUse \/ (pc[t] = "enqueue" /\ file'[i].rec.id = arg[t].id),
         \A m \in Heaps' : m.id \in InUse,
         label \in Writing => value.id \in InUse \/ (pc[t] = "enqueue" /\ value.id = arg[t].id)
  PROVE  IdInv'
<1>1. /\ pc'[t] = label /\ arg'[t] = value
      /\ \A u \in Threads : u # t => pc'[u] = pc[u] /\ arg'[u] = arg[u]
  BY DEF ControlOK, Goto
<1>2. ASSUME NEW x \in InUse'
      PROVE  x \in InUse \/ (pc[t] = "enqueue" /\ x = arg[t].id)
  <2>1. CASE x \in {file'[i].rec.id : i \in 1..Len(file')}
    BY <2>1
  <2>2. CASE x \in {m.id : m \in Heaps'}
    BY <2>2
  <2>3. CASE \E u \in Threads : pc'[u] \in Writing /\ x = arg'[u].id
    <3>1. PICK u \in Threads : pc'[u] \in Writing /\ x = arg'[u].id
      BY <2>3
    <3>2. CASE u = t
      BY <1>1, <3>1, <3>2
    <3>3. CASE u # t
      BY <1>1, <3>1, <3>3 DEF InUse
    <3> QED BY <3>2, <3>3
  <2> QED BY <2>1, <2>2, <2>3 DEF InUse
<1>3. InUse' \subseteq issued'
  BY <1>2 DEF IdInv
<1>4. ASSUME NEW u \in Threads, pc'[u] = "enqueue"
      PROVE  /\ arg'[u].id \in issued'
             /\ arg'[u].id \notin InUse'
             /\ \A w \in Threads : pc'[w] = "enqueue" /\ arg'[w].id = arg'[u].id => w = u
  <2>1. u # t /\ pc[u] = "enqueue" /\ arg'[u] = arg[u]
    BY <1>1, <1>4
  <2>2. arg[u].id \notin InUse'
    BY <1>2, <2>1 DEF IdInv
  <2> QED BY <1>1, <2>1, <2>2 DEF IdInv
<1> QED BY <1>3, <1>4 DEF IdInv

LEMMA InUseFacts ==
  /\ \A i \in 1..Len(file) : file[i].rec.id \in InUse
  /\ \A m \in Heaps : m.id \in InUse
  /\ \A t \in Threads : pc[t] \in Writing => arg[t].id \in InUse
  BY DEF InUse

(* A goroutine moves and at most promotes.                                 *)
LEMMA HeapMove ==
  ASSUME ControlOK, Exclusion, HeapInv, NEW t \in Threads, NEW label, NEW value,
         Goto(t, label, value), Heaps' = Heaps, ready' \cap delayed' = {},
         label # "deqSync",
         label \in Writing => NoHolder /\ \A m \in Heaps : m.id # value.id,
         label \in Reading => NoWriter \/ pc[t] \in Reading,
         label = "statsLen" => value.total = Cardinality(Heaps)
  PROVE  HeapInv'
<1>1. /\ pc'[t] = label /\ arg'[t] = value
      /\ \A u \in Threads : u # t => pc'[u] = pc[u] /\ arg'[u] = arg[u]
  BY DEF ControlOK, Goto
<1>2. \A u, w \in Threads : pc'[u] \in Writing => pc'[w] \notin Reading
  BY <1>1 DEF HeapInv, NoHolder, NoWriter, Writing, Reading
<1>3. \A u \in Threads : pc'[u] = "enqSync" => \A m \in Heaps : m.id # arg'[u].id
  BY <1>1 DEF HeapInv, Writing
<1>4. \A u \in Threads : pc'[u] = "deqSync" => arg'[u] \notin Heaps
  BY <1>1 DEF HeapInv
<1>5. \A u \in Threads : pc'[u] = "statsLen" => arg'[u].total = Cardinality(Heaps)
  BY <1>1 DEF HeapInv
<1> QED BY <1>2, <1>3, <1>4, <1>5 DEF HeapInv

(* The heaps change while no reader is about.                              *)
LEMMA HeapChange ==
  ASSUME ready' \cap delayed' = {}, IsFiniteSet(Heaps'),
         \A u \in Threads : pc'[u] \notin Reading /\ pc'[u] # "enqSync",
         \A u \in Threads : pc'[u] = "deqSync" => arg'[u] \notin Heaps'
  PROVE  HeapInv'
  BY DEF HeapInv, Reading

LEMMA PromoteHeaps ==
  ASSUME HeapInv, NEW at, Promote(at)
  PROVE  Heaps' = Heaps /\ ready' \cap delayed' = {}
  BY DEF HeapInv, Heaps, Promote, Visible, Matured

LEMMA FailedAppendIds ==
  ASSUME DataOK, NEW r \in Records, FailedAppend(r), NEW i \in 1..Len(file')
  PROVE  file'[i].rec.id = r.id \/ \E j \in 1..Len(file) : file'[i].rec.id = file[j].rec.id
<1>0. file \in Seq(Chunks) /\ Len(file) \in Nat
  BY DEF DataOK, Chunks
<1>1. CASE file' = file
  BY <1>1
<1>2. CASE \E part \in Fragments("whole") : file' = Append(file, Chunk(r, part))
  <2>1. PICK part \in Fragments("whole") : file' = Append(file, Chunk(r, part))
    BY <1>2
  <2>2. part \in Parts
    BY DEF Fragments, Parts
  <2> QED BY <1>0, <2>1, <2>2, GrownFile
<1> QED BY <1>1, <1>2 DEF FailedAppend

LEMMA AppendIds ==
  ASSUME DataOK, NEW r \in Records, Append1(r), NEW i \in 1..Len(file')
  PROVE  file'[i].rec.id = r.id \/ \E j \in 1..Len(file) : file'[i].rec.id = file[j].rec.id
<1>0. file \in Seq(Chunks) /\ Len(file) \in Nat
  BY DEF DataOK, Chunks
<1> QED BY <1>0, GrownFile DEF Append1, Parts

-----------------------------------------------------------------------------
(* The steps of Enqueue.                                                   *)
LEMMA EnqueueCounts ==
  ASSUME CountInv, NEW t \in Threads,
         \/ \E req \in Requests, id \in Ids : EnqueueCall(t, req, id)
         \/ EnqueueAppend(t) \/ EnqueueAppendFails(t)
         \/ EnqueueSync(t) \/ EnqueueSyncFails(t)
  PROVE  IdInv' /\ HeapInv'
<1> USE DEF CountInv, TypeOK, memory, log, history
<1>1. ASSUME NEW req \in Requests, NEW id \in Ids, EnqueueCall(t, req, id)
      PROVE  IdInv' /\ HeapInv'
  <2> DEFINE v == [id |-> id, priority |-> req.priority, delay |-> req.delay]
  <2>1. /\ Goto(t, "enqueue", v) /\ v.id = id /\ id \notin issued /\ pc[t] = "idle"
        /\ issued' = issued \cup {id} /\ UNCHANGED <<ready, delayed, file>>
    BY <1>1 DEF EnqueueCall
  <2> HIDE DEF v
  <2>2. /\ pc'[t] = "enqueue" /\ arg'[t] = v
        /\ \A u \in Threads : u # t => pc'[u] = pc[u] /\ arg'[u] = arg[u]
    BY <2>1 DEF ControlOK, Goto
  <2>3. Heaps' = Heaps /\ ready' \cap delayed' = {}
    BY <2>1 DEF Heaps, HeapInv
  <2>4. HeapInv'
    BY <2>1, <2>3, HeapMove DEF Writing, Reading
  <2>5. InUse' = InUse
    <3>1. {arg'[u].id : u \in {w \in Threads : pc'[w] \in Writing}}
            = {arg[u].id : u \in {w \in Threads : pc[w] \in Writing}}
      BY <2>1, <2>2 DEF Writing
    <3> QED BY <2>1, <2>3, <3>1 DEF InUse
  <2>6. IdInv'
    <3>1. InUse' \subseteq issued' /\ id \notin InUse'
      BY <2>1, <2>5 DEF IdInv
    <3>2. ASSUME NEW u \in Threads, pc'[u] = "enqueue"
          PROVE  /\ arg'[u].id \in issued'
                 /\ arg'[u].id \notin InUse'
                 /\ \A w \in Threads : pc'[w] = "enqueue" /\ arg'[w].id = arg'[u].id => w = u
      BY <2>1, <2>2, <2>5, <3>1, <3>2 DEF IdInv
    <3> QED BY <3>1, <3>2 DEF IdInv
  <2> QED BY <2>4, <2>6
<1>2. ASSUME pc[t] = "enqueue"
      PROVE  /\ EnqueueRecord(walSeq + 1, NewMessage(arg[t])) \in Records
             /\ EnqueueRecord(walSeq + 1, NewMessage(arg[t])).id = arg[t].id
             /\ NewMessage(arg[t]).id = arg[t].id
  <2>1. arg[t] \in [id : Ids, priority : Int, delay : 0..MaxDelaySeconds]
    BY <1>2 DEF ControlOK, ArgOK
  <2>2. NewMessage(arg[t]) \in Messages /\ NewMessage(arg[t]).id = arg[t].id
    BY <2>1, NewMessageType DEF DataOK
  <2>3. EnqueueRecord(walSeq + 1, NewMessage(arg[t])).id = NewMessage(arg[t]).id
    BY DEF EnqueueRecord
  <2>4. walSeq + 1 \in Nat
    BY DEF DataOK
  <2>5. EnqueueRecord(walSeq + 1, NewMessage(arg[t])) \in Records
    BY <2>2, <2>4, RecordType
  <2> QED BY <2>2, <2>3, <2>5
<1>3. CASE EnqueueAppend(t)
  <2>0. PICK m : m = NewMessage(arg[t])
    OBVIOUS
  <2>1. /\ pc[t] = "enqueue" /\ NoHolder /\ Goto(t, "enqSync", m)
        /\ Append1(EnqueueRecord(walSeq + 1, m))
        /\ UNCHANGED <<ready, delayed, issued>>
    BY <1>3, <2>0 DEF EnqueueAppend, Enter
  <2>2. m.id = arg[t].id
    BY <1>2, <2>0, <2>1
  <2>3. \A i \in 1..Len(file') : file'[i].rec.id \in InUse \/ file'[i].rec.id = arg[t].id
    BY <1>2, <2>0, <2>1, AppendIds, InUseFacts
  <2>4. Heaps' = Heaps /\ ready' \cap delayed' = {}
    BY <2>1 DEF Heaps, HeapInv
  <2>5. IdInv'
    BY <2>1, <2>2, <2>3, <2>4, IdMove, InUseFacts
  <2>6. \A x \in Heaps : x.id # m.id
    BY <2>1, <2>2, InUseFacts DEF IdInv
  <2>7. HeapInv'
    BY <2>1, <2>4, <2>6, HeapMove DEF Reading
  <2> QED BY <2>5, <2>7
<1>4. CASE EnqueueAppendFails(t)
  <2>1. /\ pc[t] = "enqueue" /\ Goto(t, "idle", Nil)
        /\ FailedAppend(EnqueueRecord(walSeq + 1, NewMessage(arg[t])))
        /\ UNCHANGED <<ready, delayed, issued>>
    BY <1>4 DEF EnqueueAppendFails, Enter, Return
  <2>2. \A i \in 1..Len(file') : file'[i].rec.id \in InUse \/ file'[i].rec.id = arg[t].id
    BY <1>2, <2>1, FailedAppendIds, InUseFacts
  <2>3. Heaps' = Heaps /\ ready' \cap delayed' = {}
    BY <2>1 DEF Heaps, HeapInv
  <2>4. IdInv'
    BY <2>1, <2>2, <2>3, IdMove, InUseFacts DEF Writing
  <2>5. HeapInv'
    BY <2>1, <2>3, HeapMove DEF Reading, Writing
  <2> QED BY <2>4, <2>5
<1>5. CASE EnqueueSync(t)
  <2>1. /\ pc[t] = "enqSync" /\ Goto(t, "idle", Nil)
        /\ delayed' = delayed \cup {arg[t]}
        /\ UNCHANGED <<ready, file, issued>>
    BY <1>5 DEF EnqueueSync, Return
  <2>2. /\ pc'[t] = "idle"
        /\ \A u \in Threads : u # t => pc'[u] = pc[u] /\ pc[u] \notin Writing /\ pc[u] \notin Reading
    BY <2>1 DEF ControlOK, Goto, Exclusion, HeapInv, Writing
  <2>3. Heaps' = Heaps \cup {arg[t]} /\ arg[t] \notin Heaps
    BY <2>1 DEF Heaps, HeapInv
  <2>4. ready' \cap delayed' = {}
    BY <2>1, <2>3 DEF Heaps, HeapInv
  <2>5. IsFiniteSet(Heaps')
    BY <2>3, FS_AddElement DEF HeapInv
  <2>6. HeapInv'
    BY <2>2, <2>4, <2>5, HeapChange DEF Writing, Reading
  <2>7. \A m \in Heaps' : m.id \in InUse
    BY <2>1, <2>3, InUseFacts DEF Writing
  <2>8. IdInv'
    BY <2>1, <2>7, IdMove, InUseFacts DEF Writing
  <2> QED BY <2>6, <2>8
<1>6. CASE EnqueueSyncFails(t)
  <2>1. /\ pc[t] = "enqSync" /\ Goto(t, "idle", Nil)
        /\ UNCHANGED <<ready, delayed, file, issued>>
    BY <1>6 DEF EnqueueSyncFails, Return
  <2>2. Heaps' = Heaps /\ ready' \cap delayed' = {}
    BY <2>1 DEF Heaps, HeapInv
  <2>3. IdInv'
    BY <2>1, <2>2, IdMove, InUseFacts DEF Writing
  <2>4. HeapInv'
    BY <2>1, <2>2, HeapMove DEF Reading, Writing
  <2> QED BY <2>3, <2>4
<1> QED BY <1>1, <1>3, <1>4, <1>5, <1>6

(* The steps of Dequeue.                                                   *)
LEMMA DequeueCounts ==
  ASSUME CountInv, NEW t \in Threads,
         \/ DequeueCall(t) \/ DequeueEmpty(t)
         \/ DequeueAppend(t) \/ DequeueAppendFails(t)
         \/ DequeueSync(t) \/ DequeueSyncFails(t)
         \/ RefuseClosed(t)
  PROVE  IdInv' /\ HeapInv'
<1> USE DEF CountInv, TypeOK, memory, log, history
<1>1. ASSUME NEW label \in {"idle", "dequeue"}, Goto(t, label, Nil),
             UNCHANGED <<issued, file>>, Heaps' = Heaps, ready' \cap delayed' = {}
      PROVE  IdInv' /\ HeapInv'
  <2>1. IdInv'
    BY <1>1, IdMove, InUseFacts DEF Writing
  <2>2. HeapInv'
    BY <1>1, HeapMove DEF Reading, Writing
  <2> QED BY <2>1, <2>2
<1>2. CASE DequeueCall(t)
  BY <1>1, <1>2 DEF DequeueCall, Heaps, HeapInv
<1>3. CASE DequeueEmpty(t)
  BY <1>1, <1>3, PromoteHeaps DEF DequeueEmpty, Return
<1>4. CASE RefuseClosed(t)
  BY <1>1, <1>4 DEF RefuseClosed, Return, Heaps, HeapInv
<1>5. CASE DequeueSync(t)
  BY <1>1, <1>5 DEF DequeueSync, Return, Heaps, HeapInv
<1>6. ASSUME NEW m \in Best(mode, Visible(now))
      PROVE  /\ m \in Heaps /\ m \in Visible(now) /\ m.id \in InUse
             /\ DequeueRecord(walSeq + 1, m.id) \in Records
             /\ DequeueRecord(walSeq + 1, m.id).id = m.id
  <2>1. m \in Visible(now) /\ m \in Heaps
    BY DEF Best, Visible, Matured, Heaps
  <2>2. m \in Messages
    BY <2>1, VisibleType
  <2>3. m.id \in Ids /\ walSeq + 1 \in Nat
    BY <2>2 DEF DataOK, Messages
  <2>4. DequeueRecord(walSeq + 1, m.id) \in Records
    BY <2>3, RecordType
  <2> QED BY <2>1, <2>4, InUseFacts DEF DequeueRecord
<1>7. CASE DequeueAppend(t)
  <2>1. PICK m \in Best(mode, Visible(now)) :
          /\ ready' = Visible(now) \ {m}
          /\ Append1(DequeueRecord(walSeq + 1, m.id))
          /\ Goto(t, "deqSync", m)
    BY <1>7 DEF DequeueAppend
  <2>2. NoHolder /\ delayed' = delayed \ Matured(delayed, now) /\ issued' = issued
    BY <1>7 DEF DequeueAppend, Enter
  <2>3. /\ pc'[t] = "deqSync" /\ arg'[t] = m
        /\ \A u \in Threads : u # t => pc'[u] \notin Writing /\ pc'[u] \notin Reading
    BY <2>1, <2>2 DEF ControlOK, Goto, NoHolder, NoWriter
  <2>4. Heaps' = Heaps \ {m} /\ ready' \cap delayed' = {}
    BY <1>6, <2>1, <2>2 DEF Heaps, HeapInv, Visible, Matured
  <2>5. IsFiniteSet(Heaps')
    BY <2>4, FS_RemoveElement DEF HeapInv
  <2>6. HeapInv'
    BY <2>3, <2>4, <2>5, HeapChange DEF Writing, Reading
  <2>7. \A i \in 1..Len(file') : file'[i].rec.id \in InUse
    BY <1>6, <2>1, AppendIds, InUseFacts
  <2>8. IdInv'
    BY <1>6, <2>1, <2>2, <2>4, <2>7, IdMove, InUseFacts DEF Writing
  <2> QED BY <2>6, <2>8
<1>8. CASE DequeueAppendFails(t)
  <2>1. PICK m \in Best(mode, Visible(now)) :
          /\ ready' = Visible(now) \ {m}
          /\ delayed' = (delayed \ Matured(delayed, now)) \cup {m}
          /\ FailedAppend(DequeueRecord(walSeq + 1, m.id))
    BY <1>8 DEF DequeueAppendFails
  <2>2. Goto(t, "idle", Nil) /\ issued' = issued
    BY <1>8 DEF DequeueAppendFails, Return
  <2>3. Heaps' = Heaps /\ ready' \cap delayed' = {}
    BY <1>6, <2>1 DEF Heaps, HeapInv, Visible, Matured
  <2>4. \A i \in 1..Len(file') : file'[i].rec.id \in InUse
    BY <1>6, <2>1, FailedAppendIds, InUseFacts
  <2>5. IdInv'
    BY <2>2, <2>3, <2>4, IdMove, InUseFacts DEF Writing
  <2>6. HeapInv'
    BY <2>2, <2>3, HeapMove DEF Reading, Writing
  <2> QED BY <2>5, <2>6
<1>9. CASE DequeueSyncFails(t)
  <2>1. /\ pc[t] = "deqSync" /\ Goto(t, "idle", Nil)
        /\ delayed' = delayed \cup {arg[t]}
        /\ UNCHANGED <<ready, file, issued>>
    BY <1>9 DEF DequeueSyncFails, Return
  <2>2. /\ pc'[t] = "idle"
        /\ \A u \in Threads : u # t => pc'[u] \notin Writing /\ pc'[u] \notin Reading
    BY <2>1 DEF ControlOK, Goto, Exclusion, HeapInv, Writing
  <2>3. Heaps' = Heaps \cup {arg[t]} /\ arg[t] \notin Heaps
    BY <2>1 DEF Heaps, HeapInv
  <2>4. ready' \cap delayed' = {}
    BY <2>1, <2>3 DEF Heaps, HeapInv
  <2>5. IsFiniteSet(Heaps')
    BY <2>3, FS_AddElement DEF HeapInv
  <2>6. HeapInv'
    BY <2>2, <2>4, <2>5, HeapChange DEF Writing, Reading
  <2>7. \A m \in Heaps' : m.id \in InUse
    BY <2>1, <2>3, InUseFacts DEF Writing
  <2>8. IdInv'
    BY <2>1, <2>7, IdMove, InUseFacts DEF Writing
  <2> QED BY <2>6, <2>8
<1> QED BY <1>2, <1>3, <1>4, <1>5, <1>7, <1>8, <1>9

(* The steps of Stats and Snapshot.                                        *)
LEMMA ReadCounts ==
  ASSUME CountInv, NEW t \in Threads, Read(t)
  PROVE  IdInv' /\ HeapInv'
<1> USE DEF CountInv, TypeOK, memory, log, history
<1>1. ASSUME NEW label \in {"idle"} \cup Reading, NEW value, Goto(t, label, value),
             UNCHANGED <<issued, file>>, Heaps' = Heaps, ready' \cap delayed' = {},
             label \in Reading => NoWriter \/ pc[t] \in Reading,
             label = "statsLen" => value.total = Cardinality(Heaps)
      PROVE  IdInv' /\ HeapInv'
  <2>1. label # "enqueue" /\ label \notin Writing /\ label # "deqSync"
    BY <1>1 DEF Reading, Writing
  <2>2. IdInv'
    BY <1>1, <2>1, IdMove, InUseFacts
  <2>3. HeapInv'
    BY <1>1, <2>1, HeapMove
  <2> QED BY <2>2, <2>3
<1>2. CASE StatsCall(t)
  BY <1>1, <1>2 DEF StatsCall, Reading, Heaps, HeapInv
<1>3. CASE StatsLen(t)
  <2> DEFINE v == [now |-> arg[t].now, total |-> Cardinality(ready \cup delayed)]
  <2>1. /\ Goto(t, "statsLen", v) /\ v.total = Cardinality(Heaps) /\ pc[t] \in Reading
        /\ UNCHANGED <<ready, delayed, issued, file>>
    BY <1>3 DEF StatsLen, Heaps, Reading
  <2> HIDE DEF v
  <2> QED BY <1>1, <2>1 DEF Reading, Heaps, HeapInv
<1>4. CASE StatsAvailableLen(t)
  BY <1>1, <1>4, PromoteHeaps DEF StatsAvailableLen, Return, Reading
<1>5. CASE SnapshotCall(t)
  BY <1>1, <1>5 DEF SnapshotCall, Reading, Heaps, HeapInv
<1>6. CASE SnapshotTake(t)
  BY <1>1, <1>6, PromoteHeaps DEF SnapshotTake, Return, Reading
<1> QED BY <1>2, <1>3, <1>4, <1>5, <1>6 DEF Read

(* A replay brings back finitely many messages, with ids from the log.     *)
LEMMA LiveFinite ==
  ASSUME NEW f \in Seq(Chunks)
  PROVE  /\ IsFiniteSet(Live(f))
         /\ \A m \in Live(f) : \E i \in 1..Len(f) : m.id = f[i].rec.id
<1> DEFINE D == {j \in 1..Len(f) : LiveAt(f, j)}
           g == [i \in D |-> MessageOf(f[i].rec)]
<1>1. IsFiniteSet(D)
  <2>1. Len(f) \in Int /\ 1 \in Int
    OBVIOUS
  <2>2. IsFiniteSet(1..Len(f))
    BY <2>1, FS_Interval
  <2> QED BY <2>2, FS_Subset
<1>2. Live(f) = {MessageOf(f[i].rec) : i \in D}
  BY DEF Live
<1>3. g \in Surjection(D, Live(f))
  BY <1>2 DEF Surjection
<1>4. IsFiniteSet(Live(f))
  <2> HIDE DEF D, g
  <2> QED BY <1>1, <1>3, FS_Surjection
<1>5. \A m \in Live(f) : \E i \in 1..Len(f) : m.id = f[i].rec.id
  BY <1>2 DEF MessageOf
<1> QED BY <1>4, <1>5

(* After a crash no goroutine and no heap is left.                         *)
LEMMA VanishCounts ==
  ASSUME CountInv, Vanish,
         \A i \in 1..Len(file') : file'[i].rec.id \in InUse
  PROVE  IdInv' /\ HeapInv'
<1>1. /\ \A t \in Threads : pc'[t] = "idle"
      /\ Heaps' = {} /\ ready' \cap delayed' = {} /\ issued' = issued
  BY DEF Vanish, history, Heaps
<1>2. InUse' \subseteq InUse
  BY <1>1 DEF InUse, Writing
<1>3. IdInv'
  BY <1>1, <1>2 DEF CountInv, IdInv
<1>4. HeapInv'
  BY <1>1, HeapChange, FS_EmptySet DEF Reading
<1> QED BY <1>3, <1>4

LEMMA BootCounts ==
  ASSUME CountInv, Boot
  PROVE  IdInv' /\ HeapInv'
<1>1. /\ \A t \in Threads : pc'[t] = "idle"
      /\ Heaps' = Live(file) /\ ready' \cap delayed' = {}
      /\ UNCHANGED <<issued, file>>
  BY DEF CountInv, Exclusion, Boot, log, history, Heaps
<1>2. file \in Seq(Chunks)
  BY DEF CountInv, TypeOK, DataOK, Chunks
<1>3. InUse' \subseteq InUse
  BY <1>1, <1>2, LiveFinite DEF InUse, Writing
<1>4. IdInv'
  BY <1>1, <1>3 DEF CountInv, IdInv
<1>5. HeapInv'
  BY <1>1, <1>2, LiveFinite, HeapChange DEF Reading
<1> QED BY <1>4, <1>5

LEMMA PowerLossCounts ==
  ASSUME CountInv, PowerLoss
  PROVE  IdInv' /\ HeapInv'
<1>1. PICK n \in 0..Len(file) :
        /\ Len(file') = n
        /\ \A i \in 1..n : i < n => file'[i] = file[i]
        /\ n > 0 => file'[n].rec = file[n].rec
  BY PowerLossCut DEF CountInv
<1>2. Len(file) \in Nat
  BY DEF CountInv, TypeOK, DataOK
<1>3. \A i \in 1..n : i \in 1..Len(file) /\ (i < n \/ i = n) /\ n > 0
  BY <1>1, <1>2
<1>4. \A i \in 1..Len(file') : file'[i].rec.id \in InUse
  BY <1>1, <1>3, InUseFacts
<1> QED BY <1>4, VanishCounts DEF PowerLoss

(* Close, the clock, a refused start.                                      *)
LEMMA IdleCounts ==
  ASSUME CountInv, UNCHANGED <<ready, delayed, file, issued, pc, arg>>
  PROVE  IdInv' /\ HeapInv'
<1>1. InUse' = InUse /\ Heaps' = Heaps
  BY DEF InUse, Heaps
<1>2. IdInv'
  BY <1>1 DEF CountInv, IdInv
<1>3. HeapInv'
  BY <1>1 DEF CountInv, HeapInv
<1> QED BY <1>2, <1>3

(* Goroutines take steps only while the process runs.                      *)
LEMMA StepRunning ==
  ASSUME Exclusion, NEW t \in Threads, Write(t) \/ Read(t)
  PROVE  up = "up" /\ up' = "up"
<1>1. up' = up
  BY DEF Write, Read, EnqueueCall, EnqueueAppend, EnqueueAppendFails, EnqueueSync,
         EnqueueSyncFails, DequeueCall, DequeueEmpty, DequeueAppend, DequeueAppendFails,
         DequeueSync, DequeueSyncFails, RefuseClosed, StatsCall, StatsLen,
         StatsAvailableLen, SnapshotCall, SnapshotTake
<1>2. up = "up" \/ pc[t] # "idle"
  BY DEF Write, Read, EnqueueCall, EnqueueAppend, EnqueueAppendFails, EnqueueSync,
         EnqueueSyncFails, DequeueCall, DequeueEmpty, DequeueAppend, DequeueAppendFails,
         DequeueSync, DequeueSyncFails, RefuseClosed, StatsCall, StatsLen,
         StatsAvailableLen, SnapshotCall, SnapshotTake, Enter
<1> QED BY <1>1, <1>2, Running

LEMMA CountStep ==
  ASSUME CountInv, [Next]_vars
  PROVE  CountInv'
<1>0. TypeOK' /\ Exclusion'
  BY TypeStep DEF CountInv
<1>1. ASSUME NEW t \in Writers, Write(t) PROVE IdInv' /\ HeapInv' /\ up' = "up"
  BY <1>1, EnqueueCounts, DequeueCounts, StepRunning DEF Write, Threads, CountInv
<1>2. ASSUME NEW t \in Readers, Read(t) PROVE IdInv' /\ HeapInv' /\ up' = "up"
  BY <1>2, ReadCounts, StepRunning DEF Threads, CountInv
<1>3. CASE Close \/ BootFails \/ Clock \/ UNCHANGED vars
  <2>1. UNCHANGED <<ready, delayed, file, issued, pc, arg>>
    BY <1>3 DEF Close, BootFails, Clock, vars, memory, log, history
  <2>2. up' = up \/ up # "up"
    BY <1>3 DEF Close, BootFails, Clock, vars
  <2>3. (up # "up" => Heaps = {})'
    BY <2>1, <2>2 DEF CountInv, Heaps
  <2> QED BY <1>0, <2>1, <2>3, IdleCounts DEF CountInv
<1>4. CASE Kill
  <2>1. IdInv' /\ HeapInv'
    BY <1>4, VanishCounts, InUseFacts DEF Kill, log
  <2> QED BY <1>0, <1>4, <2>1 DEF Kill, Vanish, CountInv, Heaps
<1>5. CASE PowerLoss
  <2>1. IdInv' /\ HeapInv'
    BY <1>5, PowerLossCounts
  <2> QED BY <1>0, <1>5, <2>1 DEF PowerLoss, Vanish, CountInv, Heaps
<1>6. CASE Boot
  <2>1. IdInv' /\ HeapInv'
    BY <1>6, BootCounts
  <2> QED BY <1>0, <1>6, <2>1 DEF Boot, CountInv
<1>7. CASE (IdInv /\ HeapInv /\ up = "up")'
  BY <1>0, <1>7 DEF CountInv
<1> QED BY <1>1, <1>2, <1>3, <1>4, <1>5, <1>6, <1>7 DEF Next

LEMMA CountInit ==
  ASSUME Init
  PROVE  CountInv
<1>1. TypeOK /\ Exclusion
  BY TypeInit
<1>2. /\ \A t \in Threads : pc[t] = "idle"
      /\ Heaps = {} /\ ready \cap delayed = {} /\ Len(file) = 0
  BY DEF Init, Heaps
<1>3. IdInv
  BY <1>2 DEF IdInv, InUse, Writing
<1>4. HeapInv
  BY <1>2, FS_EmptySet DEF HeapInv, Writing
<1> QED BY <1>1, <1>2, <1>3, <1>4 DEF CountInv

LEMMA CountInvariant == Spec => []CountInv
<1>1. Init => CountInv
  BY CountInit
<1>2. CountInv /\ [Next]_vars => CountInv'
  BY CountStep
<1> QED BY <1>1, <1>2, PTL DEF Spec

(* Stats takes its two numbers in two calls of the engine, with the        *)
(* engine's mutex free in between, and they still add up: the read lock    *)
(* keeps every writer out, and other readers only promote.  Under every    *)
(* fault.                                                                  *)
THEOREM StatsAddUpTheorem == Spec => StatsAddUp
<1> DEFINE AddsUp(t) ==
      StatsAvailableLen(t) => arg[t].total = Cardinality(ready') + Cardinality(delayed')
<1>1. ASSUME CountInv, NEW t \in Threads PROVE AddsUp(t)
  <2> SUFFICES ASSUME StatsAvailableLen(t)
               PROVE  arg[t].total = Cardinality(ready') + Cardinality(delayed')
    OBVIOUS
  <2>1. Promote(arg[t].now) /\ arg[t].total = Cardinality(Heaps) /\ IsFiniteSet(Heaps)
    BY <1>1 DEF StatsAvailableLen, CountInv, HeapInv
  <2>2. Heaps = ready' \cup delayed' /\ ready' \cap delayed' = {}
    BY <1>1, <2>1, PromoteHeaps DEF CountInv, Heaps
  <2> DEFINE R == ready' D == delayed'
  <2>3. Heaps = R \cup D /\ R \cap D = {}
    BY <2>2
  <2> HIDE DEF R, D
  <2>4. R \in SUBSET Heaps /\ D \in SUBSET Heaps
    BY <2>3
  <2>5. IsFiniteSet(R) /\ IsFiniteSet(D)
    BY <2>1, <2>4, FS_Subset
  <2>6. /\ Cardinality(R \cup D) = Cardinality(R) + Cardinality(D) - Cardinality(R \cap D)
        /\ Cardinality(R) \in Nat /\ Cardinality(D) \in Nat
    BY <2>5, FS_Union, FS_CardinalityType
  <2>7. Cardinality(R \cap D) = 0
    BY <2>3, FS_EmptySet
  <2> QED BY <2>1, <2>3, <2>6, <2>7 DEF R, D
<1>2. CountInv => [\A t \in Threads : AddsUp(t)]_vars
  BY <1>1
<1> QED BY <1>2, CountInvariant, PTL DEF StatsAddUp

-----------------------------------------------------------------------------
(* The clock is not stepped back; every other fault may happen.            *)
SteadyClock == "clockBack" \notin Faults

(* What is in the ready heap is due, and readers carry a past time.        *)
DueInv ==
  /\ \A m \in ready : m.availableAt <= now
  /\ \A t \in Threads : pc[t] \in Reading => arg[t].now <= now

LEMMA AvailableMeans ==
  ASSUME NEW m \in Messages, NEW at \in Nat
  PROVE  Available(m, at) <=> m.availableAt <= at
  BY DEF Available, Messages

(* Promotion at a time that has come keeps the ready heap due.             *)
LEMMA VisibleDue ==
  ASSUME TypeOK, DueInv, NEW at \in Nat, at <= now
  PROVE  \A m \in Visible(at) : m \in Messages /\ m.availableAt <= now
<1> SUFFICES ASSUME NEW m \in Visible(at) PROVE m \in Messages /\ m.availableAt <= now
  OBVIOUS
<1>1. m \in Messages
  BY VisibleType DEF TypeOK
<1>2. CASE m \in ready
  BY <1>1, <1>2 DEF DueInv
<1>3. CASE m \in Matured(delayed, at)
  <2>1. Available(m, at)
    BY <1>3 DEF Matured
  <2>2. m.availableAt <= at
    BY <1>1, <2>1, AvailableMeans
  <2>3. now \in Nat /\ m.availableAt \in Int
    BY <1>1 DEF TypeOK, DataOK, Messages
  <2> QED BY <1>1, <2>2, <2>3
<1> QED BY <1>2, <1>3 DEF Visible

(* A goroutine moves on; if into a read section, with a past time.         *)
LEMMA DueMove ==
  ASSUME TypeOK, DueInv, NEW t \in Threads, NEW label, NEW value,
         Goto(t, label, value), now' = now,
         \A m \in ready' : m.availableAt <= now,
         label \in Reading => value.now <= now
  PROVE  DueInv'
<1>1. /\ pc'[t] = label /\ arg'[t] = value
      /\ \A u \in Threads : u # t => pc'[u] = pc[u] /\ arg'[u] = arg[u]
  BY DEF TypeOK, ControlOK, Goto
<1> QED BY <1>1 DEF DueInv

LEMMA WriteDue ==
  ASSUME TypeOK, DueInv, NEW t \in Threads, Write(t)
  PROVE  DueInv'
<1> USE DEF memory
<1>0. now \in Nat /\ now <= now
  BY DEF TypeOK, DataOK
<1>1. now' = now
  BY DEF Write, EnqueueCall, EnqueueAppend, EnqueueAppendFails, EnqueueSync,
         EnqueueSyncFails, DequeueCall, DequeueEmpty, DequeueAppend, DequeueAppendFails,
         DequeueSync, DequeueSyncFails, RefuseClosed
<1>2. \E label \in Labels \ Reading : \E value : Goto(t, label, value)
  BY DEF Labels, Reading, Writing, Return, Write, EnqueueCall, EnqueueAppend,
         EnqueueAppendFails, EnqueueSync, EnqueueSyncFails, DequeueCall, DequeueEmpty,
         DequeueAppend, DequeueAppendFails, DequeueSync, DequeueSyncFails, RefuseClosed
<1>3. ready' = ready \/ ready' \subseteq Visible(now)
  BY DEF Write, EnqueueCall, EnqueueAppend, EnqueueAppendFails, EnqueueSync,
         EnqueueSyncFails, DequeueCall, DequeueEmpty, DequeueAppend, DequeueAppendFails,
         DequeueSync, DequeueSyncFails, RefuseClosed, Promote
<1>4. \A m \in ready' : m.availableAt <= now
  BY <1>0, <1>3, VisibleDue DEF DueInv
<1> QED BY <1>1, <1>2, <1>4, DueMove

LEMMA ReadDue ==
  ASSUME TypeOK, DueInv, NEW t \in Threads, Read(t)
  PROVE  DueInv'
<1> USE DEF memory
<1>1. now \in Nat /\ now' = now
  BY DEF TypeOK, DataOK, Read, StatsCall, StatsLen, StatsAvailableLen, SnapshotCall, SnapshotTake
<1>2. pc[t] \in Reading => arg[t].now \in Nat /\ arg[t].now <= now
  BY DEF TypeOK, ControlOK, ArgOK, Reading, DueInv
<1>3. CASE StatsCall(t) \/ SnapshotCall(t)
  <2>1. /\ \E label \in Labels : Goto(t, label, [now |-> now])
        /\ ready' = ready
    BY <1>3 DEF StatsCall, SnapshotCall, Labels, Reading
  <2> QED BY <1>1, <2>1, DueMove DEF DueInv
<1>4. CASE StatsLen(t)
  <2> DEFINE v == [now |-> arg[t].now, total |-> Cardinality(ready \cup delayed)]
  <2>1. Goto(t, "statsLen", v) /\ v.now = arg[t].now /\ pc[t] \in Reading /\ ready' = ready
    BY <1>4 DEF StatsLen, Reading
  <2> HIDE DEF v
  <2> QED BY <1>1, <1>2, <2>1, DueMove DEF DueInv
<1>5. CASE StatsAvailableLen(t) \/ SnapshotTake(t)
  <2>1. Goto(t, "idle", Nil) /\ pc[t] \in Reading /\ ready' = Visible(arg[t].now)
    BY <1>5 DEF StatsAvailableLen, SnapshotTake, Return, Reading, Promote
  <2>2. \A m \in ready' : m.availableAt <= now
    BY <1>2, <2>1, VisibleDue
  <2> QED BY <1>1, <2>1, <2>2, DueMove DEF Reading
<1> QED BY <1>3, <1>4, <1>5 DEF Read

LEMMA DueStep ==
  ASSUME SteadyClock, TypeOK, Exclusion, DueInv, (up # "up" => Heaps = {}), [Next]_vars
  PROVE  DueInv'
<1>1. ASSUME NEW t \in Writers, Write(t) PROVE DueInv'
  BY <1>1, WriteDue DEF Threads
<1>2. ASSUME NEW t \in Readers, Read(t) PROVE DueInv'
  BY <1>2, ReadDue DEF Threads
<1>3. CASE Close \/ BootFails \/ UNCHANGED vars
  BY <1>3 DEF Close, BootFails, vars, memory, DueInv
<1>4. CASE Kill \/ PowerLoss
  BY <1>4 DEF Kill, PowerLoss, Vanish, DueInv, Reading
<1>5. CASE Boot
  BY <1>5 DEF Boot, DueInv, Exclusion, Reading, Heaps
<1>6. CASE Clock
  <2>1. now \in Nat /\ now' = now + 1 /\ UNCHANGED <<ready, pc, arg>>
    BY <1>6 DEF SteadyClock, Clock, Tick, ClockBack, TypeOK, DataOK, memory
  <2>2. \A m \in ready : m.availableAt \in Int
    BY DEF TypeOK, DataOK, Messages
  <2>3. \A t \in Threads : pc[t] \in Reading => arg[t].now \in Nat
    BY DEF TypeOK, ControlOK, ArgOK, Reading
  <2> QED BY <2>1, <2>2, <2>3 DEF DueInv
<1> QED BY <1>1, <1>2, <1>3, <1>4, <1>5, <1>6 DEF Next

LEMMA DueInvariant == SteadyClock => (Spec => [](CountInv /\ DueInv))
<1> SUFFICES ASSUME SteadyClock PROVE Spec => [](CountInv /\ DueInv)
  OBVIOUS
<1>1. Init => CountInv /\ DueInv
  BY CountInit DEF Init, DueInv, Reading
<1>2. CountInv /\ DueInv /\ [Next]_vars => (CountInv /\ DueInv)'
  BY CountStep, DueStep DEF CountInv
<1> QED BY <1>1, <1>2, PTL DEF Spec

(* With a clock that only moves forward, Dequeue takes no message before   *)
(* its time and Snapshot lists none as ready: a reader that promotes with  *)
(* an old clock reading, or a replay after a crash, brings nothing forward.*)
THEOREM NeverEarlyTheorem == SteadyClock => (Spec => NeverEarly)
<1> SUFFICES ASSUME SteadyClock PROVE Spec => NeverEarly
  OBVIOUS
<1> DEFINE OnTime(t) ==
      /\ DequeueAppend(t) => arg'[t].availableAt <= now
      /\ SnapshotTake(t) => \A m \in ready' : m.availableAt <= now
<1>1. ASSUME CountInv, DueInv, NEW t \in Threads PROVE OnTime(t)
  <2>0. TypeOK /\ now \in Nat /\ now <= now
    BY <1>1 DEF CountInv, TypeOK, DataOK
  <2>1. ASSUME DequeueAppend(t) PROVE arg'[t].availableAt <= now
    <3>1. PICK m \in Best(mode, Visible(now)) : Goto(t, "deqSync", m)
      BY <2>1 DEF DequeueAppend
    <3>2. arg'[t] = m /\ m \in Visible(now)
      BY <2>0, <3>1 DEF Goto, TypeOK, ControlOK, Best
    <3>3. m \in Messages /\ m.availableAt <= now
      BY <1>1, <2>0, <3>2, VisibleDue
    <3> QED BY <3>2, <3>3
  <2>2. ASSUME SnapshotTake(t) PROVE \A m \in ready' : m.availableAt <= now
    <3>1. pc[t] = "snapshot" /\ ready' = Visible(arg[t].now)
      BY <2>2 DEF SnapshotTake, Promote
    <3>2. arg[t].now \in Nat /\ arg[t].now <= now
      BY <1>1, <2>0, <3>1 DEF TypeOK, ControlOK, ArgOK, DueInv, Reading
    <3> QED BY <1>1, <2>0, <3>1, <3>2, VisibleDue
  <2> QED BY <2>1, <2>2
<1>2. CountInv /\ DueInv => [\A t \in Threads : OnTime(t)]_vars
  BY <1>1
<1> QED BY <1>2, DueInvariant, PTL DEF NeverEarly

-----------------------------------------------------------------------------
(* The log after fragments: what it says of the history of an id.  An id   *)
(* has one ENQUEUE chunk, whole or not, its tombstones follow, and a       *)
(* tombstone that a replay may obey is one the history knows of, unless    *)
(* the ENQUEUE itself is damaged.                                          *)
Inserted(f, i, id) == f[i].rec.op = "ENQUEUE" /\ f[i].rec.id = id
Tombstone(f, i, id) == f[i].rec.op = "DEQUEUE" /\ f[i].rec.id = id

Tidy(f, known) ==
  /\ \A i, j \in 1..Len(f) :
       f[i].rec.op = "ENQUEUE" /\ Inserted(f, j, f[i].rec.id) => i = j
  /\ \A j \in 1..Len(f) : f[j].rec.op = "DEQUEUE" =>
       \E i \in 1..(j - 1) : Inserted(f, i, f[j].rec.id)
  /\ \A i, j \in 1..Len(f) :
       /\ f[i].rec.op = "ENQUEUE" /\ Tombstone(f, j, f[i].rec.id)
       /\ Line(f, i) /\ Begins(f, j)
       => f[i].rec.id \in known

(* Chunk i is the ENQUEUE of message m.                                    *)
Stores(f, i, m) == f[i].rec.op = "ENQUEUE" /\ MessageOf(f[i].rec) = m

(* What was promised to a client is on the platter, in whole lines.        *)
PlatterInv ==
  /\ \A m \in acked :
       \E i \in 1..synced : file[i].part = "whole" /\ Stores(file, i, m)
  /\ \A id \in Ids : deliveries[id] > 0 =>
       \E i \in 1..synced : file[i].part = "whole" /\ Tombstone(file, i, id)

(* What is in memory is in the file, and a goroutine about to sync has     *)
(* written the last chunk of it.                                           *)
InFile(f, m) == \E i \in 1..Len(f) : Stores(f, i, m)

PendingOK(t) ==
  /\ pc[t] = "enqSync" =>
       /\ Len(file) > 0 /\ file[Len(file)].part = "whole"
       /\ Stores(file, Len(file), arg[t])
  /\ pc[t] = "deqSync" =>
       /\ Len(file) > 0 /\ file[Len(file)].part = "whole"
       /\ Tombstone(file, Len(file), arg[t].id)
       /\ InFile(file, arg[t])

WrittenInv ==
  (\A m \in Heaps : InFile(file, m)) /\ (\A t \in Threads : PendingOK(t))

DamageInv == Tidy(file, popped) /\ PlatterInv /\ WrittenInv

(* What an appended chunk, and the prefix it leaves alone, look like.      *)
LEMMA AppendedLines ==
  ASSUME NEW f \in Seq(Chunks), NEW rec \in Records, NEW part \in Parts,
         NEW g, g = Append(f, Chunk(rec, part))
  PROVE  /\ Len(f) \in Nat /\ Len(g) = Len(f) + 1
         /\ g[Len(f) + 1].rec = rec /\ g[Len(f) + 1].part = part
         /\ \A i \in 1..Len(g) : i \in 1..Len(f) \/ i = Len(f) + 1
         /\ \A i \in 1..Len(f) : /\ i \in 1..Len(g) /\ g[i] = f[i]
                                 /\ Line(g, i) <=> Line(f, i)
                                 /\ Begins(g, i) <=> Begins(f, i)
<1>1. /\ Len(f) \in Nat /\ Len(g) = Len(f) + 1
      /\ g[Len(f) + 1].rec = rec /\ g[Len(f) + 1].part = part
      /\ \A i \in 1..Len(f) : g[i] = f[i]
  BY GrownFile
<1>2. \A i \in 1..Len(f) : i > 1 => i - 1 \in 1..Len(f)
  BY <1>1
<1>3. \A i \in 1..Len(f) : (Line(g, i) <=> Line(f, i)) /\ (Begins(g, i) <=> Begins(f, i))
  BY <1>1, <1>2 DEF Line, Begins
<1> QED BY <1>1, <1>3

(* A chunk is appended: an ENQUEUE of a new id, or a tombstone of an id    *)
(* that is in the file.                                                    *)
LEMMA TidyAppend ==
  ASSUME NEW f \in Seq(Chunks), NEW rec \in Records, NEW part \in Parts,
         NEW g, g = Append(f, Chunk(rec, part)),
         NEW old, NEW known, old \subseteq known, Tidy(f, old),
         rec.op = "ENQUEUE" => \A i \in 1..Len(f) : f[i].rec.id # rec.id,
         rec.op = "DEQUEUE" => \E i \in 1..Len(f) : Inserted(f, i, rec.id),
         \A i \in 1..Len(f) :
           /\ rec.op = "DEQUEUE" /\ Inserted(f, i, rec.id)
           /\ Line(f, i) /\ Begins(g, Len(f) + 1)
           => rec.id \in known
  PROVE  Tidy(g, known)
<1> DEFINE n == Len(f)
<1>0a. /\ n \in Nat /\ Len(g) = n + 1 /\ g[n + 1].rec = rec
       /\ \A i \in 1..Len(g) : i \in 1..n \/ i = n + 1
       /\ \A i \in 1..n : g[i] = f[i]
  BY AppendedLines
<1>0b. \A i \in 1..n : Line(g, i) <=> Line(f, i)
  BY AppendedLines
<1>0c. \A i \in 1..n : Begins(g, i) <=> Begins(f, i)
  BY AppendedLines
<1>0. /\ n \in Nat /\ Len(g) = n + 1 /\ g[n + 1].rec = rec
      /\ \A i \in 1..Len(g) : i \in 1..n \/ i = n + 1
      /\ \A i \in 1..n : /\ g[i] = f[i]
                         /\ Line(g, i) <=> Line(f, i)
                         /\ Begins(g, i) <=> Begins(f, i)
  BY <1>0a, <1>0b, <1>0c
<1>1. rec.op \in {"ENQUEUE", "DEQUEUE"}
  BY DEF Records
<1>2. ASSUME NEW i \in 1..Len(g), NEW j \in 1..Len(g), g[i].rec.op = "ENQUEUE",
             Inserted(g, j, g[i].rec.id)
      PROVE  i = j
  BY <1>0, <1>2 DEF Tidy, Inserted
<1>3. ASSUME NEW j \in 1..Len(g), g[j].rec.op = "DEQUEUE"
      PROVE  \E i \in 1..(j - 1) : Inserted(g, i, g[j].rec.id)
  <2>1. CASE j \in 1..n
    <3>1. PICK i \in 1..(j - 1) : Inserted(f, i, f[j].rec.id)
      BY <1>0, <1>3, <2>1 DEF Tidy
    <3>2. i \in 1..n
      BY <1>0, <2>1
    <3> QED BY <1>0, <2>1, <3>1, <3>2 DEF Inserted
  <2>2. CASE j = n + 1
    <3>1. PICK i \in 1..n : Inserted(f, i, rec.id)
      BY <1>0, <1>3, <2>2
    <3> QED BY <1>0, <2>2, <3>1 DEF Inserted
  <2> QED BY <1>0, <2>1, <2>2
<1>4. ASSUME NEW i \in 1..Len(g), NEW j \in 1..Len(g), g[i].rec.op = "ENQUEUE",
             Tombstone(g, j, g[i].rec.id), Line(g, i), Begins(g, j)
      PROVE  g[i].rec.id \in known
  <2>1. CASE i \in 1..n /\ j \in 1..n
    BY <1>0, <1>4, <2>1 DEF Tidy, Tombstone
  <2>2. CASE i \in 1..n /\ j = n + 1
    BY <1>0, <1>4, <2>2 DEF Tombstone, Inserted
  <2>3. CASE i = n + 1 /\ j \in 1..n
    BY <1>0, <1>4, <2>3 DEF Tombstone
  <2>4. CASE i = n + 1 /\ j = n + 1
    BY <1>0, <1>4, <2>4 DEF Tombstone
  <2> QED BY <1>0, <2>1, <2>2, <2>3, <2>4
<1> QED BY <1>2, <1>3, <1>4 DEF Tidy

(* The machine dies: fewer chunks, the last one perhaps a fragment.        *)
LEMMA TidyCut ==
  ASSUME NEW f \in Seq(Chunks), NEW n \in 0..Len(f), NEW g, NEW known, Tidy(f, known),
         Len(g) = n,
         \A i \in 1..n : /\ g[i].rec = f[i].rec
                         /\ g[i].part # "torn" => f[i].part # "torn"
                         /\ g[i].part = "whole" => f[i].part = "whole"
  PROVE  Tidy(g, known)
<1>0. Len(f) \in Nat /\ n \in Nat
  OBVIOUS
<1>1. \A i \in 1..n : i \in 1..Len(f) /\ (i > 1 => i - 1 \in 1..n)
  BY <1>0
<1>2. \A i \in 1..n : (Line(g, i) => Line(f, i)) /\ (Begins(g, i) => Begins(f, i))
  BY <1>1 DEF Line, Begins
<1>3. ASSUME NEW j \in 1..n, g[j].rec.op = "DEQUEUE"
      PROVE  \E i \in 1..(j - 1) : Inserted(g, i, g[j].rec.id)
  <2>1. PICK i \in 1..(j - 1) : Inserted(f, i, f[j].rec.id)
    BY <1>1, <1>3 DEF Tidy
  <2>2. i \in 1..n
    BY <1>0
  <2> QED BY <2>1, <2>2 DEF Inserted
<1>4. \A i, j \in 1..n : g[i].rec.op = "ENQUEUE" /\ Inserted(g, j, g[i].rec.id) => i = j
  BY <1>1 DEF Tidy, Inserted
<1>5. \A i, j \in 1..n : /\ g[i].rec.op = "ENQUEUE" /\ Tombstone(g, j, g[i].rec.id)
                         /\ Line(g, i) /\ Begins(g, j)
                         => g[i].rec.id \in known
  BY <1>1, <1>2 DEF Tidy, Tombstone
<1> QED BY <1>3, <1>4, <1>5 DEF Tidy

(* A tombstone whose write failed and yet left a complete line: if a       *)
(* replay gives the same messages as before, the id was popped earlier.    *)
LEMMA LeftoverTombstone ==
  ASSUME NEW f \in Seq(Chunks), NEW rec \in Records, NEW part \in Parts,
         NEW g, g = Append(f, Chunk(rec, part)), NEW known, Tidy(f, known),
         rec.op = "DEQUEUE", rec.id # Nil, Begins(g, Len(f) + 1),
         Live(g) = Live(f),
         NEW i \in 1..Len(f), Inserted(f, i, rec.id), Line(f, i)
  PROVE  rec.id \in known
<1> DEFINE n == Len(f)
<1>0. /\ n \in Nat /\ Len(g) = n + 1 /\ g[n + 1].rec = rec
      /\ \A k \in 1..Len(g) : k \in 1..n \/ k = n + 1
      /\ \A k \in 1..n : g[k] = f[k]
  BY AppendedLines
<1>1. Sound(g, n + 1)
  BY <1>0 DEF Begins, Sound
<1>2. ~LiveAt(f, i)
  <2> SUFFICES ASSUME LiveAt(f, i) PROVE FALSE
    OBVIOUS
  <2>1. MessageOf(f[i].rec) \in Live(g)
    BY DEF Live
  <2>2. PICK k \in 1..Len(g) :
          LiveAt(g, k) /\ MessageOf(f[i].rec) = MessageOf(g[k].rec)
    BY <2>1 DEF Live
  <2>3. g[k].rec.id = rec.id /\ g[k].rec.op = "ENQUEUE"
    BY <2>2 DEF MessageOf, Inserted, LiveAt, Enqueues
  <2>4. k \in 1..n
    BY <1>0, <2>3
  <2>5. Dequeues(g, n + 1, rec.id) /\ n + 1 \in (k + 1)..Len(g)
    BY <1>0, <1>1, <2>4 DEF Dequeues
  <2> QED BY <2>2, <2>3, <2>5 DEF LiveAt
<1>3. Sound(f, i)
  BY DEF Line, Begins, Sound
<1>4. \A k \in 1..(i - 1) : ~Enqueues(f, k, rec.id)
  BY <1>0 DEF Enqueues, Tidy, Inserted
<1>5. PICK j \in (i + 1)..n : Dequeues(f, j, rec.id)
  BY <1>2, <1>3, <1>4 DEF LiveAt, Enqueues, Inserted
<1>6. Begins(f, j) /\ Tombstone(f, j, rec.id) /\ j \in 1..n
  BY <1>0, <1>5 DEF Dequeues, Sound, Begins, Tombstone
<1> QED BY <1>6 DEF Tidy, Inserted

LEMMA StoresInserted ==
  ASSUME NEW f, NEW i, NEW m, Stores(f, i, m)
  PROVE  Inserted(f, i, m.id)
  BY DEF Stores, Inserted, MessageOf

LEMMA RecordRoundTrip ==
  ASSUME NEW m \in Messages, m.seq # 0, NEW n \in Nat
  PROVE  /\ EnqueueRecord(n, m).op = "ENQUEUE"
         /\ EnqueueRecord(n, m).id = m.id
         /\ MessageOf(EnqueueRecord(n, m)) = m
  BY NilAssumption DEF MessageOf, EnqueueRecord, Messages, Deref

(* What is on the platter stays there.                                     *)
LEMMA PlatterKept ==
  ASSUME TypeOK, PlatterInv, synced' \in Nat, synced <= synced',
         \A i \in 1..synced : /\ file'[i].rec = file[i].rec
                              /\ file[i].part = "whole" => file'[i].part = "whole",
         UNCHANGED <<acked, deliveries>>
  PROVE  PlatterInv'
<1>1. synced \in Nat /\ \A i \in 1..synced : i \in 1..synced'
  BY DEF TypeOK, DataOK
<1>2. ASSUME NEW m \in acked
      PROVE  \E i \in 1..synced' : file'[i].part = "whole" /\ Stores(file', i, m)
  <2>1. PICK i \in 1..synced : file[i].part = "whole" /\ Stores(file, i, m)
    BY DEF PlatterInv
  <2> QED BY <1>1, <2>1 DEF Stores
<1>3. ASSUME NEW id \in Ids, deliveries[id] > 0
      PROVE  \E i \in 1..synced' : file'[i].part = "whole" /\ Tombstone(file', i, id)
  <2>1. PICK i \in 1..synced : file[i].part = "whole" /\ Tombstone(file, i, id)
    BY <1>3 DEF PlatterInv
  <2> QED BY <1>1, <2>1 DEF Tombstone
<1> QED BY <1>2, <1>3 DEF PlatterInv, Stores, Tombstone

(* A goroutine moves outside the write sections and leaves the log alone.  *)
LEMMA QuietDamage ==
  ASSUME CountInv, DamageInv, NEW t \in Threads, NEW label, NEW value,
         Goto(t, label, value), label \notin Writing,
         UNCHANGED <<file, synced, acked, popped, deliveries>>,
         \A m \in Heaps' : InFile(file, m)
  PROVE  DamageInv'
<1>1. /\ pc'[t] = label /\ arg'[t] = value
      /\ \A u \in Threads : u # t => pc'[u] = pc[u] /\ arg'[u] = arg[u]
  BY DEF CountInv, TypeOK, ControlOK, Goto
<1>2. \A u \in Threads : PendingOK(u)'
  BY <1>1 DEF DamageInv, WrittenInv, PendingOK, Writing, Stores, Tombstone, InFile
<1>3. \A m \in Heaps' : InFile(file', m)
  BY DEF InFile, Stores
<1>4. Tidy(file, popped)' /\ PlatterInv'
  BY DEF DamageInv, PlatterInv, Tidy, Inserted, Tombstone, Line, Begins, Stores
<1> QED BY <1>2, <1>3, <1>4 DEF DamageInv, WrittenInv

(* A goroutine with the lock appends a chunk, and stays in its section if  *)
(* the whole record is there.                                              *)
LEMMA AppendDamage ==
  ASSUME CountInv, DamageInv, NEW t \in Threads, NoHolder,
         NEW label \in {"idle"} \cup Writing, NEW value, Goto(t, label, value),
         NEW rec \in Records, NEW part \in Parts,
         file' = Append(file, Chunk(rec, part)),
         UNCHANGED <<synced, acked, deliveries>>, popped \subseteq popped',
         Heaps' \subseteq Heaps,
         rec.op = "ENQUEUE" => \A i \in 1..Len(file) : file[i].rec.id # rec.id,
         rec.op = "DEQUEUE" => \E i \in 1..Len(file) : Inserted(file, i, rec.id),
         \A i \in 1..Len(file) :
           /\ rec.op = "DEQUEUE" /\ Inserted(file, i, rec.id)
           /\ Line(file, i) /\ Begins(file', Len(file) + 1)
           => rec.id \in popped',
         label \in Writing => part = "whole",
         label = "enqSync" => rec.op = "ENQUEUE" /\ MessageOf(rec) = value,
         label = "deqSync" => rec.op = "DEQUEUE" /\ rec.id = value.id /\ InFile(file, value)
  PROVE  DamageInv'
<1>0. file \in Seq(Chunks) /\ synced \in 0..Len(file) /\ Len(file) \in Nat
  BY DEF CountInv, TypeOK, DataOK, Chunks
<1>1. PICK g : g = file'
  OBVIOUS
<1>2. PICK known : known = popped'
  OBVIOUS
<1>3. /\ Len(g) = Len(file) + 1
      /\ g[Len(file) + 1].rec = rec /\ g[Len(file) + 1].part = part
      /\ \A i \in 1..Len(file) : i \in 1..Len(g) /\ g[i] = file[i]
  BY <1>0, <1>1, AppendedLines
<1>4. Tidy(g, known)
  BY <1>0, <1>1, <1>2, TidyAppend DEF DamageInv
<1>5. \A i \in 1..synced : i \in 1..Len(file)
  BY <1>0
<1>6. PlatterInv'
  <2>1. \A i \in 1..synced : file'[i].rec = file[i].rec /\ file'[i].part = file[i].part
    BY <1>1, <1>3, <1>5
  <2>2. synced' \in Nat /\ synced <= synced'
    BY <1>0
  <2> QED BY <2>1, <2>2, PlatterKept DEF CountInv, DamageInv
<1>7. \A m : InFile(file, m) => InFile(g, m)
  BY <1>3 DEF InFile, Stores
<1>8. /\ pc'[t] = label /\ arg'[t] = value
      /\ \A u \in Threads : u # t => pc'[u] = pc[u] /\ pc[u] \notin Writing
  BY DEF CountInv, TypeOK, ControlOK, Goto, NoHolder, NoWriter
<1>9. ASSUME NEW u \in Threads PROVE PendingOK(u)'
  <2>1. CASE u # t
    BY <1>8, <2>1 DEF PendingOK, Writing
  <2>2. CASE u = t
    <3>1. Len(g) > 0 /\ Len(g) = Len(file) + 1
      BY <1>0, <1>3
    <3>2. label = "enqSync" => Stores(g, Len(g), value) /\ g[Len(g)].part = "whole"
      BY <1>3 DEF Stores, Writing
    <3>3. label = "deqSync" =>
            Tombstone(g, Len(g), value.id) /\ g[Len(g)].part = "whole" /\ InFile(g, value)
      BY <1>3, <1>7 DEF Tombstone, Writing
    <3> QED BY <1>1, <1>8, <2>2, <3>1, <3>2, <3>3
            DEF PendingOK, Stores, Tombstone, InFile
  <2> QED BY <2>1, <2>2
<1>10. \A m \in Heaps' : InFile(g, m)
  BY <1>7 DEF DamageInv, WrittenInv
<1>11. WrittenInv'
  BY <1>1, <1>9, <1>10 DEF WrittenInv, InFile, Stores
<1>12. Tidy(file, popped)'
  BY <1>1, <1>2, <1>4 DEF Tidy, Inserted, Tombstone, Line, Begins
<1> QED BY <1>6, <1>11, <1>12 DEF DamageInv

-----------------------------------------------------------------------------
(* The steps of Enqueue: the record has an id that is nowhere in the file. *)
LEMMA EnqueueDamage ==
  ASSUME CountInv, DamageInv, NEW t \in Threads,
         \/ \E req \in Requests, id \in Ids : EnqueueCall(t, req, id)
         \/ EnqueueAppend(t) \/ EnqueueAppendFails(t)
         \/ EnqueueSync(t) \/ EnqueueSyncFails(t)
  PROVE  DamageInv'
<1> USE DEF memory, log, history
<1>0. file \in Seq(Chunks) /\ synced \in 0..Len(file) /\ Len(file) \in Nat
  BY DEF CountInv, TypeOK, DataOK, Chunks
<1>1. \A m \in Heaps : InFile(file, m)
  BY DEF DamageInv, WrittenInv
<1>2. CASE \E req \in Requests, id \in Ids : EnqueueCall(t, req, id)
  <2>1. /\ \E value : Goto(t, "enqueue", value)
        /\ UNCHANGED <<file, synced, acked, popped, deliveries, ready, delayed>>
    BY <1>2 DEF EnqueueCall
  <2> QED BY <1>1, <2>1, QuietDamage DEF Heaps, Writing
<1>3. CASE EnqueueSyncFails(t)
  <2>1. /\ Goto(t, "idle", Nil)
        /\ UNCHANGED <<file, synced, acked, popped, deliveries, ready, delayed>>
    BY <1>3 DEF EnqueueSyncFails, Return
  <2> QED BY <1>1, <2>1, QuietDamage DEF Heaps, Writing
<1>4. CASE EnqueueAppend(t) \/ EnqueueAppendFails(t)
  <2>0. PICK m : m = NewMessage(arg[t])
    OBVIOUS
  <2>1. PICK rec : rec = EnqueueRecord(walSeq + 1, m)
    OBVIOUS
  <2>2. pc[t] = "enqueue" /\ NoHolder
    BY <1>4 DEF EnqueueAppend, EnqueueAppendFails, Enter
  <2>3. m \in Messages /\ m.seq # 0 /\ m.id = arg[t].id
    <3>1. arg[t] \in [id : Ids, priority : Int, delay : 0..MaxDelaySeconds]
      BY <2>2 DEF CountInv, TypeOK, ControlOK, ArgOK
    <3>2. now \in Nat /\ seq \in Nat
      BY DEF CountInv, TypeOK, DataOK
    <3> QED BY <2>0, <3>1, <3>2, NewMessageType
  <2>4. walSeq + 1 \in Nat
    BY DEF CountInv, TypeOK, DataOK
  <2>5. rec \in Records /\ rec.op = "ENQUEUE" /\ rec.id = arg[t].id /\ MessageOf(rec) = m
    BY <2>1, <2>3, <2>4, RecordRoundTrip, RecordType
  <2>6. \A i \in 1..Len(file) : file[i].rec.id # rec.id
    BY <2>2, <2>5, InUseFacts DEF CountInv, IdInv
  <2>7. UNCHANGED <<synced, acked, popped, deliveries, ready, delayed>>
    BY <1>4 DEF EnqueueAppend, EnqueueAppendFails
  <2>8. CASE EnqueueAppend(t)
    <3>1. file' = Append(file, Chunk(rec, "whole")) /\ Goto(t, "enqSync", m)
      BY <2>0, <2>1, <2>8 DEF EnqueueAppend, Append1
    <3> QED BY <2>2, <2>5, <2>6, <2>7, <3>1, AppendDamage DEF Heaps, Writing, Parts
  <2>9. CASE EnqueueAppendFails(t)
    <3>1. Goto(t, "idle", Nil) /\ FailedAppend(rec)
      BY <2>0, <2>1, <2>9 DEF EnqueueAppendFails, Return
    <3>2. CASE file' = file
      BY <1>1, <2>7, <3>1, <3>2, QuietDamage DEF Heaps, Writing
    <3>3. CASE \E part \in Fragments("whole") : file' = Append(file, Chunk(rec, part))
      <4>1. PICK part \in Parts : file' = Append(file, Chunk(rec, part))
        BY <3>3 DEF Fragments, Parts
      <4> QED BY <2>2, <2>5, <2>6, <2>7, <3>1, <4>1, AppendDamage DEF Heaps, Writing
    <3> QED BY <3>1, <3>2, <3>3 DEF FailedAppend
  <2> QED BY <1>4, <2>8, <2>9
<1>5. CASE EnqueueSync(t)
  <2>1. /\ pc[t] = "enqSync" /\ Goto(t, "idle", Nil) /\ synced' = Len(file)
        /\ delayed' = delayed \cup {arg[t]} /\ acked' = acked \cup {arg[t]}
        /\ UNCHANGED <<ready, file, popped, deliveries>>
    BY <1>5 DEF EnqueueSync, Return
  <2>2. /\ Len(file) \in 1..Len(file) /\ file[Len(file)].part = "whole"
        /\ Stores(file, Len(file), arg[t])
    BY <1>0, <2>1 DEF DamageInv, WrittenInv, PendingOK
  <2>3. \A i \in 1..synced : i \in 1..Len(file)
    BY <1>0
  <2>4. PlatterInv'
    <3>1. ASSUME NEW m \in acked'
          PROVE  \E i \in 1..Len(file) : file[i].part = "whole" /\ Stores(file, i, m)
      BY <2>1, <2>2, <2>3 DEF DamageInv, PlatterInv
    <3>2. ASSUME NEW id \in Ids, deliveries[id] > 0
          PROVE  \E i \in 1..Len(file) : file[i].part = "whole" /\ Tombstone(file, i, id)
      BY <2>3, <3>2 DEF DamageInv, PlatterInv
    <3> QED BY <2>1, <3>1, <3>2 DEF PlatterInv, Stores, Tombstone
  <2>5. \A m \in Heaps' : InFile(file, m)
    BY <1>1, <2>1, <2>2 DEF Heaps, InFile
  <2>6. /\ pc'[t] = "idle"
        /\ \A u \in Threads : u # t => pc'[u] = pc[u] /\ pc[u] \notin Writing
    BY <2>1 DEF CountInv, TypeOK, ControlOK, Goto, Exclusion, Writing
  <2>7. WrittenInv'
    BY <2>1, <2>5, <2>6 DEF WrittenInv, PendingOK, Writing, InFile, Stores
  <2>8. Tidy(file, popped)'
    BY <2>1 DEF DamageInv, Tidy, Inserted, Tombstone, Line, Begins
  <2> QED BY <2>4, <2>7, <2>8 DEF DamageInv
<1> QED BY <1>2, <1>3, <1>4, <1>5

(* The steps of Dequeue: the tombstone is of a message from the heaps,     *)
(* whose ENQUEUE is in the file.                                           *)
LEMMA DequeueDamage ==
  ASSUME CountInv, DamageInv, NEW t \in Threads,
         \/ DequeueCall(t) \/ DequeueEmpty(t)
         \/ DequeueAppend(t) \/ DequeueAppendFails(t)
         \/ DequeueSync(t) \/ DequeueSyncFails(t)
         \/ RefuseClosed(t)
  PROVE  DamageInv'
<1> USE DEF memory, log, history
<1>0. file \in Seq(Chunks) /\ synced \in 0..Len(file) /\ Len(file) \in Nat
  BY DEF CountInv, TypeOK, DataOK, Chunks
<1>1. \A m \in Heaps : InFile(file, m)
  BY DEF DamageInv, WrittenInv
<1>2. CASE DequeueCall(t) \/ DequeueEmpty(t) \/ RefuseClosed(t)
  <2>1. /\ \E label \in {"idle", "dequeue"} : Goto(t, label, Nil)
        /\ UNCHANGED <<file, synced, acked, popped, deliveries>>
    BY <1>2 DEF DequeueCall, DequeueEmpty, RefuseClosed, Return
  <2>2. Heaps' = Heaps
    BY <1>2, PromoteHeaps DEF DequeueCall, DequeueEmpty, RefuseClosed, Heaps, CountInv
  <2> QED BY <1>1, <2>1, <2>2, QuietDamage DEF Writing
<1>3. CASE DequeueSyncFails(t)
  <2>1. /\ pc[t] = "deqSync" /\ Goto(t, "idle", Nil)
        /\ delayed' = delayed \cup {arg[t]}
        /\ UNCHANGED <<ready, file, synced, acked, popped, deliveries>>
    BY <1>3 DEF DequeueSyncFails, Return
  <2>2. InFile(file, arg[t])
    BY <2>1 DEF DamageInv, WrittenInv, PendingOK
  <2> QED BY <1>1, <2>1, <2>2, QuietDamage DEF Heaps, Writing
<1>4. ASSUME NEW m \in Best(mode, Visible(now)), NEW rec,
             rec = DequeueRecord(walSeq + 1, m.id)
      PROVE  /\ m \in Heaps /\ rec \in Records /\ rec.op = "DEQUEUE"
             /\ rec.id = m.id /\ rec.id # Nil
             /\ InFile(file, m)
             /\ \E i \in 1..Len(file) : Inserted(file, i, rec.id)
  <2>1. m \in Heaps
    BY DEF Best, Visible, Matured, Heaps
  <2>2. m.id \in Ids /\ walSeq + 1 \in Nat
    BY <2>1 DEF CountInv, TypeOK, DataOK, Messages, Heaps
  <2>3. rec \in Records
    BY <1>4, <2>2, RecordType
  <2>4. rec.op = "DEQUEUE" /\ rec.id = m.id
    BY <1>4 DEF DequeueRecord
  <2>5. rec.id # Nil
    BY <2>2, <2>4, ServiceAssumption
  <2>6. \E i \in 1..Len(file) : Inserted(file, i, rec.id)
    BY <1>1, <2>1, <2>4, StoresInserted DEF InFile
  <2> QED BY <1>1, <2>1, <2>3, <2>4, <2>5, <2>6
<1>5. CASE DequeueAppend(t)
  <2>1. PICK m \in Best(mode, Visible(now)) :
          /\ ready' = Visible(now) \ {m}
          /\ Append1(DequeueRecord(walSeq + 1, m.id))
          /\ popped' = popped \cup {m.id}
          /\ Goto(t, "deqSync", m)
    BY <1>5 DEF DequeueAppend
  <2>2. PICK rec : rec = DequeueRecord(walSeq + 1, m.id)
    OBVIOUS
  <2>3. /\ NoHolder /\ delayed' = delayed \ Matured(delayed, now)
        /\ UNCHANGED <<synced, acked, deliveries>>
    BY <1>5 DEF DequeueAppend, Enter
  <2>4. file' = Append(file, Chunk(rec, "whole"))
    BY <2>1, <2>2 DEF Append1
  <2>5. Heaps' \subseteq Heaps
    BY <2>1, <2>3 DEF Heaps, Visible, Matured
  <2>6. /\ rec \in Records /\ rec.op = "DEQUEUE" /\ rec.id = m.id
        /\ InFile(file, m) /\ \E i \in 1..Len(file) : Inserted(file, i, rec.id)
    BY <1>4, <2>2
  <2> QED BY <2>1, <2>3, <2>4, <2>5, <2>6, AppendDamage DEF Writing, Parts
<1>6. CASE DequeueAppendFails(t)
  <2>1. PICK m \in Best(mode, Visible(now)) :
          /\ ready' = Visible(now) \ {m}
          /\ delayed' = (delayed \ Matured(delayed, now)) \cup {m}
          /\ FailedAppend(DequeueRecord(walSeq + 1, m.id))
          /\ popped' = IF Live(file') = Live(file) THEN popped ELSE popped \cup {m.id}
    BY <1>6 DEF DequeueAppendFails
  <2>2. PICK rec : rec = DequeueRecord(walSeq + 1, m.id)
    OBVIOUS
  <2>3. /\ NoHolder /\ Goto(t, "idle", Nil) /\ UNCHANGED <<synced, acked, deliveries>>
    BY <1>6 DEF DequeueAppendFails, Enter, Return
  <2>4. /\ m \in Heaps /\ rec \in Records /\ rec.op = "DEQUEUE"
        /\ rec.id = m.id /\ rec.id # Nil
        /\ \E i \in 1..Len(file) : Inserted(file, i, rec.id)
    BY <1>4, <2>2
  <2>5. Heaps' \subseteq Heaps
    BY <2>1, <2>4 DEF Heaps, Visible, Matured
  <2>6. CASE file' = file
    <3>1. popped' = popped
      BY <2>1, <2>6
    <3> QED BY <1>1, <2>3, <2>5, <2>6, <3>1, QuietDamage DEF Writing
  <2>7. CASE \E part \in Fragments("whole") : file' = Append(file, Chunk(rec, part))
    <3>1. PICK part \in Parts : file' = Append(file, Chunk(rec, part))
      BY <2>7 DEF Fragments, Parts
    <3>2. popped \subseteq popped'
      BY <2>1
    <3>3. ASSUME NEW i \in 1..Len(file), Inserted(file, i, rec.id), Line(file, i),
                 Begins(file', Len(file) + 1)
          PROVE  rec.id \in popped'
      <4>1. CASE Live(file') = Live(file)
        BY <1>0, <2>1, <2>4, <3>1, <3>3, <4>1, LeftoverTombstone DEF DamageInv
      <4>2. CASE Live(file') # Live(file)
        BY <2>1, <2>4, <4>2
      <4> QED BY <4>1, <4>2
    <3> QED BY <2>3, <2>4, <2>5, <3>1, <3>2, <3>3, AppendDamage DEF Writing
  <2> QED BY <2>1, <2>2, <2>6, <2>7 DEF FailedAppend
<1>7. CASE DequeueSync(t)
  <2>1. /\ pc[t] = "deqSync" /\ Goto(t, "idle", Nil) /\ synced' = Len(file)
        /\ deliveries' = [deliveries EXCEPT ![arg[t].id] = @ + 1]
        /\ UNCHANGED <<ready, delayed, file, acked, popped>>
    BY <1>7 DEF DequeueSync, Return
  <2>2. /\ Len(file) \in 1..Len(file) /\ file[Len(file)].part = "whole"
        /\ Tombstone(file, Len(file), arg[t].id)
    BY <1>0, <2>1 DEF DamageInv, WrittenInv, PendingOK
  <2>3. \A i \in 1..synced : i \in 1..Len(file)
    BY <1>0
  <2>4. PlatterInv'
    <3>1. ASSUME NEW m \in acked
          PROVE  \E i \in 1..Len(file) : file[i].part = "whole" /\ Stores(file, i, m)
      BY <2>3 DEF DamageInv, PlatterInv
    <3>2. ASSUME NEW id \in Ids, deliveries'[id] > 0
          PROVE  \E i \in 1..Len(file) : file[i].part = "whole" /\ Tombstone(file, i, id)
      <4>1. id = arg[t].id \/ deliveries'[id] = deliveries[id]
        BY <2>1 DEF CountInv, TypeOK, DataOK
      <4> QED BY <2>2, <2>3, <3>2, <4>1 DEF DamageInv, PlatterInv
    <3> QED BY <2>1, <3>1, <3>2 DEF PlatterInv, Stores, Tombstone
  <2>5. \A m \in Heaps' : InFile(file, m)
    BY <1>1, <2>1 DEF Heaps
  <2>6. /\ pc'[t] = "idle"
        /\ \A u \in Threads : u # t => pc'[u] = pc[u] /\ pc[u] \notin Writing
    BY <2>1 DEF CountInv, TypeOK, ControlOK, Goto, Exclusion, Writing
  <2>7. WrittenInv'
    BY <2>1, <2>5, <2>6 DEF WrittenInv, PendingOK, Writing, InFile, Stores
  <2>8. Tidy(file, popped)'
    BY <2>1 DEF DamageInv, Tidy, Inserted, Tombstone, Line, Begins
  <2> QED BY <2>4, <2>7, <2>8 DEF DamageInv
<1> QED BY <1>2, <1>3, <1>5, <1>6, <1>7

(* The steps of Stats and Snapshot promote at most.                        *)
LEMMA ReadDamage ==
  ASSUME CountInv, DamageInv, NEW t \in Threads, Read(t)
  PROVE  DamageInv'
<1> USE DEF memory, log, history
<1>1. /\ \E label \in {"idle"} \cup Reading : \E value : Goto(t, label, value)
      /\ UNCHANGED <<file, synced, acked, popped, deliveries>>
  BY DEF Read, StatsCall, StatsLen, StatsAvailableLen, SnapshotCall, SnapshotTake,
         Return, Reading
<1>2. Heaps' = Heaps
  BY PromoteHeaps DEF Read, StatsCall, StatsLen, StatsAvailableLen, SnapshotCall,
                      SnapshotTake, Heaps, CountInv
<1>3. PICK label \in {"idle"} \cup Reading : \E value : Goto(t, label, value)
  BY <1>1
<1>4. label \notin Writing
  BY DEF Reading, Writing
<1>5. \A m \in Heaps' : InFile(file, m)
  BY <1>2 DEF DamageInv, WrittenInv
<1> QED BY <1>1, <1>3, <1>4, <1>5, QuietDamage

(* Nobody is in a section: the start and the end of the process.           *)
LEMMA NobodyDamage ==
  ASSUME CountInv, DamageInv, \A t \in Threads : pc'[t] = "idle",
         UNCHANGED <<file, synced, acked, popped, deliveries>>,
         \A m \in Heaps' : InFile(file, m)
  PROVE  DamageInv'
<1>1. \A t \in Threads : PendingOK(t)'
  BY DEF PendingOK
<1>2. \A m \in Heaps' : InFile(file', m)
  BY DEF InFile, Stores
<1>3. Tidy(file, popped)' /\ PlatterInv'
  BY DEF DamageInv, PlatterInv, Tidy, Inserted, Tombstone, Line, Begins, Stores
<1> QED BY <1>1, <1>2, <1>3 DEF DamageInv, WrittenInv

LEMMA BootDamage ==
  ASSUME CountInv, DamageInv, Boot
  PROVE  DamageInv'
<1>1. /\ \A t \in Threads : pc'[t] = "idle"
      /\ Heaps' = Live(file)
      /\ UNCHANGED <<file, synced, acked, popped, deliveries>>
  BY DEF CountInv, Exclusion, Boot, log, history, Heaps
<1>2. \A m \in Live(file) : InFile(file, m)
  BY DEF Live, LiveAt, Enqueues, InFile, Stores
<1> QED BY <1>1, <1>2, NobodyDamage

(* A power loss leaves alone what was synced.                              *)
LEMMA PowerLossDamage ==
  ASSUME CountInv, DamageInv, PowerLoss
  PROVE  DamageInv'
<1>0. file \in Seq(Chunks) /\ synced \in 0..Len(file) /\ Len(file) \in Nat
  BY DEF CountInv, TypeOK, DataOK, Chunks
<1>1. PICK n \in 0..Len(file) :
        /\ synced <= n
        /\ Len(file') = n
        /\ \A i \in 1..n : i < n => file'[i] = file[i]
        /\ n > 0 => file'[n].rec = file[n].rec
        /\ n > 0 => \/ file'[n].part = file[n].part
                    \/ n > synced /\ file'[n].part \in Fragments(file[n].part)
  BY PowerLossCut DEF CountInv
<1>2. /\ Heaps' = {} /\ synced' = n /\ UNCHANGED <<acked, popped, deliveries>>
      /\ \A t \in Threads : pc'[t] = "idle"
  BY <1>1 DEF PowerLoss, Vanish, history, Heaps
<1>3. PICK g : g = file'
  OBVIOUS
<1>4. n \in Nat /\ \A i \in 1..n : i < n \/ (i = n /\ n > 0)
  BY <1>0
<1>5. ASSUME NEW i \in 1..n
      PROVE  /\ g[i].rec = file[i].rec
             /\ g[i].part # "torn" => file[i].part # "torn"
             /\ g[i].part = "whole" => file[i].part = "whole"
  <2>1. CASE i < n
    BY <1>1, <1>3, <2>1
  <2>2. CASE i = n /\ n > 0
    BY <1>1, <1>3, <2>2 DEF Fragments
  <2> QED BY <1>4, <2>1, <2>2
<1>6. Tidy(g, popped)
  BY <1>0, <1>1, <1>3, <1>5, TidyCut DEF DamageInv
<1>7. Tidy(file, popped)'
  BY <1>2, <1>3, <1>6 DEF Tidy, Inserted, Tombstone, Line, Begins
<1>8. ASSUME NEW i \in 1..synced
      PROVE  file'[i].rec = file[i].rec /\ file'[i].part = file[i].part
  <2>0. i \in 1..n /\ synced \in Nat
    BY <1>0, <1>1, <1>4
  <2>1. CASE i < n
    BY <1>1, <2>0, <2>1
  <2>2. CASE i = n /\ n > 0
    <3>1. ~(n > synced)
      BY <1>4, <2>0, <2>2
    <3> QED BY <1>1, <2>2, <3>1
  <2> QED BY <1>4, <2>0, <2>1, <2>2
<1>9. PlatterInv'
  BY <1>1, <1>2, <1>4, <1>8, PlatterKept DEF CountInv, DamageInv
<1>10. WrittenInv'
  BY <1>2 DEF WrittenInv, PendingOK
<1> QED BY <1>7, <1>9, <1>10 DEF DamageInv

LEMMA DamageStep ==
  ASSUME CountInv, DamageInv, [Next]_vars
  PROVE  DamageInv'
<1>1. ASSUME NEW t \in Writers, Write(t) PROVE DamageInv'
  BY <1>1, EnqueueDamage, DequeueDamage DEF Write, Threads
<1>2. ASSUME NEW t \in Readers, Read(t) PROVE DamageInv'
  BY <1>2, ReadDamage DEF Threads
<1>3. CASE Close \/ BootFails \/ Clock \/ UNCHANGED vars
  <2>1. UNCHANGED <<ready, delayed, file, synced, pc, arg, acked, popped, deliveries>>
    BY <1>3 DEF Close, BootFails, Clock, vars, memory, log, history
  <2> QED BY <2>1 DEF DamageInv, PlatterInv, WrittenInv, PendingOK, Tidy, Heaps, InFile,
                      Inserted, Tombstone, Line, Begins, Stores
<1>4. CASE Kill
  <2>1. /\ \A t \in Threads : pc'[t] = "idle"
        /\ Heaps' = {}
        /\ UNCHANGED <<file, synced, acked, popped, deliveries>>
    BY <1>4 DEF Kill, Vanish, log, history, Heaps
  <2> QED BY <2>1, NobodyDamage
<1>5. CASE PowerLoss
  BY <1>5, PowerLossDamage
<1>6. CASE Boot
  BY <1>6, BootDamage
<1> QED BY <1>1, <1>2, <1>3, <1>4, <1>5, <1>6 DEF Next

LEMMA DamageInit ==
  ASSUME Init
  PROVE  DamageInv
<1>1. /\ \A t \in Threads : pc[t] = "idle"
      /\ Heaps = {} /\ Len(file) = 0 /\ acked = {}
      /\ \A id \in Ids : ~(deliveries[id] > 0)
  BY DEF Init, Heaps
<1> QED BY <1>1 DEF DamageInv, PlatterInv, WrittenInv, PendingOK, Tidy

(* An ENQUEUE on the platter is replayed, unless a tombstone that the      *)
(* history knows of follows or it is glued to a fragment.                  *)
LEMMA AckedConfined ==
  ASSUME CountInv, DamageInv, NEW m \in acked
  PROVE  m \in Live(file) \/ m.id \in popped \/ Glued("ENQUEUE", m.id)
<1>0. synced \in 0..Len(file) /\ Len(file) \in Nat /\ m.id \in Ids
  BY DEF CountInv, TypeOK, DataOK, Messages
<1>1. PICK i \in 1..synced : file[i].part = "whole" /\ Stores(file, i, m)
  BY DEF DamageInv, PlatterInv
<1>2. /\ i \in 1..Len(file) /\ (i > 1 => i \in 2..Len(file))
      /\ Inserted(file, i, m.id) /\ m = MessageOf(file[i].rec)
  BY <1>0, <1>1, StoresInserted DEF Stores
<1>3. CASE i > 1 /\ file[i - 1].part # "whole"
  BY <1>2, <1>3 DEF Glued, Inserted
<1>4. CASE Line(file, i) /\ \E j \in (i + 1)..Len(file) : Dequeues(file, j, m.id)
  <2>1. PICK j \in (i + 1)..Len(file) : Dequeues(file, j, m.id)
    BY <1>4
  <2>2. j \in 1..Len(file) /\ Begins(file, j) /\ Tombstone(file, j, m.id)
    BY <1>0, <1>2, <2>1 DEF Dequeues, Sound, Begins, Tombstone
  <2> QED BY <1>2, <1>4, <2>2 DEF DamageInv, Tidy, Inserted
<1>5. CASE Line(file, i) /\ \A j \in (i + 1)..Len(file) : ~Dequeues(file, j, m.id)
  <2>1. Enqueues(file, i, m.id) /\ m.id # Nil
    BY <1>0, <1>2, <1>5, ServiceAssumption DEF Enqueues, Inserted, Line, Begins, Sound
  <2>2. \A k \in 1..(i - 1) : ~Enqueues(file, k, m.id)
    <3>1. \A k \in 1..(i - 1) : k \in 1..Len(file) /\ k # i
      BY <1>0, <1>2
    <3> QED BY <1>2, <3>1 DEF DamageInv, Tidy, Enqueues, Inserted
  <2>3. LiveAt(file, i)
    BY <1>2, <1>5, <2>1, <2>2 DEF LiveAt, Inserted
  <2> QED BY <1>2, <2>3 DEF Live
<1> QED BY <1>1, <1>3, <1>4, <1>5 DEF Line, Begins

(* A tombstone on the platter is replayed unless it is glued to a          *)
(* fragment.                                                               *)
LEMMA DeliveredConfined ==
  ASSUME CountInv, DamageInv, NEW m \in Live(file), deliveries[m.id] > 0
  PROVE  Glued("DEQUEUE", m.id)
<1>0. file \in Seq(Chunks) /\ synced \in 0..Len(file) /\ Len(file) \in Nat
  BY DEF CountInv, TypeOK, DataOK, Chunks
<1>1. PICK i \in 1..Len(file) : LiveAt(file, i) /\ m = MessageOf(file[i].rec)
  BY DEF Live
<1>2. m.id = file[i].rec.id /\ Inserted(file, i, m.id)
  BY <1>1 DEF MessageOf, LiveAt, Enqueues, Inserted
<1>3. m.id \in Ids
  <2>1. file[i] \in Chunks
    BY <1>0
  <2> QED BY <1>2, <2>1 DEF Chunks, Records
<1>4. PICK j \in 1..synced : file[j].part = "whole" /\ Tombstone(file, j, m.id)
  BY <1>3 DEF DamageInv, PlatterInv
<1>5. j \in 1..Len(file)
  BY <1>0
<1>6. PICK k \in 1..(j - 1) : Inserted(file, k, m.id)
  BY <1>4, <1>5 DEF DamageInv, Tidy, Tombstone
<1>7. k \in 1..Len(file)
  BY <1>0, <1>5
<1>8. k = i
  BY <1>2, <1>6, <1>7 DEF DamageInv, Tidy, Inserted
<1>9. j \in (i + 1)..Len(file) /\ j \in 2..Len(file) /\ j > 1
  BY <1>0, <1>5, <1>7, <1>8
<1>10. ~Sound(file, j)
  BY <1>1, <1>2, <1>4, <1>9 DEF LiveAt, Dequeues, Tombstone
<1>11. file[j - 1].part # "whole"
  BY <1>4, <1>9, <1>10 DEF Sound
<1> QED BY <1>4, <1>9, <1>11 DEF Glued, Tombstone

LEMMA DamageInvariant == Spec => [](CountInv /\ DamageInv)
<1>1. Init => CountInv /\ DamageInv
  BY CountInit, DamageInit
<1>2. CountInv /\ DamageInv /\ [Next]_vars => (CountInv /\ DamageInv)'
  BY CountStep, DamageStep
<1> QED BY <1>1, <1>2, PTL DEF Spec

(* Whatever fails, a fragment in the log costs at most the record that was *)
(* appended right after it: an acknowledged message is recovered or was    *)
(* popped unless its own ENQUEUE is glued to a fragment, and a delivered   *)
(* one comes back only if its tombstone is.                                *)
THEOREM DamageConfinedTheorem == Spec => []DamageConfined
<1>1. CountInv /\ DamageInv => DamageConfined
  BY AckedConfined, DeliveredConfined DEF DamageConfined
<1> QED BY <1>1, DamageInvariant, PTL
=============================================================================
