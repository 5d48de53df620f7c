-------------------------- MODULE DurabilityProofs --------------------------
(***************************************************************************)
(* The guarantees of the log, proved for every number of goroutines and    *)
(* messages, as long as no record is left torn in the file and no fsync    *)
(* fails after a successful write.  The argument is one inductive          *)
(* invariant, SafetyInv, about the positions of records in the file.       *)
(***************************************************************************)
EXTENDS QueueServiceProofs

(* Kills, power losses, refused writes and clock steps, in any order.      *)
CleanFaults == Faults \subseteq {"powerLoss", "writeErr", "clockBack"}

IsEnq(f, i) == f[i].rec.op = "ENQUEUE"
IsDeq(f, i) == f[i].rec.op = "DEQUEUE"
Unseen(f, id) == \A i \in 1..Len(f) : f[i].rec.id # id
Removed(f, id) == \E j \in 1..Len(f) : IsDeq(f, j) /\ f[j].rec.id = id

(* Every line is whole, an id is enqueued once, and tombstones follow.     *)
WellFormed(f) ==
  /\ \A i \in 1..Len(f) : f[i].part = "whole"
  /\ \A i, j \in 1..Len(f) :
       IsEnq(f, i) /\ f[i].rec.id = f[j].rec.id =>
         (IsEnq(f, j) => i = j) /\ (IsDeq(f, j) => i < j)

(* Ids come from newUUID; a removed id was popped; an accepted message is  *)
(* in the durable part of the log, and so is the tombstone of a delivered  *)
(* one.                                                                    *)
LogInv ==
  /\ WellFormed(file)
  /\ \A i \in 1..Len(file) : file[i].rec.id \in issued
  /\ \A i \in 1..Len(file) : IsDeq(file, i) => file[i].rec.id \in popped
  /\ \A m \in acked :
       \E i \in 1..synced : IsEnq(file, i) /\ MessageOf(file[i].rec) = m
  /\ \A id \in Ids :
       deliveries[id] = 0 \/ /\ deliveries[id] = 1
                             /\ \E i \in 1..synced : IsDeq(file, i) /\ file[i].rec.id = id

(* A pending Enqueue has an id of its own; the goroutine in the write      *)
(* section owns the last record of the file.                               *)
CallInv ==
  \A t \in Threads :
    /\ pc[t] = "enqueue" =>
         /\ arg[t].id \in issued
         /\ \A i \in 1..Len(file) : file[i].rec.id # arg[t].id
         /\ \A u \in Threads : pc[u] = "enqueue" /\ arg[u].id = arg[t].id => u = t
    /\ pc[t] = "enqSync" =>
         /\ Len(file) > 0
         /\ IsEnq(file, Len(file))
         /\ MessageOf(file[Len(file)].rec) = arg[t]
         /\ arg[t] \in Live(file)
    /\ pc[t] = "deqSync" =>
         /\ Len(file) > 0
         /\ IsDeq(file, Len(file))
         /\ file[Len(file)].rec.id = arg[t].id
         /\ deliveries[arg[t].id] = 0

MemoryInv ==
  /\ MemoryMatchesLog
  /\ up # "up" => ready = {} /\ delayed = {}

SafetyInv == TypeOK /\ Exclusion /\ LogInv /\ CallInv /\ MemoryInv

-----------------------------------------------------------------------------
(* In a well-formed log every chunk is a line that parses.                 *)
LEMMA AllSound ==
  ASSUME NEW f \in Seq(Chunks), WellFormed(f)
  PROVE  (\A i \in 1..Len(f) : Sound(f, i)) /\ ~Corrupt(f)
  BY DEF WellFormed, Sound, Corrupt

LEMMA ChunkType ==
  ASSUME NEW f \in Seq(Chunks), NEW i \in 1..Len(f)
  PROVE  /\ f[i].rec \in Records
         /\ f[i].rec.id \in Ids
         /\ f[i].rec.id # Nil
         /\ IsEnq(f, i) => MessageOf(f[i].rec).id = f[i].rec.id
<1>1. f[i] \in Chunks
  OBVIOUS
<1>2. f[i].rec \in Records
  BY <1>1 DEF Chunks
<1>3. f[i].rec.id \in Ids
  BY <1>2 DEF Records
<1> QED BY <1>2, <1>3, ServiceAssumption DEF MessageOf

(* There the live set is the enqueued messages that no tombstone names.    *)
LEMMA LiveWellFormed ==
  ASSUME NEW f \in Seq(Chunks), WellFormed(f)
  PROVE  \A m : m \in Live(f) <=>
                  \E i \in 1..Len(f) : /\ IsEnq(f, i)
                                       /\ ~Removed(f, f[i].rec.id)
                                       /\ m = MessageOf(f[i].rec)
<1>1. ASSUME NEW i \in 1..Len(f)
      PROVE  LiveAt(f, i) <=> IsEnq(f, i) /\ ~Removed(f, f[i].rec.id)
  <2> DEFINE id == f[i].rec.id
  <2>1. \A j \in 1..Len(f) : /\ Enqueues(f, j, id) <=> IsEnq(f, j) /\ f[j].rec.id = id
                             /\ Dequeues(f, j, id) <=> IsDeq(f, j) /\ f[j].rec.id = id
    BY AllSound DEF Enqueues, Dequeues, IsEnq, IsDeq
  <2>2. id # Nil
    BY ChunkType
  <2>3. ASSUME LiveAt(f, i) PROVE IsEnq(f, i) /\ ~Removed(f, id)
    <3>1. IsEnq(f, i) /\ \A j \in (i + 1)..Len(f) : ~Dequeues(f, j, id)
      BY <2>1, <2>3 DEF LiveAt
    <3>2. ASSUME NEW j \in 1..Len(f), IsDeq(f, j), f[j].rec.id = id PROVE FALSE
      <4>1. i < j
        BY <3>1, <3>2 DEF WellFormed
      <4>2. j \in (i + 1)..Len(f)
        BY <4>1
      <4> QED BY <2>1, <3>1, <3>2, <4>2
    <3> QED BY <3>1, <3>2 DEF Removed
  <2>4. ASSUME IsEnq(f, i), ~Removed(f, id) PROVE LiveAt(f, i)
    <3>1. Enqueues(f, i, id)
      BY <2>1, <2>4
    <3>2. \A j \in (i + 1)..Len(f) : ~Dequeues(f, j, id)
      BY <2>1, <2>4 DEF Removed
    <3>3. \A k \in 1..(i - 1) : ~Enqueues(f, k, id)
      <4> SUFFICES ASSUME NEW k \in 1..(i - 1), Enqueues(f, k, id) PROVE FALSE
        OBVIOUS
      <4>1. k \in 1..Len(f) /\ k # i
        OBVIOUS
      <4> QED BY <2>1, <2>4, <4>1 DEF WellFormed
    <3> QED BY <2>2, <3>1, <3>2, <3>3 DEF LiveAt
  <2> QED BY <2>3, <2>4
<1> QED BY <1>1 DEF Live

(* Two live messages with one id are the same message.                     *)
LEMMA LiveUnique ==
  ASSUME NEW f \in Seq(Chunks), WellFormed(f),
         NEW a \in Live(f), NEW b \in Live(f), a.id = b.id
  PROVE  a = b
<1>1. PICK i \in 1..Len(f) : IsEnq(f, i) /\ a = MessageOf(f[i].rec)
  BY LiveWellFormed
<1>2. PICK j \in 1..Len(f) : IsEnq(f, j) /\ b = MessageOf(f[j].rec)
  BY LiveWellFormed
<1>3. f[i].rec.id = f[j].rec.id
  BY <1>1, <1>2, ChunkType
<1> QED BY <1>1, <1>2, <1>3 DEF WellFormed

(* A cut at any point leaves a well-formed log.                            *)
LEMMA PrefixWellFormed ==
  ASSUME NEW f \in Seq(Chunks), WellFormed(f), NEW k \in 0..Len(f)
  PROVE  /\ WellFormed(SubSeq(f, 1, k))
         /\ \A i \in 1..k : SubSeq(f, 1, k)[i] = f[i]
<1>1. /\ Len(SubSeq(f, 1, k)) = k
      /\ \A i \in 1..k : i \in 1..Len(f) /\ SubSeq(f, 1, k)[i] = f[i]
  OBVIOUS
<1> QED BY <1>1 DEF WellFormed, IsEnq, IsDeq

LEMMA AppendFacts ==
  ASSUME NEW f \in Seq(Chunks), NEW r \in Records, NEW g,
         g = Append(f, Chunk(r, "whole"))
  PROVE  /\ g \in Seq(Chunks)
         /\ Len(g) = Len(f) + 1
         /\ \A i \in 1..Len(f) : g[i] = f[i]
         /\ g[Len(g)].rec = r
         /\ g[Len(g)].part = "whole"
<1> DEFINE c == Chunk(r, "whole")
<1>1. c \in Chunks /\ c.rec = r /\ c.part = "whole"
  BY DEF Chunk, Chunks, Parts
<1> HIDE DEF c
<1>2. /\ Append(f, c) \in Seq(Chunks)
      /\ Len(Append(f, c)) = Len(f) + 1
      /\ \A i \in 1..Len(f) : Append(f, c)[i] = f[i]
      /\ Append(f, c)[Len(f) + 1] = c
  BY <1>1
<1>3. g = Append(f, c)
  BY DEF c
<1> QED BY <1>1, <1>2, <1>3

(* The record of a message gives the message back.                         *)
LEMMA RoundTrip ==
  ASSUME NEW m \in Messages, m.seq # 0, NEW n \in Nat
  PROVE  MessageOf(EnqueueRecord(n, m)) = m
  BY NilAssumption DEF MessageOf, EnqueueRecord, Messages, Deref

(* g is f with the record of m at its end, and m is one more live message. *)
Gained(f, g, m) ==
  /\ WellFormed(g)
  /\ m \notin Live(f) /\ Live(g) = Live(f) \cup {m}
  /\ IsEnq(g, Len(g)) /\ MessageOf(g[Len(g)].rec) = m /\ g[Len(g)].rec.id = m.id

(* g is f with a tombstone at its end: no live message has that id.        *)
Lost(f, g, id) ==
  /\ WellFormed(g)
  /\ Live(g) = {x \in Live(f) : x.id # id}
  /\ IsDeq(g, Len(g)) /\ g[Len(g)].rec.id = id

(* Appending the record of a message with a new id adds that message to    *)
(* the live set and nothing else.                                          *)
LEMMA AppendEnqueue ==
  ASSUME NEW f \in Seq(Chunks), WellFormed(f), NEW n \in Nat,
         NEW m \in Messages, m.seq # 0, Unseen(f, m.id),
         NEW g, g = Append(f, Chunk(EnqueueRecord(n, m), "whole"))
  PROVE  Gained(f, g, m)
<1> DEFINE r == EnqueueRecord(n, m)
<1>1. r \in Records /\ r.op = "ENQUEUE" /\ r.id = m.id /\ MessageOf(r) = m
  BY RecordType, RoundTrip DEF EnqueueRecord
<1> HIDE DEF r
<1>2. /\ g \in Seq(Chunks)
      /\ Len(g) = Len(f) + 1
      /\ \A i \in 1..Len(f) : g[i] = f[i]
      /\ g[Len(g)].rec = r
      /\ g[Len(g)].part = "whole"
  BY <1>1, AppendFacts DEF r
<1>3. /\ \A i \in 1..Len(f) : (IsEnq(g, i) <=> IsEnq(f, i)) /\ (IsDeq(g, i) <=> IsDeq(f, i))
      /\ IsEnq(g, Len(g)) /\ ~IsDeq(g, Len(g))
  BY <1>1, <1>2 DEF IsEnq, IsDeq
<1>4. \A i \in 1..Len(g) : i \in 1..Len(f) \/ i = Len(g)
  BY <1>2
<1>5. WellFormed(g)
  <2>1. \A i \in 1..Len(g) : g[i].part = "whole"
    BY <1>2, <1>4 DEF WellFormed
  <2>2. ASSUME NEW i \in 1..Len(g), NEW j \in 1..Len(g),
               IsEnq(g, i), g[i].rec.id = g[j].rec.id
        PROVE  (IsEnq(g, j) => i = j) /\ (IsDeq(g, j) => i < j)
    BY <1>1, <1>2, <1>3, <1>4, <2>2 DEF WellFormed, Unseen
  <2> QED BY <2>1, <2>2 DEF WellFormed
<1>6. \A id : Removed(g, id) <=> Removed(f, id)
  BY <1>2, <1>3, <1>4 DEF Removed
<1>7. ~Removed(f, m.id)
  BY DEF Removed, Unseen
<1>8. m \notin Live(f)
  <2> SUFFICES ASSUME m \in Live(f) PROVE FALSE
    OBVIOUS
  <2>1. PICK i \in 1..Len(f) : IsEnq(f, i) /\ m = MessageOf(f[i].rec)
    BY LiveWellFormed
  <2> QED BY <2>1, ChunkType DEF Unseen
<1>9. ASSUME NEW x PROVE x \in Live(g) <=> x \in Live(f) \/ x = m
  <2>1. x \in Live(g) <=> \E i \in 1..Len(g) : /\ IsEnq(g, i)
                                               /\ ~Removed(g, g[i].rec.id)
                                               /\ x = MessageOf(g[i].rec)
    BY <1>2, <1>5, LiveWellFormed
  <2>2. x \in Live(f) <=> \E i \in 1..Len(f) : /\ IsEnq(f, i)
                                               /\ ~Removed(f, f[i].rec.id)
                                               /\ x = MessageOf(f[i].rec)
    BY LiveWellFormed
  <2>3. ASSUME x \in Live(g) PROVE x \in Live(f) \/ x = m
    BY <1>1, <1>2, <1>3, <1>4, <1>6, <2>1, <2>2, <2>3
  <2>4. ASSUME x \in Live(f) PROVE x \in Live(g)
    <3>1. PICK i \in 1..Len(f) : /\ IsEnq(f, i)
                                 /\ ~Removed(f, f[i].rec.id)
                                 /\ x = MessageOf(f[i].rec)
      BY <2>2, <2>4
    <3>2. i \in 1..Len(g) /\ g[i] = f[i] /\ IsEnq(g, i)
      BY <1>2, <1>3, <3>1
    <3> QED BY <1>6, <2>1, <3>1, <3>2
  <2>5. m \in Live(g)
    <3>1. Len(g) \in 1..Len(g)
      BY <1>2
    <3> QED BY <1>1, <1>2, <1>3, <1>5, <1>6, <1>7, <3>1, LiveWellFormed
  <2> QED BY <2>3, <2>4, <2>5
<1>10. Live(g) = Live(f) \cup {m}
  BY <1>9
<1> QED BY <1>1, <1>2, <1>3, <1>5, <1>8, <1>10 DEF Gained

(* Appending a tombstone removes the messages with its id, no other.       *)
LEMMA AppendDequeue ==
  ASSUME NEW f \in Seq(Chunks), WellFormed(f), NEW n \in Nat, NEW id \in Ids,
         NEW g, g = Append(f, Chunk(DequeueRecord(n, id), "whole"))
  PROVE  Lost(f, g, id)
<1> DEFINE r == DequeueRecord(n, id)
<1>1. r \in Records /\ r.op = "DEQUEUE" /\ r.id = id
  BY RecordType DEF DequeueRecord
<1> HIDE DEF r
<1>2. /\ g \in Seq(Chunks)
      /\ Len(g) = Len(f) + 1
      /\ \A i \in 1..Len(f) : g[i] = f[i]
      /\ g[Len(g)].rec = r
      /\ g[Len(g)].part = "whole"
  BY <1>1, AppendFacts DEF r
<1>3. /\ \A i \in 1..Len(f) : (IsEnq(g, i) <=> IsEnq(f, i)) /\ (IsDeq(g, i) <=> IsDeq(f, i))
      /\ ~IsEnq(g, Len(g)) /\ IsDeq(g, Len(g))
  BY <1>1, <1>2 DEF IsEnq, IsDeq
<1>4. \A i \in 1..Len(g) : i \in 1..Len(f) \/ i = Len(g)
  BY <1>2
<1>5. WellFormed(g)
  <2>1. \A i \in 1..Len(g) : g[i].part = "whole"
    BY <1>2, <1>4 DEF WellFormed
  <2>2. ASSUME NEW i \in 1..Len(g), NEW j \in 1..Len(g),
               IsEnq(g, i), g[i].rec.id = g[j].rec.id
        PROVE  (IsEnq(g, j) => i = j) /\ (IsDeq(g, j) => i < j)
    <3>1. i \in 1..Len(f) /\ i < Len(g)
      BY <1>2, <1>3, <1>4, <2>2
    <3>2. CASE j = Len(g)
      BY <1>3, <3>1, <3>2
    <3>3. CASE j \in 1..Len(f)
      BY <1>2, <1>3, <2>2, <3>1, <3>3 DEF WellFormed
    <3> QED BY <1>4, <3>2, <3>3
  <2> QED BY <2>1, <2>2 DEF WellFormed
<1>6. ASSUME NEW k PROVE Removed(g, k) <=> Removed(f, k) \/ k = id
  <2>1. ASSUME Removed(g, k) PROVE Removed(f, k) \/ k = id
    BY <1>1, <1>2, <1>3, <1>4, <2>1 DEF Removed
  <2>2. ASSUME Removed(f, k) PROVE Removed(g, k)
    <3>1. PICK j \in 1..Len(f) : IsDeq(f, j) /\ f[j].rec.id = k
      BY <2>2 DEF Removed
    <3>2. j \in 1..Len(g) /\ IsDeq(g, j) /\ g[j].rec.id = k
      BY <1>2, <1>3, <3>1
    <3> QED BY <3>2 DEF Removed
  <2>3. Removed(g, id)
    <3>1. Len(g) \in 1..Len(g)
      BY <1>2
    <3> QED BY <1>1, <1>2, <1>3, <3>1 DEF Removed
  <2> QED BY <2>1, <2>2, <2>3
<1>7. ASSUME NEW x PROVE x \in Live(g) <=> x \in Live(f) /\ x.id # id
  <2>1. x \in Live(g) <=> \E i \in 1..Len(g) : /\ IsEnq(g, i)
                                               /\ ~Removed(g, g[i].rec.id)
                                               /\ x = MessageOf(g[i].rec)
    BY <1>2, <1>5, LiveWellFormed
  <2>2. x \in Live(f) <=> \E i \in 1..Len(f) : /\ IsEnq(f, i)
                                               /\ ~Removed(f, f[i].rec.id)
                                               /\ x = MessageOf(f[i].rec)
    BY LiveWellFormed
  <2>3. ASSUME x \in Live(g) PROVE x \in Live(f) /\ x.id # id
    <3>1. PICK i \in 1..Len(g) : /\ IsEnq(g, i)
                                 /\ ~Removed(g, g[i].rec.id)
                                 /\ x = MessageOf(g[i].rec)
      BY <2>1, <2>3
    <3>2. i \in 1..Len(f) /\ g[i] = f[i] /\ IsEnq(f, i)
      BY <1>2, <1>3, <1>4, <3>1
    <3>3. x.id = f[i].rec.id
      BY <3>1, <3>2, ChunkType
    <3> QED BY <1>6, <2>2, <3>1, <3>2, <3>3
  <2>4. ASSUME x \in Live(f), x.id # id PROVE x \in Live(g)
    <3>1. PICK i \in 1..Len(f) : /\ IsEnq(f, i)
                                 /\ ~Removed(f, f[i].rec.id)
                                 /\ x = MessageOf(f[i].rec)
      BY <2>2, <2>4
    <3>2. i \in 1..Len(g) /\ g[i] = f[i] /\ IsEnq(g, i)
      BY <1>2, <1>3, <3>1
    <3>3. x.id = f[i].rec.id
      BY <3>1, ChunkType
    <3> QED BY <1>6, <2>1, <2>4, <3>1, <3>2, <3>3
  <2> QED BY <2>3, <2>4
<1>8. Live(g) = {x \in Live(f) : x.id # id}
  BY <1>7
<1> QED BY <1>1, <1>2, <1>3, <1>5, <1>8 DEF Lost

-----------------------------------------------------------------------------
LEMMA FileType ==
  ASSUME TypeOK
  PROVE  /\ file \in Seq(Chunks)
         /\ Len(file) \in Nat
         /\ synced \in 0..Len(file)
  BY DEF TypeOK, DataOK, Chunks

LEMMA NoneInFlight ==
  ASSUME NoWriter
  PROVE  InFlight = {}
  BY DEF NoWriter, Writing, InFlight

(* Promotion moves messages between the heaps and loses none.              *)
LEMMA PromoteKeeps ==
  ASSUME NEW at, Promote(at), ready \cap delayed = {}
  PROVE  ready' \cup delayed' = ready \cup delayed /\ ready' \cap delayed' = {}
  BY DEF Promote, Visible, Matured

(* Steps that leave the log, the history and every write call alone.       *)
LEMMA QuietStep ==
  ASSUME SafetyInv, TypeOK', Exclusion', UNCHANGED <<file, synced, history>>,
         \A t \in Threads : \/ pc'[t] \notin {"enqueue", "enqSync", "deqSync"}
                            \/ pc'[t] = pc[t] /\ arg'[t] = arg[t]
  PROVE  LogInv' /\ CallInv'
<1>1. LogInv'
  BY DEF SafetyInv, LogInv, WellFormed, IsEnq, IsDeq, history
<1>2. CallInv'
  BY DEF SafetyInv, CallInv, IsEnq, IsDeq, history
<1> QED BY <1>1, <1>2

(* Who is not in the write section does not change who is in flight.       *)
LEMMA SameInFlight ==
  ASSUME NEW t \in Threads, NEW label, NEW value, ControlOK, Goto(t, label, value),
         label # "enqSync", pc[t] # "enqSync"
  PROVE  InFlight' = InFlight
<1>1. \A u \in Threads : u # t => pc'[u] = pc[u] /\ arg'[u] = arg[u]
  BY DEF ControlOK, Goto
<1>2. pc'[t] = label
  BY DEF ControlOK, Goto
<1> QED BY <1>1, <1>2 DEF InFlight

(* A goroutine outside the write section moves on and at most promotes.    *)
LEMMA QuietMove ==
  ASSUME SafetyInv, TypeOK', Exclusion', UNCHANGED <<file, synced, history>>,
         NEW t \in Threads, NEW label \in Labels, NEW value, Goto(t, label, value),
         label \notin {"enqueue", "enqSync", "deqSync"},
         pc[t] # "enqSync", up = "up", up' = up,
         ready \cap delayed = {} =>
           ready' \cup delayed' = ready \cup delayed /\ ready' \cap delayed' = {}
  PROVE  SafetyInv'
<1>1. ControlOK
  BY DEF SafetyInv, TypeOK
<1>2. \A u \in Threads : \/ pc'[u] \notin {"enqueue", "enqSync", "deqSync"}
                         \/ pc'[u] = pc[u] /\ arg'[u] = arg[u]
  BY <1>1 DEF ControlOK, Goto
<1>3. LogInv' /\ CallInv'
  BY <1>2, QuietStep
<1>4. InFlight' = InFlight
  BY <1>1, SameInFlight
<1>5. MemoryInv'
  BY <1>4 DEF SafetyInv, MemoryInv, MemoryMatchesLog
<1> QED BY <1>3, <1>5 DEF SafetyInv

LEMMA QuietReturn ==
  ASSUME SafetyInv, TypeOK', Exclusion', UNCHANGED <<file, synced, history>>,
         NEW t \in Threads, Return(t), pc[t] # "enqSync", up = "up", up' = up,
         ready \cap delayed = {} =>
           ready' \cup delayed' = ready \cup delayed /\ ready' \cap delayed' = {}
  PROVE  SafetyInv'
<1>1. "idle" \in Labels
  BY DEF Labels
<1> QED BY <1>1, QuietMove DEF Return

(* Under clean faults a failed write leaves no trace.                      *)
LEMMA CleanFailure ==
  ASSUME CleanFaults, NEW r, FailedAppend(r)
  PROVE  file' = file
  BY DEF CleanFaults, FailedAppend

-----------------------------------------------------------------------------
(* The steps of Enqueue.                                                   *)
LEMMA EnqueueCallSafe ==
  ASSUME SafetyInv, TypeOK', Exclusion', NEW t \in Threads,
         NEW req \in Requests, NEW id \in Ids, EnqueueCall(t, req, id)
  PROVE  SafetyInv'
<1> USE DEF SafetyInv
<1> DEFINE v == [id |-> id, priority |-> req.priority, delay |-> req.delay]
<1>1. ControlOK
  BY DEF TypeOK
<1>2. Goto(t, "enqueue", v) /\ v.id = id /\ pc[t] = "idle" /\ up = "up"
  BY DEF EnqueueCall
<1> HIDE DEF v
<1>3. /\ UNCHANGED <<up, ready, delayed, file, synced, acked, popped, deliveries>>
      /\ issued' = issued \cup {id} /\ id \notin issued
  BY DEF EnqueueCall, memory, log
<1>4. /\ pc'[t] = "enqueue" /\ arg'[t].id = id
      /\ \A u \in Threads : u # t => pc'[u] = pc[u] /\ arg'[u] = arg[u]
  BY <1>1, <1>2 DEF ControlOK, Goto
<1>5. LogInv'
  BY <1>3 DEF LogInv, WellFormed, IsEnq, IsDeq
<1>6. \A i \in 1..Len(file) : file[i].rec.id # id
  BY <1>3 DEF LogInv
<1>7. \A u \in Threads : pc[u] = "enqueue" => arg[u].id # id
  BY <1>3 DEF CallInv
<1>8. CallInv'
  <2> SUFFICES ASSUME NEW u \in Threads
               PROVE
    /\ pc'[u] = "enqueue" =>
         /\ arg'[u].id \in issued'
         /\ \A i \in 1..Len(file') : file'[i].rec.id # arg'[u].id
         /\ \A w \in Threads : pc'[w] = "enqueue" /\ arg'[w].id = arg'[u].id => w = u
    /\ pc'[u] = "enqSync" =>
         /\ Len(file') > 0
         /\ IsEnq(file', Len(file'))
         /\ MessageOf(file'[Len(file')].rec) = arg'[u]
         /\ arg'[u] \in Live(file')
    /\ pc'[u] = "deqSync" =>
         /\ Len(file') > 0
         /\ IsDeq(file', Len(file'))
         /\ file'[Len(file')].rec.id = arg'[u].id
         /\ deliveries'[arg'[u].id] = 0
    BY DEF CallInv, IsEnq, IsDeq
  <2>1. CASE u = t
    BY <1>3, <1>4, <1>6, <1>7, <2>1
  <2>2. CASE u # t
    BY <1>3, <1>4, <1>7, <2>2 DEF CallInv
  <2> QED BY <2>1, <2>2
<1>9. InFlight' = InFlight
  BY <1>1, <1>2, SameInFlight
<1>10. MemoryInv'
  BY <1>3, <1>9 DEF MemoryInv, MemoryMatchesLog
<1> QED BY <1>5, <1>8, <1>10

LEMMA EnqueueAppendSafe ==
  ASSUME SafetyInv, TypeOK', Exclusion', NEW t \in Threads, EnqueueAppend(t)
  PROVE  SafetyInv'
<1> USE DEF SafetyInv
<1>0. PICK m : m = NewMessage(arg[t])
  OBVIOUS
<1>1. /\ ControlOK /\ pc[t] = "enqueue" /\ NoWriter
      /\ Append1(EnqueueRecord(walSeq + 1, m)) /\ Goto(t, "enqSync", m)
      /\ UNCHANGED <<up, ready, delayed, synced, history>>
  BY <1>0 DEF TypeOK, EnqueueAppend, Enter, NoHolder
<1>2. m \in Messages /\ m.seq # 0 /\ m.id = arg[t].id
  <2>1. arg[t] \in [id : Ids, priority : Int, delay : 0..MaxDelaySeconds]
    BY <1>1 DEF ControlOK, ArgOK
  <2> QED BY <1>0, <2>1, NewMessageType DEF TypeOK, DataOK
<1>3. up = "up"
  BY <1>1, Running
<1>4. /\ \A i \in 1..Len(file) : file[i].rec.id # m.id
      /\ m.id \in issued
      /\ \A u \in Threads : pc[u] = "enqueue" /\ u # t => arg[u].id # m.id
  BY <1>1, <1>2 DEF CallInv
<1>5. walSeq + 1 \in Nat /\ file \in Seq(Chunks) /\ WellFormed(file)
  BY FileType DEF TypeOK, DataOK, LogInv
<1>6. /\ WellFormed(file')
      /\ Live(file') = Live(file) \cup {m} /\ m \notin Live(file)
      /\ IsEnq(file', Len(file')) /\ MessageOf(file'[Len(file')].rec) = m
      /\ file'[Len(file')].rec.id = m.id
  <2> DEFINE n == walSeq + 1 g == file'
  <2>1. n \in Nat
    BY <1>5
  <2>2. g = Append(file, Chunk(EnqueueRecord(n, m), "whole"))
    BY <1>1 DEF Append1
  <2>3. Unseen(file, m.id)
    BY <1>4 DEF Unseen
  <2> HIDE DEF SafetyInv, n, g
  <2>4. Gained(file, g, m)
    BY <1>2, <1>5, <2>1, <2>2, <2>3, AppendEnqueue
  <2> QED BY <2>4 DEF Gained, g
<1>7. /\ Len(file') = Len(file) + 1
      /\ \A i \in 1..Len(file) : file'[i] = file[i]
  BY <1>1, <1>2, <1>5, RecordType, AppendFacts DEF Append1
<1>8. /\ Len(file) \in Nat /\ synced \in 0..Len(file)
      /\ \A i \in 1..Len(file') : i \in 1..Len(file) \/ i = Len(file')
  BY <1>7, FileType
<1>9. LogInv'
  <2>1. \A i \in 1..Len(file') : file'[i].rec.id \in issued
    BY <1>4, <1>6, <1>7, <1>8 DEF LogInv
  <2>2. \A i \in 1..Len(file') : IsDeq(file', i) => file'[i].rec.id \in popped
    BY <1>6, <1>7, <1>8 DEF LogInv, IsEnq, IsDeq
  <2>3. \A i \in 1..synced : file'[i] = file[i]
    BY <1>7, <1>8
  <2> QED BY <1>1, <1>6, <2>1, <2>2, <2>3 DEF LogInv, IsEnq, IsDeq, history
<1>10. /\ pc'[t] = "enqSync" /\ arg'[t] = m
       /\ \A u \in Threads : u # t => pc'[u] = pc[u] /\ arg'[u] = arg[u]
       /\ \A u \in Threads : u # t => pc'[u] \notin Writing
  BY <1>1 DEF ControlOK, Goto, NoWriter
<1>11. CallInv'
  <2>1. \A u \in Threads : pc'[u] = "enqueue" =>
         /\ arg'[u].id \in issued'
         /\ \A i \in 1..Len(file') : file'[i].rec.id # arg'[u].id
         /\ \A w \in Threads : pc'[w] = "enqueue" /\ arg'[w].id = arg'[u].id => w = u
    BY <1>1, <1>4, <1>6, <1>7, <1>8, <1>10 DEF CallInv, history
  <2>2. \A u \in Threads : pc'[u] = "enqSync" =>
         /\ Len(file') > 0
         /\ IsEnq(file', Len(file'))
         /\ MessageOf(file'[Len(file')].rec) = arg'[u]
         /\ arg'[u] \in Live(file')
    BY <1>6, <1>7, <1>8, <1>10 DEF Writing
  <2>3. \A u \in Threads : pc'[u] # "deqSync"
    BY <1>10 DEF Writing
  <2> QED BY <2>1, <2>2, <2>3 DEF CallInv, IsEnq
<1>12. InFlight = {} /\ InFlight' = {m}
  BY <1>1, <1>10, NoneInFlight DEF InFlight, Writing
<1>13. MemoryInv'
  BY <1>1, <1>3, <1>6, <1>12 DEF MemoryInv, MemoryMatchesLog
<1> QED BY <1>9, <1>11, <1>13

LEMMA EnqueueSyncSafe ==
  ASSUME SafetyInv, TypeOK', Exclusion', NEW t \in Threads, EnqueueSync(t)
  PROVE  SafetyInv'
<1> USE DEF SafetyInv
<1>1. /\ ControlOK /\ pc[t] = "enqSync" /\ Return(t)
      /\ synced' = Len(file)
      /\ delayed' = delayed \cup {arg[t]}
      /\ acked' = acked \cup {arg[t]}
      /\ UNCHANGED <<up, ready, file, issued, popped, deliveries>>
  BY DEF TypeOK, EnqueueSync
<1>2. up = "up"
  BY <1>1, Running
<1>3. /\ Len(file) > 0 /\ IsEnq(file, Len(file))
      /\ MessageOf(file[Len(file)].rec) = arg[t] /\ arg[t] \in Live(file)
  BY <1>1 DEF CallInv
<1>4. Len(file) \in Nat /\ synced \in 0..Len(file)
  BY FileType
<1>5. /\ pc'[t] = "idle"
      /\ \A u \in Threads : u # t => pc'[u] = pc[u] /\ arg'[u] = arg[u] /\ pc[u] \notin Writing
  BY <1>1 DEF ControlOK, Return, Goto, Exclusion, Writing
<1>6. LogInv'
  <2>1. \A i \in 1..synced : i \in 1..Len(file)
    BY <1>4
  <2>2. \A x \in acked' : \E i \in 1..Len(file) : IsEnq(file, i) /\ MessageOf(file[i].rec) = x
    <3> SUFFICES ASSUME NEW x \in acked'
                 PROVE  \E i \in 1..Len(file) : IsEnq(file, i) /\ MessageOf(file[i].rec) = x
      OBVIOUS
    <3>1. CASE x \in acked
      BY <2>1, <3>1 DEF LogInv
    <3>2. CASE x = arg[t]
      <4>1. Len(file) \in 1..Len(file)
        BY <1>3, <1>4
      <4> QED BY <1>3, <3>2, <4>1
    <3> QED BY <1>1, <3>1, <3>2
  <2>3. \A id \in Ids :
       deliveries[id] = 0 \/ /\ deliveries[id] = 1
                             /\ \E i \in 1..Len(file) : IsDeq(file, i) /\ file[i].rec.id = id
    BY <2>1 DEF LogInv
  <2> QED BY <1>1, <2>2, <2>3 DEF LogInv, IsEnq, IsDeq, WellFormed
<1>7. CallInv'
  BY <1>1, <1>5 DEF CallInv, IsEnq, IsDeq
<1>8. InFlight = {arg[t]} /\ InFlight' = {}
  BY <1>1, <1>5 DEF InFlight, Writing
<1>9. MemoryInv'
  BY <1>1, <1>2, <1>3, <1>8 DEF MemoryInv, MemoryMatchesLog
<1> QED BY <1>6, <1>7, <1>9

-----------------------------------------------------------------------------
(* The steps of Dequeue.                                                   *)

(* A live message has no tombstone, was issued and was never delivered.    *)
LEMMA LiveFacts ==
  ASSUME SafetyInv, NEW m \in Live(file)
  PROVE  /\ m \in Messages
         /\ deliveries[m.id] = 0
         /\ \E i \in 1..Len(file) : file[i].rec.id = m.id
<1>1. file \in Seq(Chunks) /\ WellFormed(file) /\ synced \in 0..Len(file) /\ Len(file) \in Nat
  BY FileType DEF SafetyInv, LogInv
<1>2. m \in Messages
  BY <1>1, LiveType
<1>3. PICK i \in 1..Len(file) : /\ IsEnq(file, i)
                                /\ ~Removed(file, file[i].rec.id)
                                /\ m = MessageOf(file[i].rec)
  BY <1>1, LiveWellFormed
<1>4. file[i].rec.id = m.id
  BY <1>1, <1>3, ChunkType
<1>5. ~Removed(file, m.id)
  BY <1>3, <1>4
<1>6. \A j \in 1..synced : j \in 1..Len(file)
  BY <1>1
<1>7. m.id \in Ids
  BY <1>2 DEF Messages
<1>8. deliveries[m.id] = 0
  BY <1>5, <1>6, <1>7 DEF SafetyInv, LogInv, Removed
<1> QED BY <1>2, <1>4, <1>8

LEMMA DequeueAppendSafe ==
  ASSUME SafetyInv, TypeOK', Exclusion', NEW t \in Threads, DequeueAppend(t)
  PROVE  SafetyInv'
<1> USE DEF SafetyInv
<1>1. /\ ControlOK /\ pc[t] = "dequeue" /\ NoWriter
      /\ delayed' = delayed \ Matured(delayed, now)
      /\ UNCHANGED <<up, synced, issued, acked, deliveries>>
  BY DEF TypeOK, DequeueAppend, Enter, NoHolder
<1>2. PICK m \in Best(mode, Visible(now)) :
        /\ ready' = Visible(now) \ {m}
        /\ Append1(DequeueRecord(walSeq + 1, m.id))
        /\ popped' = popped \cup {m.id}
        /\ Goto(t, "deqSync", m)
  BY DEF DequeueAppend
<1>3. up = "up" /\ InFlight = {}
  BY <1>1, Running, NoneInFlight
<1>4. ready \cup delayed = Live(file) /\ ready \cap delayed = {}
  BY <1>3 DEF MemoryInv, MemoryMatchesLog
<1>5. m \in Live(file) /\ m \in Visible(now)
  BY <1>4 DEF Best, Visible, Matured
<1>6. /\ m \in Messages /\ m.id \in Ids
      /\ deliveries[m.id] = 0
      /\ \E i \in 1..Len(file) : file[i].rec.id = m.id
  BY <1>5, LiveFacts DEF Messages
<1>7. /\ m.id \in issued
      /\ \A u \in Threads : pc[u] = "enqueue" => arg[u].id # m.id
  BY <1>6 DEF LogInv, CallInv
<1>8. walSeq + 1 \in Nat /\ file \in Seq(Chunks) /\ WellFormed(file)
  BY FileType DEF TypeOK, DataOK, LogInv
<1>9. Lost(file, file', m.id)
  <2> DEFINE n == walSeq + 1 g == file' id == m.id
  <2>1. n \in Nat /\ id \in Ids
    BY <1>6, <1>8
  <2>2. g = Append(file, Chunk(DequeueRecord(n, id), "whole"))
    BY <1>2 DEF Append1
  <2> HIDE DEF SafetyInv, n, g, id
  <2>3. Lost(file, g, id)
    BY <1>8, <2>1, <2>2, AppendDequeue
  <2> QED BY <2>3 DEF g, id
<1>10. /\ Len(file') = Len(file) + 1
       /\ \A i \in 1..Len(file) : file'[i] = file[i]
  BY <1>2, <1>6, <1>8, RecordType, AppendFacts DEF Append1
<1>11. /\ Len(file) \in Nat /\ synced \in 0..Len(file)
       /\ \A i \in 1..Len(file') : i \in 1..Len(file) \/ i = Len(file')
  BY <1>10, FileType
<1>12. /\ WellFormed(file') /\ IsDeq(file', Len(file'))
       /\ file'[Len(file')].rec.id = m.id
  BY <1>9 DEF Lost
<1>13. LogInv'
  <2>1. \A i \in 1..Len(file') : file'[i].rec.id \in issued
    BY <1>7, <1>10, <1>11, <1>12 DEF LogInv
  <2>2. \A i \in 1..Len(file') : IsDeq(file', i) => file'[i].rec.id \in popped'
    BY <1>2, <1>10, <1>11, <1>12 DEF LogInv, IsDeq
  <2>3. \A i \in 1..synced : file'[i] = file[i]
    BY <1>10, <1>11
  <2> QED BY <1>1, <1>12, <2>1, <2>2, <2>3 DEF LogInv, IsEnq, IsDeq
<1>14. /\ pc'[t] = "deqSync" /\ arg'[t] = m
       /\ \A u \in Threads : u # t => pc'[u] = pc[u] /\ arg'[u] = arg[u]
       /\ \A u \in Threads : u # t => pc'[u] \notin Writing
  BY <1>1, <1>2 DEF ControlOK, Goto, NoWriter
<1>15. CallInv'
  <2>1. \A u \in Threads : pc'[u] = "enqueue" =>
         /\ arg'[u].id \in issued'
         /\ \A i \in 1..Len(file') : file'[i].rec.id # arg'[u].id
         /\ \A w \in Threads : pc'[w] = "enqueue" /\ arg'[w].id = arg'[u].id => w = u
    BY <1>1, <1>7, <1>10, <1>11, <1>12, <1>14 DEF CallInv
  <2>2. \A u \in Threads : pc'[u] # "enqSync"
    BY <1>14 DEF Writing
  <2>3. \A u \in Threads : pc'[u] = "deqSync" =>
         /\ Len(file') > 0
         /\ IsDeq(file', Len(file'))
         /\ file'[Len(file')].rec.id = arg'[u].id
         /\ deliveries'[arg'[u].id] = 0
    BY <1>1, <1>6, <1>10, <1>11, <1>12, <1>14 DEF Writing
  <2> QED BY <2>1, <2>2, <2>3 DEF CallInv, IsDeq
<1>16. InFlight' = {}
  BY <1>14 DEF InFlight, Writing
<1>17. Live(file') = Live(file) \ {m}
  <2>1. Live(file') = {x \in Live(file) : x.id # m.id}
    BY <1>9 DEF Lost
  <2>2. \A x \in Live(file) : x.id = m.id => x = m
    BY <1>5, <1>8, LiveUnique
  <2> QED BY <2>1, <2>2
<1>18. ready' \cup delayed' = Live(file) \ {m} /\ ready' \cap delayed' = {}
  BY <1>1, <1>2, <1>4, <1>5 DEF Visible, Matured
<1>19. MemoryInv'
  BY <1>1, <1>3, <1>16, <1>17, <1>18 DEF MemoryInv, MemoryMatchesLog
<1> QED BY <1>13, <1>15, <1>19

LEMMA DequeueSyncSafe ==
  ASSUME SafetyInv, TypeOK', Exclusion', NEW t \in Threads, DequeueSync(t)
  PROVE  SafetyInv'
<1> USE DEF SafetyInv
<1>1. /\ ControlOK /\ pc[t] = "deqSync" /\ Return(t)
      /\ synced' = Len(file)
      /\ deliveries' = [deliveries EXCEPT ![arg[t].id] = @ + 1]
      /\ UNCHANGED <<up, ready, delayed, file, issued, acked, popped>>
  BY DEF TypeOK, DequeueSync, memory
<1>2. /\ Len(file) > 0 /\ IsDeq(file, Len(file))
      /\ file[Len(file)].rec.id = arg[t].id /\ deliveries[arg[t].id] = 0
  BY <1>1 DEF CallInv
<1>3. /\ Len(file) \in Nat /\ synced \in 0..Len(file)
      /\ Len(file) \in 1..Len(file)
      /\ \A i \in 1..synced : i \in 1..Len(file)
  BY <1>2, FileType
<1>4. arg[t].id \in Ids /\ deliveries \in [Ids -> Nat]
  BY <1>1 DEF TypeOK, DataOK, ControlOK, ArgOK, Writing, Messages
<1>5. /\ deliveries'[arg[t].id] = 1
      /\ \A id \in Ids : id # arg[t].id => deliveries'[id] = deliveries[id]
  BY <1>1, <1>2, <1>4
<1>6. /\ pc'[t] = "idle"
      /\ \A u \in Threads : u # t => pc'[u] = pc[u] /\ arg'[u] = arg[u] /\ pc[u] \notin Writing
  BY <1>1 DEF ControlOK, Return, Goto, Exclusion, Writing
<1>7. LogInv'
  <2>1. \A x \in acked : \E i \in 1..Len(file) : IsEnq(file, i) /\ MessageOf(file[i].rec) = x
    BY <1>3 DEF LogInv
  <2>2. ASSUME NEW id \in Ids
        PROVE  deliveries'[id] = 0 \/ /\ deliveries'[id] = 1
                                      /\ \E i \in 1..Len(file) : IsDeq(file, i) /\ file[i].rec.id = id
    <3>1. CASE id = arg[t].id
      BY <1>2, <1>3, <1>5, <3>1
    <3>2. CASE id # arg[t].id
      BY <1>3, <1>5, <3>2 DEF LogInv
    <3> QED BY <3>1, <3>2
  <2> QED BY <1>1, <2>1, <2>2 DEF LogInv, IsEnq, IsDeq, WellFormed
<1>8. CallInv'
  BY <1>1, <1>6 DEF CallInv, IsEnq, IsDeq, Writing
<1>9. InFlight' = InFlight
  <2>1. "idle" # "enqSync" /\ pc[t] # "enqSync"
    BY <1>1
  <2> QED BY <1>1, <2>1, SameInFlight DEF Return
<1>10. MemoryInv'
  BY <1>1, <1>9 DEF MemoryInv, MemoryMatchesLog
<1> QED BY <1>7, <1>8, <1>10

-----------------------------------------------------------------------------
(* Failures and restarts.                                                  *)

(* A process that is gone leaves a prefix of its log that contains all     *)
(* that was synced, and no call behind.                                    *)
LEMMA VanishSafe ==
  ASSUME SafetyInv, TypeOK', Exclusion', Vanish,
         NEW k \in synced..Len(file), file' = SubSeq(file, 1, k),
         synced' \in synced..k
  PROVE  SafetyInv'
<1>1. /\ \A t \in Threads : pc'[t] = "idle"
      /\ up' = "down" /\ ready' = {} /\ delayed' = {}
      /\ UNCHANGED <<issued, acked, popped, deliveries>>
  BY DEF Vanish, history
<1>2. /\ file \in Seq(Chunks) /\ WellFormed(file)
      /\ synced \in Nat /\ Len(file) \in Nat /\ k \in 0..Len(file)
  BY FileType DEF SafetyInv, LogInv
<1>3. /\ WellFormed(file')
      /\ Len(file') = k
      /\ \A i \in 1..k : file'[i] = file[i] /\ i \in 1..Len(file)
  BY <1>2, PrefixWellFormed, SubSeqType
<1>4. \A i \in 1..synced : i \in 1..synced' /\ file'[i] = file[i]
  BY <1>2, <1>3
<1>5. LogInv'
  <2>1. \A i \in 1..Len(file') : /\ file'[i].rec.id \in issued
                                 /\ IsDeq(file', i) => file'[i].rec.id \in popped
    BY <1>3 DEF SafetyInv, LogInv, IsDeq
  <2>2. \A m \in acked :
          \E i \in 1..synced' : IsEnq(file', i) /\ MessageOf(file'[i].rec) = m
    BY <1>4 DEF SafetyInv, LogInv, IsEnq
  <2>3. \A id \in Ids :
          deliveries[id] = 0 \/ /\ deliveries[id] = 1
                                /\ \E i \in 1..synced' : IsDeq(file', i) /\ file'[i].rec.id = id
    BY <1>4 DEF SafetyInv, LogInv, IsDeq
  <2> QED BY <1>1, <1>3, <2>1, <2>2, <2>3 DEF LogInv, IsEnq, IsDeq
<1>6. CallInv'
  BY <1>1 DEF CallInv
<1>7. MemoryInv'
  BY <1>1 DEF MemoryInv, MemoryMatchesLog
<1> QED BY <1>5, <1>6, <1>7 DEF SafetyInv

LEMMA KillSafe ==
  ASSUME SafetyInv, TypeOK', Exclusion', Kill
  PROVE  SafetyInv'
<1>1. file \in Seq(Chunks) /\ synced \in 0..Len(file) /\ Len(file) \in Nat
  BY FileType DEF SafetyInv
<1>2. file' = SubSeq(file, 1, Len(file)) /\ synced' = synced /\ Vanish
  BY <1>1 DEF Kill, log
<1>3. Len(file) \in synced..Len(file) /\ synced' \in synced..Len(file)
  BY <1>1, <1>2
<1> QED BY <1>2, <1>3, VanishSafe

LEMMA PowerLossSafe ==
  ASSUME CleanFaults, SafetyInv, TypeOK', Exclusion', PowerLoss
  PROVE  SafetyInv'
<1>1. PICK k \in synced..Len(file) : file' = SubSeq(file, 1, k)
  BY DEF PowerLoss, CleanFaults
<1>2. file \in Seq(Chunks) /\ synced \in 0..Len(file) /\ Len(file) \in Nat
  BY FileType DEF SafetyInv
<1>3. k \in 0..Len(file) /\ synced' = Len(file')
  BY <1>2 DEF PowerLoss
<1>4. synced' = k
  BY <1>1, <1>2, <1>3, SubSeqType
<1>5. synced' \in synced..k
  BY <1>2, <1>4
<1> QED BY <1>1, <1>5, VanishSafe DEF PowerLoss

LEMMA BootSafe ==
  ASSUME SafetyInv, TypeOK', Exclusion', Boot
  PROVE  SafetyInv'
<1> USE DEF SafetyInv
<1>1. /\ delayed' = Live(file) /\ ready = {} /\ up' = "up"
      /\ UNCHANGED <<ready, file, synced, history, pc, arg>>
  BY DEF Boot, log, MemoryInv
<1>2. \A t \in Threads : pc'[t] = "idle"
  BY <1>1 DEF Boot, Exclusion
<1>3. LogInv' /\ CallInv'
  BY <1>1, <1>2, QuietStep
<1>4. InFlight' = {}
  BY <1>2 DEF InFlight
<1>5. MemoryInv'
  BY <1>1, <1>4 DEF MemoryInv, MemoryMatchesLog
<1> QED BY <1>3, <1>5

(* Close, the clock, a refused start: nothing the invariant reads changes. *)
LEMMA IdleStep ==
  ASSUME SafetyInv, TypeOK', Exclusion',
         UNCHANGED <<file, synced, history, pc, arg, ready, delayed>>,
         up' = up \/ (up # "up" /\ up' # "up")
  PROVE  SafetyInv'
<1>1. LogInv' /\ CallInv'
  BY QuietStep
<1>2. InFlight' = InFlight
  BY DEF InFlight
<1>3. MemoryInv'
  BY <1>2 DEF SafetyInv, MemoryInv, MemoryMatchesLog
<1> QED BY <1>1, <1>3 DEF SafetyInv

-----------------------------------------------------------------------------
LEMMA EnqueueSafe ==
  ASSUME CleanFaults, SafetyInv, TypeOK', Exclusion', NEW t \in Threads,
         \/ \E req \in Requests, id \in Ids : EnqueueCall(t, req, id)
         \/ EnqueueAppend(t) \/ EnqueueAppendFails(t)
         \/ EnqueueSync(t) \/ EnqueueSyncFails(t)
  PROVE  SafetyInv'
<1>1. CASE \E req \in Requests, id \in Ids : EnqueueCall(t, req, id)
  BY <1>1, EnqueueCallSafe
<1>2. CASE EnqueueAppend(t)
  BY <1>2, EnqueueAppendSafe
<1>3. CASE EnqueueAppendFails(t)
  <2>1. file' = file
    BY <1>3, CleanFailure DEF EnqueueAppendFails
  <2>2. /\ pc[t] = "enqueue" /\ Return(t) /\ up' = up
        /\ UNCHANGED <<synced, history, ready, delayed>>
    BY <1>3 DEF EnqueueAppendFails, Enter
  <2>3. up = "up"
    BY <2>2, Running DEF SafetyInv
  <2> QED BY <2>1, <2>2, <2>3, QuietReturn
<1>4. CASE EnqueueSync(t)
  BY <1>4, EnqueueSyncSafe
<1>5. CASE EnqueueSyncFails(t)
  BY <1>5 DEF EnqueueSyncFails, CleanFaults
<1> QED BY <1>1, <1>2, <1>3, <1>4, <1>5

LEMMA DequeueSafe ==
  ASSUME CleanFaults, SafetyInv, TypeOK', Exclusion', NEW t \in Threads,
         \/ DequeueCall(t) \/ DequeueEmpty(t)
         \/ DequeueAppend(t) \/ DequeueAppendFails(t)
         \/ DequeueSync(t) \/ DequeueSyncFails(t)
         \/ RefuseClosed(t)
  PROVE  SafetyInv'
<1>1. CASE DequeueCall(t)
  <2>1. /\ pc[t] = "idle" /\ Goto(t, "dequeue", Nil) /\ up = "up" /\ up' = up
        /\ UNCHANGED <<file, synced, history, ready, delayed>>
    BY <1>1 DEF DequeueCall, memory, log
  <2>2. "dequeue" \in Labels
    BY DEF Labels
  <2> QED BY <2>1, <2>2, QuietMove
<1>2. CASE DequeueEmpty(t)
  <2>1. /\ pc[t] = "dequeue" /\ Return(t) /\ up' = up /\ Promote(now)
        /\ UNCHANGED <<file, synced, history>>
    BY <1>2 DEF DequeueEmpty, Enter, log
  <2>2. up = "up"
    BY <2>1, Running DEF SafetyInv
  <2>3. ready \cap delayed = {} =>
          ready' \cup delayed' = ready \cup delayed /\ ready' \cap delayed' = {}
    BY <2>1, PromoteKeeps
  <2> QED BY <2>1, <2>2, <2>3, QuietReturn
<1>3. CASE DequeueAppend(t)
  BY <1>3, DequeueAppendSafe
<1>4. CASE DequeueAppendFails(t)
  <2>1. PICK m \in Best(mode, Visible(now)) :
          /\ ready' = Visible(now) \ {m}
          /\ delayed' = (delayed \ Matured(delayed, now)) \cup {m}
          /\ FailedAppend(DequeueRecord(walSeq + 1, m.id))
          /\ popped' = IF Live(file') = Live(file) THEN popped ELSE popped \cup {m.id}
    BY <1>4 DEF DequeueAppendFails
  <2>2. file' = file
    BY <2>1, CleanFailure
  <2>3. /\ pc[t] = "dequeue" /\ Return(t) /\ up' = up
        /\ UNCHANGED <<file, synced, history>>
    BY <1>4, <2>1, <2>2 DEF DequeueAppendFails, Enter, history
  <2>4. up = "up"
    BY <2>3, Running DEF SafetyInv
  <2>5. m \in Visible(now)
    BY DEF Best
  <2>6. ready \cap delayed = {} =>
          ready' \cup delayed' = ready \cup delayed /\ ready' \cap delayed' = {}
    BY <2>1, <2>5 DEF Visible, Matured
  <2> QED BY <2>3, <2>4, <2>6, QuietReturn
<1>5. CASE DequeueSync(t)
  BY <1>5, DequeueSyncSafe
<1>6. CASE DequeueSyncFails(t)
  BY <1>6 DEF DequeueSyncFails, CleanFaults
<1>7. CASE RefuseClosed(t)
  <2>1. /\ pc[t] \in {"enqueue", "dequeue"} /\ Return(t) /\ up' = up
        /\ UNCHANGED <<file, synced, history, ready, delayed>>
    BY <1>7 DEF RefuseClosed, memory, log
  <2>2. up = "up"
    BY <2>1, Running DEF SafetyInv
  <2> QED BY <2>1, <2>2, QuietReturn
<1> QED BY <1>1, <1>2, <1>3, <1>4, <1>5, <1>6, <1>7

LEMMA ReadSafe ==
  ASSUME SafetyInv, TypeOK', Exclusion', NEW t \in Threads, Read(t)
  PROVE  SafetyInv'
<1>1. ASSUME NEW label \in {"stats", "statsLen", "snapshot"}, NEW value,
             Goto(t, label, value), pc[t] \in {"idle", "stats"},
             up = "up", UNCHANGED <<up, file, synced, history, ready, delayed>>
      PROVE  SafetyInv'
  <2>1. label \in Labels /\ label \notin {"enqueue", "enqSync", "deqSync"}
    BY <1>1 DEF Labels, Reading
  <2> QED BY <1>1, <2>1, QuietMove
<1>2. ASSUME NEW at, pc[t] \in {"statsLen", "snapshot"}, Promote(at), Return(t),
             UNCHANGED <<up, file, synced, history>>
      PROVE  SafetyInv'
  <2>1. up = "up"
    BY <1>2, Running DEF SafetyInv
  <2>2. ready \cap delayed = {} =>
          ready' \cup delayed' = ready \cup delayed /\ ready' \cap delayed' = {}
    BY <1>2, PromoteKeeps
  <2> QED BY <1>2, <2>1, <2>2, QuietReturn
<1>3. CASE StatsCall(t)
  BY <1>1, <1>3 DEF StatsCall, memory, log
<1>4. CASE StatsLen(t)
  <2>1. up = "up"
    BY <1>4, Running DEF StatsLen, SafetyInv
  <2> QED BY <1>1, <1>4, <2>1 DEF StatsLen, memory, log
<1>5. CASE StatsAvailableLen(t)
  BY <1>2, <1>5 DEF StatsAvailableLen, log
<1>6. CASE SnapshotCall(t)
  BY <1>1, <1>6 DEF SnapshotCall, memory, log
<1>7. CASE SnapshotTake(t)
  BY <1>2, <1>7 DEF SnapshotTake, log
<1> QED BY <1>3, <1>4, <1>5, <1>6, <1>7 DEF Read

(* One step of any action keeps the invariant.                             *)
LEMMA SafetyStep ==
  ASSUME CleanFaults, SafetyInv, [Next]_vars
  PROVE  SafetyInv'
<1>0. TypeOK' /\ Exclusion'
  BY TypeStep DEF SafetyInv
<1>1. ASSUME NEW t \in Writers, Write(t) PROVE SafetyInv'
  BY <1>0, <1>1, EnqueueSafe, DequeueSafe DEF Write, Threads
<1>2. ASSUME NEW t \in Readers, Read(t) PROVE SafetyInv'
  BY <1>0, <1>2, ReadSafe DEF Threads
<1>3. CASE Close
  BY <1>0, <1>3, IdleStep DEF Close, log
<1>4. CASE Kill
  BY <1>0, <1>4, KillSafe
<1>5. CASE PowerLoss
  BY <1>0, <1>5, PowerLossSafe
<1>6. CASE Boot
  BY <1>0, <1>6, BootSafe
<1>7. CASE BootFails
  BY <1>0, <1>7, IdleStep DEF BootFails, memory, log
<1>8. CASE Clock
  BY <1>0, <1>8, IdleStep DEF Clock, memory, log
<1>9. CASE UNCHANGED vars
  BY <1>0, <1>9, IdleStep DEF vars, memory, log
<1> QED BY <1>1, <1>2, <1>3, <1>4, <1>5, <1>6, <1>7, <1>8, <1>9 DEF Next

LEMMA SafetyInit ==
  ASSUME Init
  PROVE  SafetyInv
<1>1. TypeOK /\ Exclusion
  BY TypeInit
<1>2. /\ Len(file) = 0 /\ synced = 0 /\ acked = {} /\ InFlight = {}
      /\ \A id \in Ids : deliveries[id] = 0
      /\ \A t \in Threads : pc[t] = "idle"
  BY DEF Init, InFlight
<1>3. LogInv
  BY <1>2 DEF LogInv, WellFormed
<1>4. CallInv
  BY <1>2 DEF CallInv
<1>5. MemoryInv
  BY DEF Init, MemoryInv, MemoryMatchesLog
<1> QED BY <1>1, <1>3, <1>4, <1>5 DEF SafetyInv

(* What the invariant says in the terms of the service's documentation.    *)
LEMMA SafetyImplies ==
  ASSUME SafetyInv
  PROVE  Durability /\ AtMostOnce /\ MemoryMatchesLog
<1>1. file \in Seq(Chunks) /\ WellFormed(file) /\ synced \in 0..Len(file) /\ Len(file) \in Nat
  BY FileType DEF SafetyInv, LogInv
<1>2. ASSUME NEW m \in acked PROVE m \in Live(file) \/ m.id \in popped
  <2>1. PICK i \in 1..synced : IsEnq(file, i) /\ MessageOf(file[i].rec) = m
    BY DEF SafetyInv, LogInv
  <2>2. i \in 1..Len(file)
    BY <1>1
  <2>3. file[i].rec.id = m.id
    BY <1>1, <2>1, <2>2, ChunkType
  <2>4. CASE Removed(file, m.id)
    BY <2>4 DEF SafetyInv, LogInv, Removed
  <2>5. CASE ~Removed(file, m.id)
    BY <1>1, <2>1, <2>2, <2>3, <2>5, LiveWellFormed
  <2> QED BY <2>4, <2>5
<1>3. Durability
  BY <1>1, <1>2, AllSound DEF Durability
<1>4. AtMostOnce
  BY DEF SafetyInv, LogInv, AtMostOnce
<1> QED BY <1>3, <1>4 DEF SafetyInv, MemoryInv

(* The inductive invariant holds for ever, without torn writes and failed  *)
(* fsyncs.                                                                 *)
LEMMA SafetyInvariant == CleanFaults => (Spec => []SafetyInv)
<1> SUFFICES ASSUME CleanFaults PROVE Spec => []SafetyInv
  OBVIOUS
<1>1. Init => SafetyInv
  BY SafetyInit
<1>2. SafetyInv /\ [Next]_vars => SafetyInv'
  BY SafetyStep
<1> QED BY <1>1, <1>2, PTL DEF Spec

(* An acknowledged Enqueue survives any number of kills, power losses and  *)
(* refused writes until its tombstone is written: fsync before the         *)
(* acknowledgement is enough when appends are not torn.                    *)
THEOREM DurabilityTheorem == CleanFaults => (Spec => []Durability)
<1>1. SafetyInv => Durability
  BY SafetyImplies
<1> QED BY <1>1, SafetyInvariant, PTL

(* No id is delivered twice across restarts: Dequeue makes the tombstone   *)
(* durable before it hands the message over.                               *)
THEOREM AtMostOnceTheorem == CleanFaults => (Spec => []AtMostOnce)
<1>1. SafetyInv => AtMostOnce
  BY SafetyImplies
<1> QED BY <1>1, SafetyInvariant, PTL

(* The heaps always hold exactly what a replay of the log would rebuild,   *)
(* less the message of the one Enqueue between its write and its Push.     *)
THEOREM MemoryMatchesLogTheorem == CleanFaults => (Spec => []MemoryMatchesLog)
<1>1. SafetyInv => MemoryMatchesLog
  BY SafetyImplies
<1> QED BY <1>1, SafetyInvariant, PTL
=============================================================================
