------------------------- MODULE QueueServiceProofs -------------------------
(***************************************************************************)
(* Type correctness and mutual exclusion of the service, proved for every  *)
(* number of goroutines, every set of requests and every kind of fault.    *)
(* TypeOK alone is not inductive: a failed fsync gives seq back, so the    *)
(* proof needs that only one goroutine is in a write section (Exclusion).  *)
(***************************************************************************)
EXTENDS QueueService, TLAPS

(* Two facts of arithmetic.                                                *)

LEMMA ModSmall ==
  ASSUME NEW a \in Nat, NEW b \in Nat, a < b
  PROVE  a % b = a
  OBVIOUS

LEMMA ProductMonotone ==
  ASSUME NEW a \in Nat, NEW b \in Nat, NEW c \in Nat, a <= b
  PROVE  a * c <= b * c /\ a * c \in Nat
  OBVIOUS

(* A delay that passes Validate is not wrapped: it is added as requested.  *)
LEMMA NoWrap ==
  ASSUME NEW delay \in 0..MaxDelaySeconds
  PROVE  /\ Wrap(delay * Second) = delay * Second
         /\ delay * Second \in 0..(MaxDelaySeconds * Second)
<1> DEFINE d == delay * Second
<1>1. d \in Nat /\ d <= MaxDelaySeconds * Second
  BY ProductMonotone, DelayCapAssumption
<1>2. d < HalfRange
  BY <1>1, DelayCapAssumption
<1>3. (d + HalfRange) % (2 * HalfRange) = d + HalfRange
  <2> HIDE DEF d
  <2>1. d + HalfRange \in Nat /\ 2 * HalfRange \in Nat /\ d + HalfRange < 2 * HalfRange
    BY <1>1, <1>2, DelayCapAssumption
  <2> QED BY <2>1, ModSmall
<1>4. Wrap(d) = d
  <2> HIDE DEF d
  <2> QED BY <1>1, <1>3, DelayCapAssumption DEF Wrap
<1> QED BY <1>1, <1>4, DelayCapAssumption

-----------------------------------------------------------------------------
(* The mutex: one goroutine at most is in a write section, and goroutines  *)
(* exist only while the process runs.                                      *)
Exclusion ==
  /\ \A t, u \in Threads : pc[t] \in Writing /\ pc[u] \in Writing => t = u
  /\ up # "up" => \A t \in Threads : pc[t] = "idle"

Chunks == [rec : Records, part : Parts]

LEMMA NewMessageType ==
  ASSUME now \in Nat, seq \in Nat,
         NEW r \in [id : Ids, priority : Int, delay : 0..MaxDelaySeconds]
  PROVE  /\ NewMessage(r) \in Messages
         /\ NewMessage(r).seq = seq + 1
         /\ NewMessage(r).id = r.id
<1>1. AvailableAt(now, r.delay) \in Int
  BY NoWrap DEF AvailableAt
<1> QED BY <1>1 DEF NewMessage, Messages

LEMMA RecordType ==
  ASSUME NEW n \in Nat
  PROVE  /\ \A m \in Messages : EnqueueRecord(n, m) \in Records
         /\ \A id \in Ids : DequeueRecord(n, id) \in Records
  BY DEF EnqueueRecord, DequeueRecord, Records, Messages

LEMMA MessageOfType ==
  ASSUME NEW r \in Records, r.op = "ENQUEUE"
  PROVE  MessageOf(r) \in Messages
  BY DEF MessageOf, Records, Messages, Deref

LEMMA LiveType ==
  ASSUME NEW f \in Seq(Chunks)
  PROVE  Live(f) \subseteq Messages
<1> SUFFICES ASSUME NEW i \in 1..Len(f), LiveAt(f, i)
             PROVE  MessageOf(f[i].rec) \in Messages
  BY DEF Live
<1>1. f[i] \in Chunks
  OBVIOUS
<1>2. f[i].rec \in Records
  BY <1>1 DEF Chunks
<1>3. f[i].rec.op = "ENQUEUE"
  BY DEF LiveAt, Enqueues
<1> QED BY <1>2, <1>3, MessageOfType

LEMMA AppendType ==
  ASSUME NEW f \in Seq(Chunks), NEW r \in Records, NEW p \in Parts
  PROVE  /\ Append(f, Chunk(r, p)) \in Seq(Chunks)
         /\ Len(Append(f, Chunk(r, p))) = Len(f) + 1
<1>1. Chunk(r, p) \in Chunks
  BY DEF Chunk, Chunks
<1> QED BY <1>1

LEMMA SubSeqType ==
  ASSUME NEW f \in Seq(Chunks), NEW k \in 0..Len(f)
  PROVE  /\ SubSeq(f, 1, k) \in Seq(Chunks)
         /\ Len(SubSeq(f, 1, k)) = k
  OBVIOUS

-----------------------------------------------------------------------------
Labels == {"idle", "enqueue", "dequeue"} \cup Writing \cup Reading

(* A goroutine moves, alone: to a place outside the write sections, or     *)
(* into one while nobody is inside.                                        *)
LEMMA MoveType ==
  ASSUME ControlOK, Exclusion, NEW t \in Threads, NEW label \in Labels, NEW value,
         Goto(t, label, value), up = "up", up' = up,
         label \in Writing => NoWriter,
         \A u \in Threads : pc[u] = "enqSync" /\ u # t => seq' # 0,
         ArgOK(t)'
  PROVE  ControlOK' /\ Exclusion'
<1>1. /\ Exclusion'
      /\ pc' \in [Threads -> Labels]
      /\ arg' = [u \in Threads |-> arg'[u]]
  BY DEF ControlOK, Exclusion, Goto, NoWriter, Labels, Writing, Reading
<1>2. \A u \in Threads : ArgOK(u)'
  <2> SUFFICES ASSUME NEW u \in Threads, u # t
               PROVE  ArgOK(u)'
    OBVIOUS
  <2>1. pc'[u] = pc[u]
    BY DEF ControlOK, Goto
  <2>2. arg'[u] = arg[u]
    BY DEF ControlOK, Goto
  <2>3. ArgOK(u)
    BY DEF ControlOK
  <2> QED BY <2>1, <2>2, <2>3 DEF ArgOK
<1> QED BY <1>1, <1>2 DEF ControlOK, Labels

LEMMA ReturnType ==
  ASSUME ControlOK, Exclusion, NEW t \in Threads, Return(t), up = "up", up' = up,
         \A u \in Threads : pc[u] = "enqSync" /\ u # t => seq' # 0
  PROVE  ControlOK' /\ Exclusion'
<1>1. pc'[t] = "idle"
  BY DEF ControlOK, Return, Goto
<1>2. ArgOK(t)'
  BY <1>1 DEF ArgOK, Writing
<1>3. "idle" \in Labels /\ "idle" \notin Writing
  BY DEF Labels, Writing
<1> QED BY <1>2, <1>3, MoveType DEF Return

(* A goroutine in the middle of a call belongs to a running process.       *)
LEMMA Running ==
  ASSUME Exclusion, NEW t \in Threads, pc[t] # "idle"
  PROVE  up = "up"
  BY DEF Exclusion

LEMMA PromoteType ==
  ASSUME DataOK, NEW at, Promote(at)
  PROVE  ready' \subseteq Messages /\ delayed' \subseteq Messages
  BY DEF DataOK, Promote, Visible, Matured

LEMMA VisibleType ==
  ASSUME DataOK, NEW at
  PROVE  /\ Visible(at) \subseteq Messages
         /\ Best(mode, Visible(at)) \subseteq Visible(at)
         /\ delayed \ Matured(delayed, at) \subseteq Messages
  BY DEF DataOK, Visible, Matured, Best

LEMMA FailedAppendType ==
  ASSUME DataOK, NEW r \in Records, FailedAppend(r)
  PROVE  file' \in Seq(Chunks) /\ Len(file') >= Len(file)
<1>0. file \in Seq(Chunks)
  BY DEF DataOK, Chunks
<1>1. CASE UNCHANGED file
  BY <1>0, <1>1
<1>2. CASE \E part \in Fragments("whole") : file' = Append(file, Chunk(r, part))
  <2>1. PICK part \in Fragments("whole") : file' = Append(file, Chunk(r, part))
    BY <1>2
  <2>2. part \in Parts
    BY DEF Fragments, Parts
  <2> QED BY <1>0, <2>1, <2>2, AppendType
<1> QED BY <1>1, <1>2 DEF FailedAppend

(* The new types of the log after a successful append.                     *)
LEMMA Append1Type ==
  ASSUME DataOK, NEW r \in Records, Append1(r)
  PROVE  file' \in Seq(Chunks) /\ Len(file') = Len(file) + 1
  BY AppendType DEF DataOK, Chunks, Append1, Parts

-----------------------------------------------------------------------------
(* One step of any action keeps the types and the mutex.                   *)
LEMMA EnqueueType ==
  ASSUME TypeOK, Exclusion, NEW t \in Threads,
         \/ \E req \in Requests, id \in Ids : EnqueueCall(t, req, id)
         \/ EnqueueAppend(t) \/ EnqueueAppendFails(t)
         \/ EnqueueSync(t) \/ EnqueueSyncFails(t)
  PROVE  TypeOK' /\ Exclusion'
<1> USE DEF TypeOK, memory, log, history
<1>0. \A u \in Threads : pc[u] = "enqSync" => seq # 0
  BY DEF ControlOK, ArgOK
<1>1. ASSUME NEW req \in Requests, NEW id \in Ids, EnqueueCall(t, req, id)
      PROVE  TypeOK' /\ Exclusion'
  <2> DEFINE v == [id |-> id, priority |-> req.priority, delay |-> req.delay]
  <2>1. v \in [id : Ids, priority : Int, delay : 0..MaxDelaySeconds]
    BY <1>1, ServiceAssumption, DelayCapAssumption DEF EnqueueCall, Validate
  <2>2. Goto(t, "enqueue", v) /\ up = "up" /\ "enqueue" \in Labels /\ "enqueue" \notin Writing
    BY <1>1 DEF EnqueueCall, Labels, Writing
  <2>3. ArgOK(t)'
    BY <2>1, <2>2 DEF Goto, ArgOK, ControlOK, Writing
  <2>4. ControlOK' /\ Exclusion'
    BY <1>0, <1>1, <2>2, <2>3, MoveType DEF EnqueueCall
  <2>5. DataOK'
    BY <1>1 DEF EnqueueCall, DataOK
  <2> QED BY <2>4, <2>5
<1>2. ASSUME pc[t] = "enqueue"
      PROVE  /\ NewMessage(arg[t]) \in Messages
             /\ EnqueueRecord(walSeq + 1, NewMessage(arg[t])) \in Records
  <2>1. arg[t] \in [id : Ids, priority : Int, delay : 0..MaxDelaySeconds]
    BY <1>2 DEF ControlOK, ArgOK
  <2>2. NewMessage(arg[t]) \in Messages
    BY <2>1, NewMessageType DEF DataOK
  <2> QED BY <2>2, RecordType DEF DataOK
<1>3. CASE EnqueueAppend(t)
  <2>1. pc[t] = "enqueue" /\ NoWriter
    BY <1>3 DEF EnqueueAppend, Enter, NoHolder
  <2>2. up = "up"
    BY <2>1, Running
  <2>3. Goto(t, "enqSync", NewMessage(arg[t])) /\ "enqSync" \in Labels
    BY <1>3 DEF EnqueueAppend, Labels, Writing
  <2>4. seq' # 0
    BY <1>3 DEF EnqueueAppend, DataOK
  <2>5. ArgOK(t)'
    BY <1>2, <2>1, <2>3, <2>4 DEF Goto, ArgOK, ControlOK
  <2>6. ControlOK' /\ Exclusion'
    BY <1>3, <2>1, <2>2, <2>3, <2>4, <2>5, MoveType DEF EnqueueAppend
  <2>7. file' \in Seq(Chunks) /\ Len(file') = Len(file) + 1
    BY <1>2, <1>3, <2>1, Append1Type DEF EnqueueAppend
  <2>8. DataOK'
    BY <1>3, <2>7 DEF EnqueueAppend, DataOK, Chunks
  <2> QED BY <2>6, <2>8
<1>4. CASE EnqueueAppendFails(t)
  <2>1. pc[t] = "enqueue" /\ up = "up"
    BY <1>4, Running DEF EnqueueAppendFails, Enter
  <2>2. ControlOK' /\ Exclusion'
    BY <1>0, <1>4, <2>1, ReturnType DEF EnqueueAppendFails
  <2>3. file' \in Seq(Chunks) /\ Len(file') >= Len(file)
    BY <1>2, <1>4, <2>1, FailedAppendType DEF EnqueueAppendFails
  <2>4. DataOK'
    BY <1>4, <2>3 DEF EnqueueAppendFails, DataOK, Chunks
  <2> QED BY <2>2, <2>4
<1>5. CASE EnqueueSync(t)
  <2>1. pc[t] = "enqSync" /\ up = "up"
    BY <1>5, Running DEF EnqueueSync
  <2>2. ControlOK' /\ Exclusion'
    BY <1>0, <1>5, <2>1, ReturnType DEF EnqueueSync
  <2>3. arg[t] \in Messages
    BY <2>1 DEF ControlOK, ArgOK, Writing
  <2>4. DataOK'
    BY <1>5, <2>3 DEF EnqueueSync, DataOK
  <2> QED BY <2>2, <2>4
<1>6. CASE EnqueueSyncFails(t)
  <2>1. pc[t] = "enqSync" /\ up = "up"
    BY <1>6, Running DEF EnqueueSyncFails
  <2>2. \A u \in Threads : pc[u] = "enqSync" => u = t
    BY <2>1 DEF Exclusion, Writing
  <2>3. ControlOK' /\ Exclusion'
    BY <1>6, <2>1, <2>2, ReturnType DEF EnqueueSyncFails
  <2>4. DataOK'
    BY <1>0, <1>6, <2>1 DEF EnqueueSyncFails, DataOK
  <2> QED BY <2>3, <2>4
<1> QED BY <1>1, <1>3, <1>4, <1>5, <1>6

LEMMA DequeueType ==
  ASSUME TypeOK, Exclusion, NEW t \in Threads,
         \/ DequeueCall(t) \/ DequeueEmpty(t)
         \/ DequeueAppend(t) \/ DequeueAppendFails(t)
         \/ DequeueSync(t) \/ DequeueSyncFails(t)
         \/ RefuseClosed(t)
  PROVE  TypeOK' /\ Exclusion'
<1> USE DEF TypeOK, memory, log, history
<1>0. \A u \in Threads : pc[u] = "enqSync" => seq # 0
  BY DEF ControlOK, ArgOK
<1>1. CASE DequeueCall(t)
  <2>1. Goto(t, "dequeue", Nil) /\ up = "up" /\ "dequeue" \in Labels /\ "dequeue" \notin Writing
    BY <1>1 DEF DequeueCall, Labels, Writing
  <2>2. ArgOK(t)'
    BY <2>1 DEF Goto, ArgOK, ControlOK, Writing
  <2>3. ControlOK' /\ Exclusion'
    BY <1>0, <1>1, <2>1, <2>2, MoveType DEF DequeueCall
  <2> QED BY <1>1, <2>3 DEF DequeueCall, DataOK
<1>2. CASE DequeueEmpty(t)
  <2>1. up = "up"
    BY <1>2, Running DEF DequeueEmpty, Enter
  <2>2. ControlOK' /\ Exclusion'
    BY <1>0, <1>2, <2>1, ReturnType DEF DequeueEmpty
  <2>3. ready' \subseteq Messages /\ delayed' \subseteq Messages
    BY <1>2, PromoteType DEF DequeueEmpty
  <2> QED BY <1>2, <2>2, <2>3 DEF DequeueEmpty, DataOK
<1>3. CASE DequeueAppend(t)
  <2>1. pc[t] = "dequeue" /\ NoWriter
    BY <1>3 DEF DequeueAppend, Enter, NoHolder
  <2>2. up = "up"
    BY <2>1, Running
  <2>3. PICK m \in Best(mode, Visible(now)) :
          /\ ready' = Visible(now) \ {m}
          /\ Append1(DequeueRecord(walSeq + 1, m.id))
          /\ popped' = popped \cup {m.id}
          /\ Goto(t, "deqSync", m)
    BY <1>3 DEF DequeueAppend
  <2>4. m \in Messages /\ m.id \in Ids
    BY VisibleType DEF Messages
  <2>5. "deqSync" \in Labels
    BY DEF Labels, Writing
  <2>6. ArgOK(t)'
    BY <2>3, <2>4 DEF Goto, ArgOK, ControlOK
  <2>7. ControlOK' /\ Exclusion'
    BY <1>0, <1>3, <2>1, <2>2, <2>3, <2>5, <2>6, MoveType DEF DequeueAppend
  <2>8. file' \in Seq(Chunks) /\ Len(file') = Len(file) + 1
    BY <2>3, <2>4, RecordType, Append1Type DEF DataOK
  <2>9. ready' \subseteq Messages /\ delayed' \subseteq Messages
    BY <1>3, <2>3, VisibleType DEF DequeueAppend
  <2>10. DataOK'
    BY <1>3, <2>3, <2>4, <2>8, <2>9 DEF DequeueAppend, DataOK, Chunks
  <2> QED BY <2>7, <2>10
<1>4. CASE DequeueAppendFails(t)
  <2>1. up = "up"
    BY <1>4, Running DEF DequeueAppendFails, Enter
  <2>2. ControlOK' /\ Exclusion'
    BY <1>0, <1>4, <2>1, ReturnType DEF DequeueAppendFails
  <2>3. PICK m \in Best(mode, Visible(now)) :
          /\ ready' = Visible(now) \ {m}
          /\ delayed' = (delayed \ Matured(delayed, now)) \cup {m}
          /\ FailedAppend(DequeueRecord(walSeq + 1, m.id))
          /\ popped' = IF Live(file') = Live(file) THEN popped ELSE popped \cup {m.id}
    BY <1>4 DEF DequeueAppendFails
  <2>4. m \in Messages /\ m.id \in Ids
    BY VisibleType DEF Messages
  <2>5. file' \in Seq(Chunks) /\ Len(file') >= Len(file)
    BY <2>3, <2>4, RecordType, FailedAppendType DEF DataOK
  <2>6. ready' \subseteq Messages /\ delayed' \subseteq Messages
    BY <2>3, <2>4, VisibleType
  <2>7. popped' \subseteq Ids
    BY <2>3, <2>4 DEF DataOK
  <2>8. DataOK'
    BY <1>4, <2>5, <2>6, <2>7 DEF DequeueAppendFails, DataOK, Chunks
  <2> QED BY <2>2, <2>8
<1>5. CASE DequeueSync(t)
  <2>1. pc[t] = "deqSync" /\ up = "up"
    BY <1>5, Running DEF DequeueSync
  <2>2. ControlOK' /\ Exclusion'
    BY <1>0, <1>5, <2>1, ReturnType DEF DequeueSync
  <2>3. arg[t].id \in Ids
    BY <2>1 DEF ControlOK, ArgOK, Writing, Messages
  <2>4. deliveries' \in [Ids -> Nat]
    BY <1>5, <2>3 DEF DequeueSync, DataOK
  <2> QED BY <1>5, <2>2, <2>4 DEF DequeueSync, DataOK
<1>6. CASE DequeueSyncFails(t)
  <2>1. pc[t] = "deqSync" /\ up = "up"
    BY <1>6, Running DEF DequeueSyncFails
  <2>2. ControlOK' /\ Exclusion'
    BY <1>0, <1>6, <2>1, ReturnType DEF DequeueSyncFails
  <2>3. arg[t] \in Messages
    BY <2>1 DEF ControlOK, ArgOK, Writing
  <2> QED BY <1>6, <2>2, <2>3 DEF DequeueSyncFails, DataOK
<1>7. CASE RefuseClosed(t)
  <2>1. up = "up"
    BY <1>7, Running DEF RefuseClosed
  <2>2. ControlOK' /\ Exclusion'
    BY <1>0, <1>7, <2>1, ReturnType DEF RefuseClosed
  <2> QED BY <1>7, <2>2 DEF RefuseClosed, DataOK
<1> QED BY <1>1, <1>2, <1>3, <1>4, <1>5, <1>6, <1>7

LEMMA ReadType ==
  ASSUME TypeOK, Exclusion, NEW t \in Threads, Read(t)
  PROVE  TypeOK' /\ Exclusion'
<1> USE DEF TypeOK, memory, log, history
<1>0. \A u \in Threads : pc[u] = "enqSync" => seq # 0
  BY DEF ControlOK, ArgOK
<1>1. CASE StatsCall(t)
  <2>1. Goto(t, "stats", [now |-> now]) /\ up = "up" /\ "stats" \in Labels /\ "stats" \notin Writing
    BY <1>1 DEF StatsCall, Labels, Writing, Reading
  <2>2. ArgOK(t)'
    BY <2>1 DEF Goto, ArgOK, ControlOK, DataOK, Writing
  <2>3. ControlOK' /\ Exclusion'
    BY <1>0, <1>1, <2>1, <2>2, MoveType DEF StatsCall
  <2> QED BY <1>1, <2>3 DEF StatsCall, DataOK
<1>2. CASE StatsLen(t)
  <2> DEFINE v == [now |-> arg[t].now, total |-> Cardinality(ready \cup delayed)]
  <2>1. pc[t] = "stats" /\ up = "up"
    BY <1>2, Running DEF StatsLen
  <2>2. Goto(t, "statsLen", v) /\ "statsLen" \in Labels /\ "statsLen" \notin Writing
    BY <1>2 DEF StatsLen, Labels, Writing, Reading
  <2>3. v.now \in Nat
    BY <2>1 DEF ControlOK, ArgOK
  <2> HIDE DEF v
  <2>4. ArgOK(t)'
    BY <2>2, <2>3 DEF Goto, ArgOK, ControlOK, Writing
  <2>5. ControlOK' /\ Exclusion'
    BY <1>0, <1>2, <2>1, <2>2, <2>4, MoveType DEF StatsLen
  <2> QED BY <1>2, <2>5 DEF StatsLen, DataOK
<1>3. CASE StatsAvailableLen(t)
  <2>1. up = "up"
    BY <1>3, Running DEF StatsAvailableLen
  <2>2. ControlOK' /\ Exclusion'
    BY <1>0, <1>3, <2>1, ReturnType DEF StatsAvailableLen
  <2>3. ready' \subseteq Messages /\ delayed' \subseteq Messages
    BY <1>3, PromoteType DEF StatsAvailableLen
  <2> QED BY <1>3, <2>2, <2>3 DEF StatsAvailableLen, DataOK
<1>4. CASE SnapshotCall(t)
  <2>1. Goto(t, "snapshot", [now |-> now]) /\ up = "up" /\ "snapshot" \in Labels /\ "snapshot" \notin Writing
    BY <1>4 DEF SnapshotCall, Labels, Writing, Reading
  <2>2. ArgOK(t)'
    BY <2>1 DEF Goto, ArgOK, ControlOK, DataOK, Writing
  <2>3. ControlOK' /\ Exclusion'
    BY <1>0, <1>4, <2>1, <2>2, MoveType DEF SnapshotCall
  <2> QED BY <1>4, <2>3 DEF SnapshotCall, DataOK
<1>5. CASE SnapshotTake(t)
  <2>1. up = "up"
    BY <1>5, Running DEF SnapshotTake
  <2>2. ControlOK' /\ Exclusion'
    BY <1>0, <1>5, <2>1, ReturnType DEF SnapshotTake
  <2>3. ready' \subseteq Messages /\ delayed' \subseteq Messages
    BY <1>5, PromoteType DEF SnapshotTake
  <2> QED BY <1>5, <2>2, <2>3 DEF SnapshotTake, DataOK
<1> QED BY <1>1, <1>2, <1>3, <1>4, <1>5 DEF Read

LEMMA VanishType ==
  ASSUME TypeOK, Vanish, file' \in Seq(Chunks), synced' \in 0..Len(file')
  PROVE  TypeOK' /\ Exclusion'
<1>1. \A t \in Threads : pc'[t] = "idle"
  BY DEF Vanish
<1>2. \A t \in Threads : ArgOK(t)'
  BY <1>1 DEF ArgOK, Writing
<1>3. ControlOK'
  BY <1>2 DEF Vanish, ControlOK
<1>4. DataOK'
  BY DEF Vanish, TypeOK, DataOK, Chunks, history
<1>5. Exclusion'
  BY <1>1 DEF Exclusion, Writing
<1> QED BY <1>3, <1>4, <1>5 DEF TypeOK

LEMMA PowerLossFile ==
  ASSUME TypeOK, PowerLoss
  PROVE  file' \in Seq(Chunks) /\ synced' = Len(file')
<1>0. file \in Seq(Chunks) /\ synced \in 0..Len(file)
  BY DEF TypeOK, DataOK, Chunks
<1>1. CASE \E k \in synced..Len(file) : file' = SubSeq(file, 1, k)
  BY <1>0, <1>1, SubSeqType DEF PowerLoss
<1>2. CASE \E k \in synced..(Len(file) - 1) :
             \E part \in Fragments(file[k + 1].part) :
               file' = Append(SubSeq(file, 1, k), Chunk(file[k + 1].rec, part))
  <2>1. PICK k \in synced..(Len(file) - 1) :
          \E part \in Fragments(file[k + 1].part) :
            file' = Append(SubSeq(file, 1, k), Chunk(file[k + 1].rec, part))
    BY <1>2
  <2>2. PICK part \in Fragments(file[k + 1].part) :
          file' = Append(SubSeq(file, 1, k), Chunk(file[k + 1].rec, part))
    BY <2>1
  <2>3. k \in 0..Len(file) /\ file[k + 1] \in Chunks
    BY <1>0
  <2>4. file[k + 1].rec \in Records /\ part \in Parts
    BY <2>3 DEF Chunks, Fragments, Parts
  <2> QED BY <1>0, <2>2, <2>3, <2>4, SubSeqType, AppendType DEF PowerLoss
<1> QED BY <1>1, <1>2 DEF PowerLoss

LEMMA BootType ==
  ASSUME TypeOK, Exclusion, Boot
  PROVE  TypeOK' /\ Exclusion'
<1>0. file \in Seq(Chunks)
  BY DEF TypeOK, DataOK, Chunks
<1>1. Live(file) \subseteq Messages
  BY <1>0, LiveType
<1>2. seq' \in Nat
  BY <1>1 DEF Boot, IsLast, Messages
<1>3. walSeq' \in Nat
  <2>1. ASSUME NEW i \in 1..Len(file) PROVE file[i].rec.seq \in Nat
    <3>1. file[i] \in Chunks
      BY <1>0
    <3>2. file[i].rec \in Records
      BY <3>1 DEF Chunks
    <3> QED BY <3>2 DEF Records
  <2>2. RecordSeqs(file) \subseteq Nat
    BY <2>1 DEF RecordSeqs
  <2> QED BY <2>2 DEF Boot, IsLast
<1>4. \A t \in Threads : pc[t] = "idle" /\ pc'[t] = "idle"
  BY DEF Boot, Exclusion
<1>5. ControlOK' /\ Exclusion'
  BY <1>4 DEF Boot, TypeOK, ControlOK, ArgOK, Exclusion, Writing
<1>6. DataOK'
  BY <1>1, <1>2, <1>3 DEF Boot, TypeOK, DataOK, log, history
<1> QED BY <1>5, <1>6 DEF TypeOK

LEMMA TypeStep ==
  ASSUME TypeOK, Exclusion, [Next]_vars
  PROVE  TypeOK' /\ Exclusion'
<1>1. CASE UNCHANGED vars
  BY <1>1 DEF vars, memory, log, history, TypeOK, DataOK, ControlOK, ArgOK, Exclusion
<1>2. ASSUME NEW t \in Writers, Write(t) PROVE TypeOK' /\ Exclusion'
  BY <1>2, EnqueueType, DequeueType DEF Write, Threads
<1>3. ASSUME NEW t \in Readers, Read(t) PROVE TypeOK' /\ Exclusion'
  BY <1>3, ReadType DEF Threads
<1>4. CASE Close
  BY <1>4 DEF Close, log, history, TypeOK, DataOK, ControlOK, ArgOK, Exclusion
<1>5. CASE Kill
  BY <1>5, VanishType DEF Kill, log, TypeOK, DataOK, Chunks
<1>6. CASE PowerLoss
  <2>1. file' \in Seq(Chunks) /\ synced' = Len(file')
    BY <1>6, PowerLossFile
  <2> QED BY <1>6, <2>1, VanishType DEF PowerLoss
<1>7. CASE Boot
  BY <1>7, BootType
<1>8. CASE BootFails
  BY <1>8 DEF BootFails, memory, log, history, TypeOK, DataOK, ControlOK, ArgOK, Exclusion
<1>9. CASE Clock
  <2>1. now' \in Nat
    BY <1>9 DEF Clock, Tick, ClockBack, TypeOK, DataOK
  <2> QED BY <1>9, <2>1 DEF Clock, memory, log, history, TypeOK, DataOK, ControlOK, ArgOK, Exclusion
<1> QED BY <1>1, <1>2, <1>3, <1>4, <1>5, <1>6, <1>7, <1>8, <1>9 DEF Next

LEMMA TypeInit ==
  ASSUME Init
  PROVE  TypeOK /\ Exclusion
<1>1. \A t \in Threads : pc[t] = "idle"
  BY DEF Init
<1>2. ControlOK
  BY <1>1 DEF Init, ControlOK, ArgOK, Writing
<1>3. <<>> \in Seq(Chunks) /\ Len(<<>>) = 0
  OBVIOUS
<1>4. file \in Seq(Chunks) /\ synced \in 0..Len(file)
  BY <1>3 DEF Init
<1>5. DataOK
  BY <1>4 DEF Init, DataOK, Chunks
<1> QED BY <1>1, <1>2, <1>5 DEF TypeOK, Exclusion, Writing

(* Every reachable state is well typed, whatever the faults: in particular *)
(* seq never drops below zero when a failed fsync gives it back, because   *)
(* at most one goroutine is in a write section.                            *)
THEOREM TypeInvariant == Spec => []TypeOK
<1>1. Init => TypeOK /\ Exclusion
  BY TypeInit
<1>2. TypeOK /\ Exclusion /\ [Next]_vars => (TypeOK /\ Exclusion)'
  BY TypeStep
<1> QED BY <1>1, <1>2, PTL DEF Spec
=============================================================================
