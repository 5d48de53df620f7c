---------------------------- MODULE QueueService ----------------------------
(***************************************************************************)
(* pkg/service over pkg/engine and pkg/storage: the handler goroutines     *)
(* that call Enqueue, Dequeue, Stats, Snapshot and Close, the service's    *)
(* RWMutex, the WAL-first write protocol with its fsync, and the process   *)
(* and machine failures the log exists for.                                *)
(*                                                                         *)
(* The RWMutex is derived from the program counters: a thread in a write   *)
(* section holds it alone, threads in read sections share it.  What a      *)
(* write section does between two points another thread, the clock or a    *)
(* crash can tell apart is one step: lock, check, stamp and write(2) are   *)
(* the first, fsync and the return the second.                             *)
(***************************************************************************)
EXTENDS Engine, Wal, FiniteSets

CONSTANTS
  Writers,    (* goroutines that serve Enqueue and Dequeue calls           *)
  Readers,    (* goroutines that serve Stats and Snapshot calls            *)
  Ids,        (* the UUIDs newUUID may return                              *)
  Requests,   (* bodies of POST /enqueue: [blank, priority, delay]         *)
  MaxNow,     (* bound: the last instant of the wall clock                 *)
  MaxLog,     (* bound: chunks in the log, and record numbers              *)
  Faults      (* what may go wrong besides the process being killed        *)

Threads == Writers \cup Readers

FaultKinds ==
  { "powerLoss",    (* records not yet fsynced disappear with the machine  *)
    "tornWrite",    (* ... or only the start of the first one survives     *)
    "writeErr",     (* write(2) fails and leaves nothing behind            *)
    "shortWrite",   (* write(2) fails and leaves the start of the record   *)
    "syncErr",      (* fsync fails                                         *)
    "clockBack" }   (* the wall clock is stepped back                      *)

ASSUME ServiceAssumption ==
  /\ Nil \notin Ids
  /\ Requests \subseteq [blank : BOOLEAN, priority : Int, delay : Int]
  /\ MaxNow \in Nat
  /\ MaxLog \in Nat
  /\ Faults \subseteq FaultKinds

VARIABLES
  now,          (* the wall clock                                          *)
  up,           (* "up", "down", or "failed": recovery refused the log     *)
  mode,         (* the -mode flag of this run of the server                *)
  ready,        (* the engine's ready heap, as a set                       *)
  delayed,      (* the engine's delayed heap, as a set                     *)
  seq,          (* QueueService.seq                                        *)
  closed,       (* QueueService.closed                                     *)
  walSeq,       (* WAL.seq                                                 *)
  file,         (* the log, page cache included                            *)
  synced,       (* chunks of it known to be on the platter                 *)
  pc,           (* where each goroutine is                                 *)
  arg,          (* what each goroutine carries                             *)
  issued,       (* history: ids handed out by newUUID                      *)
  acked,        (* history: messages whose Enqueue returned without error  *)
  popped,       (* history: ids whose tombstone reached the file, wanted   *)
                (* or as the leftover of a failed write                    *)
  deliveries    (* history: how often Dequeue returned each id             *)

memory == <<ready, delayed, seq, closed, walSeq>>
log == <<file, synced>>
history == <<issued, acked, popped, deliveries>>
vars == <<now, up, mode, memory, log, pc, arg, history>>

Messages ==
  [id : Ids, seq : Nat, priority : Int, enqueuedAt : Int, availableAt : Int]

Init ==
  /\ now = 0
  /\ up = "down"
  /\ mode \in Modes
  /\ ready = {} /\ delayed = {} /\ seq = 0 /\ closed = FALSE /\ walSeq = 0
  /\ file = <<>> /\ synced = 0
  /\ pc = [t \in Threads |-> "idle"]
  /\ arg = [t \in Threads |-> Nil]
  /\ issued = {} /\ acked = {} /\ popped = {}
  /\ deliveries = [id \in Ids |-> 0]

-----------------------------------------------------------------------------
Writing == {"enqSync", "deqSync"}
Reading == {"stats", "statsLen", "snapshot"}

(* Mutant: Lock does not wait for the readers.                             *)
NoHolderButReaders == \A t \in Threads : pc[t] \notin Writing

(* mu.RLock can succeed; mu.Lock can succeed.                              *)
NoWriter == \A t \in Threads : pc[t] \notin Writing
NoHolder == NoWriter /\ \A t \in Threads : pc[t] \notin Reading

Goto(t, label, value) ==
  /\ pc' = [pc EXCEPT ![t] = label]
  /\ arg' = [arg EXCEPT ![t] = value]

Return(t) == Goto(t, "idle", Nil)

(* promoteLocked with the clock reading a caller passes.                   *)
Visible(at) == ready \cup Matured(delayed, at)
Promote(at) ==
  /\ ready' = Visible(at)
  /\ delayed' = delayed \ Matured(delayed, at)

(* file.Write of a whole line, and what a failed one leaves behind.        *)
Append1(rec) == file' = Append(file, Chunk(rec, "whole"))
FailedAppend(rec) ==
  \/ "writeErr" \in Faults /\ UNCHANGED file
  \/ /\ "shortWrite" \in Faults
     /\ \E part \in Fragments("whole") : file' = Append(file, Chunk(rec, part))

(* The write section is entered: the lock is free, the service open, and   *)
(* the log within the bound.                                               *)
Enter(t, label) ==
  /\ pc[t] = label
  /\ NoHolder
  /\ ~closed
  /\ Len(file) < MaxLog
  /\ walSeq < MaxLog

-----------------------------------------------------------------------------
(* Enqueue up to the lock: the request is valid and has an id.             *)
EnqueueCall(t, req, id) ==
  /\ up = "up"
  /\ pc[t] = "idle"
  /\ Validate(req)
  /\ id \notin issued
  /\ issued' = issued \cup {id}
  /\ Goto(t, "enqueue",
          [id |-> id, priority |-> req.priority, delay |-> req.delay])
  /\ UNCHANGED <<now, up, mode, memory, log, acked, popped, deliveries>>

(* The message Enqueue builds under the lock.                              *)
NewMessage(r) ==
  [id |-> r.id, seq |-> seq + 1, priority |-> r.priority,
   enqueuedAt |-> now, availableAt |-> AvailableAt(now, r.delay)]

EnqueueAppend(t) ==
  /\ Enter(t, "enqueue")
  /\ seq' = seq + 1
  /\ walSeq' = walSeq + 1
  /\ Append1(EnqueueRecord(walSeq + 1, NewMessage(arg[t])))
  /\ Goto(t, "enqSync", NewMessage(arg[t]))
  /\ UNCHANGED <<now, up, mode, ready, delayed, closed, synced, history>>

(* Mutant: seq is given back although it was not yet advanced.             *)
EnqueueAppendFailsTwice(t) ==
  /\ Enter(t, "enqueue")
  /\ walSeq' = walSeq + 1
  /\ seq' = seq - 1
  /\ FailedAppend(EnqueueRecord(walSeq + 1, NewMessage(arg[t])))
  /\ Return(t)
  /\ UNCHANGED <<now, up, mode, ready, delayed, closed, synced, history>>

(* The write fails: seq is given back, the record number is not.           *)
EnqueueAppendFails(t) ==
  /\ Enter(t, "enqueue")
  /\ walSeq' = walSeq + 1
  /\ FailedAppend(EnqueueRecord(walSeq + 1, NewMessage(arg[t])))
  /\ Return(t)
  /\ UNCHANGED <<now, up, mode, ready, delayed, seq, closed, synced, history>>

(* Mutant: the caller is answered without waiting for the disk.            *)
EnqueueWithoutSync(t) ==
  /\ pc[t] = "enqSync"
  /\ delayed' = delayed \cup {arg[t]}
  /\ acked' = acked \cup {arg[t]}
  /\ Return(t)
  /\ UNCHANGED <<now, up, mode, ready, seq, closed, walSeq, log,
                 issued, popped, deliveries>>

(* fsync, then the in-memory Push, then the return that acknowledges.      *)
EnqueueSync(t) ==
  /\ pc[t] = "enqSync"
  /\ synced' = Len(file)
  /\ delayed' = delayed \cup {arg[t]}
  /\ acked' = acked \cup {arg[t]}
  /\ Return(t)
  /\ UNCHANGED <<now, up, mode, ready, seq, closed, walSeq, file,
                 issued, popped, deliveries>>

(* fsync fails: the caller gets an error and seq is given back, but the    *)
(* line stays in the file.                                                 *)
EnqueueSyncFails(t) ==
  /\ pc[t] = "enqSync"
  /\ "syncErr" \in Faults
  /\ seq' = seq - 1
  /\ Return(t)
  /\ UNCHANGED <<now, up, mode, ready, delayed, closed, walSeq, log, history>>

-----------------------------------------------------------------------------
DequeueCall(t) ==
  /\ up = "up"
  /\ pc[t] = "idle"
  /\ Goto(t, "dequeue", Nil)
  /\ UNCHANGED <<now, up, mode, memory, log, history>>

(* Nothing is visible: (nil, nil).  Promotion has happened all the same.   *)
DequeueEmpty(t) ==
  /\ Enter(t, "dequeue")
  /\ Visible(now) = {}
  /\ Promote(now)
  /\ Return(t)
  /\ UNCHANGED <<now, up, mode, seq, closed, walSeq, log, history>>

(* Mutant: promotion only when the ready heap has run dry.                 *)
DequeueStale(t) ==
  LET candidates == IF ready = {} THEN Visible(now) ELSE ready
  IN /\ Enter(t, "dequeue")
     /\ \E m \in Best(mode, candidates) :
          /\ ready' = candidates \ {m}
          /\ Append1(DequeueRecord(walSeq + 1, m.id))
          /\ popped' = popped \cup {m.id}
          /\ Goto(t, "deqSync", m)
     /\ delayed' = delayed \ candidates
     /\ walSeq' = walSeq + 1
     /\ UNCHANGED <<now, up, mode, seq, closed, synced, issued, acked, deliveries>>

(* Pop, and the tombstone is written.                                      *)
DequeueAppend(t) ==
  /\ Enter(t, "dequeue")
  /\ \E m \in Best(mode, Visible(now)) :
       /\ ready' = Visible(now) \ {m}
       /\ Append1(DequeueRecord(walSeq + 1, m.id))
       /\ popped' = popped \cup {m.id}
       /\ Goto(t, "deqSync", m)
  /\ delayed' = delayed \ Matured(delayed, now)
  /\ walSeq' = walSeq + 1
  /\ UNCHANGED <<now, up, mode, seq, closed, synced, issued, acked, deliveries>>

(* Mutant: the popped message is not pushed back.                          *)
DequeueAppendFailsDrops(t) ==
  /\ Enter(t, "dequeue")
  /\ \E m \in Best(mode, Visible(now)) :
       /\ ready' = Visible(now) \ {m}
       /\ FailedAppend(DequeueRecord(walSeq + 1, m.id))
  /\ delayed' = delayed \ Matured(delayed, now)
  /\ walSeq' = walSeq + 1
  /\ Return(t)
  /\ UNCHANGED <<now, up, mode, seq, closed, synced, history>>

(* The write fails: the popped message is pushed back, through the delayed *)
(* heap like any other.                                                    *)
DequeueAppendFails(t) ==
  /\ Enter(t, "dequeue")
  /\ \E m \in Best(mode, Visible(now)) :
       /\ ready' = Visible(now) \ {m}
       /\ delayed' = (delayed \ Matured(delayed, now)) \cup {m}
       /\ FailedAppend(DequeueRecord(walSeq + 1, m.id))
       /\ popped' = IF Live(file') = Live(file) THEN popped ELSE popped \cup {m.id}
  /\ walSeq' = walSeq + 1
  /\ Return(t)
  /\ UNCHANGED <<now, up, mode, seq, closed, synced, issued, acked, deliveries>>

(* Mutant: the message is handed over before the tombstone is durable.     *)
DequeueWithoutSync(t) ==
  /\ pc[t] = "deqSync"
  /\ deliveries' = [deliveries EXCEPT ![arg[t].id] = @ + 1]
  /\ Return(t)
  /\ UNCHANGED <<now, up, mode, memory, log, issued, acked, popped>>

(* fsync, then the message is handed over.                                 *)
DequeueSync(t) ==
  /\ pc[t] = "deqSync"
  /\ synced' = Len(file)
  /\ deliveries' = [deliveries EXCEPT ![arg[t].id] = @ + 1]
  /\ Return(t)
  /\ UNCHANGED <<now, up, mode, memory, file, issued, acked, popped>>

(* fsync fails: the message is pushed back, the tombstone stays.           *)
DequeueSyncFails(t) ==
  /\ pc[t] = "deqSync"
  /\ "syncErr" \in Faults
  /\ delayed' = delayed \cup {arg[t]}
  /\ Return(t)
  /\ UNCHANGED <<now, up, mode, ready, seq, closed, walSeq, log, history>>

(* Enqueue and Dequeue find the service closed under the lock: ErrClosed.  *)
RefuseClosed(t) ==
  /\ pc[t] \in {"enqueue", "dequeue"}
  /\ NoHolder
  /\ closed
  /\ Return(t)
  /\ UNCHANGED <<now, up, mode, memory, log, history>>

-----------------------------------------------------------------------------
(* Stats takes the read lock and the time, then asks the engine twice; its *)
(* own mutex is free in between.                                           *)
StatsCall(t) ==
  /\ up = "up"
  /\ pc[t] = "idle"
  /\ NoWriter
  /\ Goto(t, "stats", [now |-> now])
  /\ UNCHANGED <<now, up, mode, memory, log, history>>

StatsLen(t) ==
  /\ pc[t] = "stats"
  /\ Goto(t, "statsLen",
          [now |-> arg[t].now, total |-> Cardinality(ready \cup delayed)])
  /\ UNCHANGED <<now, up, mode, memory, log, history>>

(* Mutant: the read lock is not released.                                  *)
StatsKeepsLock(t) ==
  /\ pc[t] = "statsLen"
  /\ Promote(arg[t].now)
  /\ UNCHANGED <<now, up, mode, seq, closed, walSeq, log, pc, arg, history>>

StatsAvailableLen(t) ==
  /\ pc[t] = "statsLen"
  /\ Promote(arg[t].now)
  /\ Return(t)
  /\ UNCHANGED <<now, up, mode, seq, closed, walSeq, log, history>>

SnapshotCall(t) ==
  /\ up = "up"
  /\ pc[t] = "idle"
  /\ NoWriter
  /\ Goto(t, "snapshot", [now |-> now])
  /\ UNCHANGED <<now, up, mode, memory, log, history>>

(* The engine's Snapshot: both lists are the heaps after promotion.        *)
SnapshotTake(t) ==
  /\ pc[t] = "snapshot"
  /\ Promote(arg[t].now)
  /\ Return(t)
  /\ UNCHANGED <<now, up, mode, seq, closed, walSeq, log, history>>

(* Close, called by main once the HTTP server has been shut down or has    *)
(* run out of time to.                                                     *)
Close ==
  /\ up = "up"
  /\ NoHolder
  /\ ~closed
  /\ closed' = TRUE
  /\ UNCHANGED <<now, up, mode, ready, delayed, seq, walSeq, log, pc, arg, history>>

-----------------------------------------------------------------------------
(* The process is gone and everything in memory with it.                   *)
Vanish ==
  /\ up' = "down"
  /\ ready' = {} /\ delayed' = {} /\ seq' = 0 /\ closed' = FALSE /\ walSeq' = 0
  /\ pc' = [t \in Threads |-> "idle"]
  /\ arg' = [t \in Threads |-> Nil]
  /\ UNCHANGED <<now, mode, history>>

(* The process exits or is killed; the page cache survives.                *)
Kill == up = "up" /\ Vanish /\ UNCHANGED log

(* The machine dies: what was not fsynced survives up to some point.       *)
PowerLoss ==
  /\ Vanish
  /\ \/ /\ "powerLoss" \in Faults
        /\ \E k \in synced..Len(file) : file' = SubSeq(file, 1, k)
     \/ /\ "tornWrite" \in Faults
        /\ \E k \in synced..(Len(file) - 1) :
             \E part \in Fragments(file[k + 1].part) :
               file' = Append(SubSeq(file, 1, k), Chunk(file[k + 1].rec, part))
  /\ synced' = Len(file')

(* Mutants: one counter is not rebuilt, or only what is due is restored.   *)
BootForgetsSeq ==
  /\ up = "down" /\ ~Corrupt(file) /\ up' = "up" /\ mode' \in Modes
  /\ delayed' = Live(file)
  /\ IsLast(walSeq', RecordSeqs(file))
  /\ UNCHANGED <<now, ready, seq, closed, log, pc, arg, history>>
BootForgetsWalSeq ==
  /\ up = "down" /\ ~Corrupt(file) /\ up' = "up" /\ mode' \in Modes
  /\ delayed' = Live(file)
  /\ IsLast(seq', {m.seq : m \in Live(file)})
  /\ UNCHANGED <<now, ready, closed, walSeq, log, pc, arg, history>>
BootSkipsDelayed ==
  /\ up = "down" /\ ~Corrupt(file) /\ up' = "up" /\ mode' \in Modes
  /\ delayed' = Matured(Live(file), now)
  /\ IsLast(seq', {m.seq : m \in Live(file)})
  /\ IsLast(walSeq', RecordSeqs(file))
  /\ UNCHANGED <<now, ready, closed, log, pc, arg, history>>

(* NewQueueService: open the log without touching it, replay it, push the  *)
(* live messages into an empty engine.  seq restarts at the largest live   *)
(* Seq, walSeq at the largest record number.                               *)
Boot ==
  /\ up = "down"
  /\ ~Corrupt(file)
  /\ up' = "up"
  /\ mode' \in Modes
  /\ delayed' = Live(file)
  /\ IsLast(seq', {m.seq : m \in Live(file)})
  /\ IsLast(walSeq', RecordSeqs(file))
  /\ UNCHANGED <<now, ready, closed, log, pc, arg, history>>

(* ... or Recover reports a corrupt record and the server does not start,  *)
(* now or on any later attempt.                                            *)
BootFails ==
  /\ up # "up"
  /\ Corrupt(file)
  /\ up' = "failed"
  /\ UNCHANGED <<now, mode, memory, log, pc, arg, history>>

Tick == now < MaxNow /\ now' = now + 1
ClockBack == "clockBack" \in Faults /\ now > 0 /\ now' = now - 1

Clock ==
  /\ Tick \/ ClockBack
  /\ UNCHANGED <<up, mode, memory, log, pc, arg, history>>

-----------------------------------------------------------------------------
Write(t) ==
  \/ \E req \in Requests, id \in Ids : EnqueueCall(t, req, id)
  \/ EnqueueAppend(t) \/ EnqueueAppendFails(t)
  \/ EnqueueSync(t) \/ EnqueueSyncFails(t)
  \/ DequeueCall(t) \/ DequeueEmpty(t)
  \/ DequeueAppend(t) \/ DequeueAppendFails(t)
  \/ DequeueSync(t) \/ DequeueSyncFails(t)
  \/ RefuseClosed(t)

Read(t) ==
  \/ StatsCall(t) \/ StatsLen(t) \/ StatsAvailableLen(t)
  \/ SnapshotCall(t) \/ SnapshotTake(t)

Next ==
  \/ \E t \in Writers : Write(t)
  \/ \E t \in Readers : Read(t)
  \/ Close \/ Kill \/ PowerLoss \/ Boot \/ BootFails \/ Clock

Spec == Init /\ [][Next]_vars

(* Taking the write lock and doing the first part of the section.          *)
Acquire(t) ==
  \/ EnqueueAppend(t) \/ EnqueueAppendFails(t)
  \/ DequeueEmpty(t) \/ DequeueAppend(t) \/ DequeueAppendFails(t)
  \/ RefuseClosed(t)

(* Leaving it: fsync returns, with an error or without.                    *)
Release(t) ==
  EnqueueSync(t) \/ EnqueueSyncFails(t) \/ DequeueSync(t) \/ DequeueSyncFails(t)

(* Goroutines are scheduled, and sync.RWMutex does not starve a writer: a  *)
(* blocked Lock keeps new readers out, so a waiter that finds the lock     *)
(* free again and again gets it.  Consumers keep polling, the clock moves, *)
(* and a supervisor restarts a server that is down.                        *)
FairSpec ==
  /\ Spec
  /\ \A t \in Writers :
       SF_vars(Acquire(t)) /\ WF_vars(Release(t)) /\ WF_vars(DequeueCall(t))
  /\ \A t \in Readers :
       WF_vars(StatsLen(t) \/ StatsAvailableLen(t) \/ SnapshotTake(t))
  /\ WF_vars(Boot) /\ WF_vars(Clock)

-----------------------------------------------------------------------------
IdsOf(S) == {m.id : m \in S}

Records ==
  [op : {"ENQUEUE"}, seq : Nat, id : Ids, msgSeq : Nat, priority : Int,
   enqueuedAt : Int, availableAt : Int]
    \cup [op : {"DEQUEUE"}, seq : Nat, id : Ids]

DataOK ==
  /\ now \in Nat
  /\ up \in {"up", "down", "failed"}
  /\ mode \in Modes
  /\ ready \subseteq Messages
  /\ delayed \subseteq Messages
  /\ seq \in Nat
  /\ closed \in BOOLEAN
  /\ walSeq \in Nat
  /\ file \in Seq([rec : Records, part : Parts])
  /\ synced \in 0..Len(file)
  /\ issued \subseteq Ids
  /\ acked \subseteq Messages
  /\ popped \subseteq Ids
  /\ deliveries \in [Ids -> Nat]

(* What a goroutine carries at each point of its call.                     *)
ArgOK(t) ==
  /\ pc[t] = "enqueue" =>
       arg[t] \in [id : Ids, priority : Int, delay : 0..MaxDelaySeconds]
  /\ pc[t] \in Writing => arg[t] \in Messages
  /\ pc[t] \in {"stats", "snapshot"} => arg[t] \in [now : Nat]
  /\ pc[t] = "statsLen" => arg[t].now \in Nat
  /\ pc[t] = "enqSync" => seq # 0

ControlOK ==
  /\ pc \in [Threads -> {"idle", "enqueue", "dequeue"} \cup Writing \cup Reading]
  /\ arg = [t \in Threads |-> arg[t]]
  /\ \A t \in Threads : ArgOK(t)

(* The type invariant.                                                     *)
TypeOK == DataOK /\ ControlOK

(* "A crash does not lose an accepted message": a message whose Enqueue    *)
(* returned is recovered from the log, at any moment and after any kill or *)
(* power loss, until some Dequeue has written its tombstone; and the log   *)
(* can be replayed at all.                                                 *)
Durability ==
  /\ ~Corrupt(file)
  /\ \A m \in acked : m \in Live(file) \/ m.id \in popped

(* "Delivery is at-most-once": no id is returned by Dequeue twice, across  *)
(* any number of restarts.                                                 *)
AtMostOnce == \A id \in Ids : deliveries[id] <= 1

(* The engine holds what a replay of the log would rebuild, always: the    *)
(* only message on its way is the one of an Enqueue between write and      *)
(* Push.  So no other goroutine can see, or a crash reveal, a difference.  *)
InFlight == {arg[t] : t \in {u \in Threads : pc[u] = "enqSync"}}

MemoryMatchesLog ==
  up = "up" => /\ ready \cup delayed = Live(file) \ InFlight
               /\ ready \cap delayed = {}

(* "If the WAL write fails, the message is restored to memory so the       *)
(* in-process state matches the log": what Dequeue puts back, like all the *)
(* engine holds, is live in the log.                                       *)
RestoredMatchesLog == up = "up" => ready \cup delayed \subseteq Live(file)

(* The service counter orders what is live: no two live messages share a   *)
(* Seq, and the next one enqueued is younger than all of them, although    *)
(* the counter is rebuilt from the live set at every start.                *)
LiveSeqUnique ==
  /\ \A a, b \in Live(file) : a.seq = b.seq => a = b
  /\ up = "up" => \A m \in Live(file) : m.seq <= seq

(* The record numbers of the log increase from line to line among the      *)
(* lines a replay accepts, whatever was torn, lost or refused in between.  *)
LogTotallyOrdered ==
  \A i, j \in 1..Len(file) :
    i < j /\ Sound(file, i) /\ Sound(file, j)
      => file[i].rec.seq < file[j].rec.seq

(* The delay cap keeps the multiplication inside the Duration range: what  *)
(* is stored is due between its enqueue time and the cap, never earlier.   *)
DelayHonoured ==
  \A m \in Live(file) :
    /\ m.enqueuedAt <= m.availableAt
    /\ m.availableAt <= m.enqueuedAt + MaxDelaySeconds * Second

(* Each fragment in the log costs at most the record appended right after  *)
(* it: an accepted message can only be missing, and a delivered one only   *)
(* come back, if the record that says so is glued to a fragment.           *)
Glued(op, id) ==
  \E i \in 2..Len(file) :
    /\ file[i].rec.op = op /\ file[i].rec.id = id
    /\ file[i - 1].part # "whole"

DamageConfined ==
  /\ \A m \in acked :
       m \in Live(file) \/ m.id \in popped \/ Glued("ENQUEUE", m.id)
  /\ \A m \in Live(file) : deliveries[m.id] > 0 => Glued("DEQUEUE", m.id)

(* Messages whose tombstone is in the log and which nobody was given.      *)
Taken ==
  {MessageOf(file[i].rec) : i \in
     {j \in 1..Len(file) :
        /\ Enqueues(file, j, file[j].rec.id)
        /\ \E k \in 1..Len(file) : Dequeues(file, k, file[j].rec.id)
        /\ deliveries[file[j].rec.id] = 0}}

(* The service implements DurableQueue: the log alone decides what is live *)
(* and what was taken.  In particular every Dequeue takes the winner among *)
(* all messages due at that moment, concurrent readers and earlier crashes *)
(* notwithstanding.                                                        *)
Promise == INSTANCE DurableQueue WITH live <- Live(file), taken <- Taken

ImplementsDurableQueue == Promise!Spec

(* Stats asks the engine twice and still adds up: between Len and          *)
(* AvailableLen messages may be promoted, but nobody can add or remove.    *)
StatsAddUp ==
  [][\A t \in Threads :
       StatsAvailableLen(t) =>
         arg[t].total = Cardinality(ready') + Cardinality(delayed')]_vars

(* "The message is invisible to consumers while time.Now() < AvailableAt": *)
(* Dequeue takes no message before its time and Snapshot lists none as     *)
(* ready, although all calls promote with clock readings of their own.     *)
NeverEarly ==
  [][\A t \in Threads :
       /\ DequeueAppend(t) => arg'[t].availableAt <= now
       /\ SnapshotTake(t) => \A m \in ready' : m.availableAt <= now]_vars

(* Every message Snapshot lists as ready was visible at the Now it states. *)
SnapshotRespectsNow ==
  [][\A t \in Threads :
       SnapshotTake(t) => \A m \in ready' : m.availableAt <= arg[t].now]_vars

(* No call waits for ever: neither for the lock, under any mix of readers  *)
(* and writers, nor inside it, nor across a Close.                         *)
CallsReturn == \A t \in Threads : pc[t] # "idle" ~> pc[t] = "idle"

(* Once the server stays up and open, every accepted message (whose time   *)
(* the bounded clock reaches) is popped by a polling consumer, wherever    *)
(* promotion and crashes have left it.                                     *)
Due == IdsOf({m \in acked : m.availableAt <= MaxNow})

AcceptedIsPopped ==
  <>[](up = "up" /\ ~closed) => \A id \in Ids : id \in Due ~> id \in popped
=============================================================================
