# Queuemaxxing: specification and proofs

TLA+ models of the durable message queue in this repository, the TLC runs that
check them and the TLAPS proofs about them. Paths such as
`pkg/storage/wal.go:281` are relative to `src/`.

## 1. The system

A single server process accepts messages over HTTP, keeps them in an in-memory
scheduler and makes every change durable in an append-only log before it
answers.

| Component | State | Operations | Interacts with |
|---|---|---|---|
| `pkg/model` | none; message, request and mode types | `Validate`, `Available` | everyone |
| `pkg/engine` `FrankensteinQueue` | ready heap, delayed heap, ID map, arrival counter, mutex | `Push`, `Pop`, `Peek`, `Len`, `AvailableLen`, `Remove`, `Snapshot`; all that take a time first promote lazily | called by the service |
| `pkg/storage` `WAL` | file, record counter, mutex | `WriteEnqueue`, `WriteDequeue` (write, then fsync), `Recover`, `Tail`, `Close` | called by the service; file system |
| `pkg/service` `QueueService` | RWMutex, `seq`, `closed` | `NewQueueService`, `Enqueue`, `Dequeue`, `Stats`, `Snapshot`, `WalTail`, `Close` | engine and WAL under its lock |
| `pkg/api` | the requests in flight | one handler per route: decode, validate, call, map errors to status codes | service |
| `cmd/server` | process lifetime | start, `Shutdown` with a 10 s limit, `Close`, exit; or `Close` after a listener error | all of the above |
| `cmd/client` | jobs it enqueued, its prediction, deadline, ticker | burst, `simulateDrain`, polling loop, explanations, comparison | HTTP |
| web console | last snapshot, clock skew | refresh every second, enqueue, dequeue, demos | HTTP |

What is hard here:

- **Durability.** A crash can fall between write, fsync, the in-memory change
  and the answer. Replay must rebuild exactly what was promised.
- **I/O errors and torn appends.** One step of several fails; what it leaves in
  the file meets the next append.
- **Concurrency.** Readers share the service lock and still change the engine:
  promotion is lazy and done by whichever call supplies a time. The time is read
  before the engine is entered.
- **Bookkeeping.** Items carry their heap and slot; `Remove` trusts them.
- **Time.** Inclusive visibility boundary, delay overflow, a wall clock that is
  stepped back.
- **Broken connections.** A handler goes on after its client is gone; a response can be
  lost after the tombstone is durable; a body may never arrive; the process ends with
  handlers still running.
- **Stale answers.** The worker predicts from one snapshot, explains with a clock read
  before the call, and shares the queue; the console draws answers in any order.
- **Progress.** Callers wait on a lock; delayed messages wait for somebody to
  promote them.

The correctness properties per component: the engine selects the right message
for any history of calls; `Recover` computes the set of ENQUEUEs without a
matching DEQUEUE; the service never loses an accepted message, delivers none
twice, never early, keeps memory and log equal, and answers every call; `Tail` shows the
newest records; a status code is the truth and a regular shutdown loses nothing; the
worker reports a mismatch only for a real one, and ends; the console catches up.
`PROJECT.json` lists each hazard at its line with the properties that cover it.

## 2. Modules

```
Model ── Engine ──┬── EngineSpec  <── refined by ── FrankensteinQueue ── MCFrankensteinQueue
                  ├── DurableQueue <── refined by ── QueueService ────── MCQueueService
                  │        └── instantiated by ── Api ── MCApi
                  └── Worker ── MCWorker
Wal ──┬── QueueService
      └── WalTail ── WalRecover ── MCWalRecover
Console

QueueService ── QueueServiceProofs ──┬── DurabilityProofs ─┐
                                     └── HeapProofs ───────┴── RefinementProofs
FrankensteinQueue ── EngineProofs      WalRecover ── WalRecoverProofs
Api ── ApiProofs                       Worker ── WorkerProofs
```

- **Model**: a message is `[id, seq, priority, enqueuedAt, availableAt]`; `Validate`;
  `AvailableAt` with the int64 multiplication (`Wrap`); the inclusive `Available`.
  The payload is opaque to the program and is represented by the id.
- **Engine**: the selection rule (`Outranks`, `Best`) and promotion (`Matured`) on sets.
- **EngineSpec**: the abstract engine, two sets and the result of every call. It and
  DurableQueue say "due" as `availableAt <= now`, not with the code's `Available`.
- **FrankensteinQueue**: the engine as built, two heap arrays of items with
  location and index, the ID map, the arrival counter, and container/heap
  (external) written out. A loop (sift up, sift down, promote) is a recursive function
  of the number of its rounds. One action per method, because each holds the mutex.
- **Wal**: the file as the sequence of chunks that appends left in it, each with
  how much of its line is present, and the closed form `Live` of what a replay
  yields. A chunk appended after a damaged one shares its line.
- **WalTail**: `Tail` as a function of the file: chunk sizes, the byte offset where the
  window opens, the dropped first line, skipped lines, the record limit, `Truncated`.
- **WalRecover**: `Recover` step by step (scanner, lookahead, fold, sort) on any file,
  which is also the file `Tail` is asked about.
- **QueueService**: the service over engine and log. A variable `pc` says where
  each goroutine is; who holds the RWMutex is derived from it. A write section is
  two steps: up to and including `write(2)`, then fsync and return, because a
  crash, the clock or an error can come between. A reader section is split where
  the engine's own mutex is released. `Kill` keeps the page cache, `PowerLoss`
  keeps any prefix that contains what was fsynced, and possibly the start of the
  next record. The engine appears as its two sets, as EngineSpec justifies.
- **DurableQueue**: what users are promised, one set of messages, no log, no lock.
- **Api**: the handlers and `cmd/server` over the queue of DurableQueue, plus the failures
  its promise excludes. `live` and `taken` are what the log says. A failed fsync
  (`SyncFails`) leaves its record there and answers 500, so what memory holds is a
  variable of its own, `held`. A write that fails (`ServiceFails`) leaves nothing or a
  fragment, and a crash may tear the last record; the fragment stays (section 4), and
  once a process that left it or appended behind it is gone, `log` is "doubtful": a start
  may then bring back any of the messages ever `written`. Each connection has a handler
  phase (read, call, commit, reply); the service lock is held in `commit`. Clients hang up at any moment (`HangUp` is also the client's
  5 s timeout), bodies stall until `ReadTimeout`, the process gets a signal, loses its
  listener, runs out of its 10 s or crashes. `outcome` and `received` record what clients
  know. The clock and the mode stand still: no handler looks at either.
- **Worker**: `cmd/client` with its real script and constants. Calls take time, the
  server decides when a call reaches it, and another consumer may take messages. The
  texts of `explainEmpty` and `explainDequeue` are computed as the code does, from the
  clock reading of the poll (`told.at`); `told.when` is when the server decided.
- **Console**: the refresh loop of the page with overlapping requests; a rejection, like
  an answer, may arrive when the server's state is another one.
- The modules named **...Proofs** hold the theorems about the module they extend: section 5.

`Faults` selects what may go wrong in QueueService besides a kill: `powerLoss`,
`tornWrite`, `writeErr` (nothing written), `shortWrite` (a fragment written), `syncErr`,
`clockBack`.

History variables (`issued`, `acked`, `popped`, `deliveries`; in Api `written`,
`outcome` and `received`; in Worker `robbed`, `thefts` and `told.when`) record what callers were told; no action's guard reads
them except that UUIDs are fresh (external: `crypto/rand`), that a doubtful log can
yield only what was written, and for bounds. Operators introduced by
`Mutant:` are plausible bugs; no specification uses them, and each property fails when
one of them takes the place of the definition that follows it (`PROJECT.json`,
"mutants").

## 3. Runs

| Run | Question | Bounds | Distinct states |
|---|---|---|---|
| `service` | types, durability, at-most-once, memory = log, live Seqs unique, delays honoured; implements DurableQueue; Stats adds up and nothing is early, with concurrent promotion; under kills, power loss, refused writes | 2 writers, 2 readers, 2 ids, edge requests, log of 3 | 614,994 |
| `faults` | record numbers ordered; each fragment costs at most the record glued to it | all faults except `writeErr`, log of 4 | 1,028,316 |
| `progress` | every call returns; accepted messages are popped | 2 polling writers, 1 reader, 1 id, fairness | 7,448 |
| `recover` | replay = closed form; fails exactly on mid-file damage; `Tail` shows the newest records, all unless it says truncated | all files of up to 4 chunks over 7 records, window of 2 or 3 records, limits -1 to 2 | 710,516 |
| `engine` | heaps implement EngineSpec; bookkeeping; snapshot = drain order | 4 ids, shared Seq, 2 maturities, 5 pushes | 114,796 |
| `http` | what status codes say is true, failed writes and fsyncs included; 503 only when shutdown was forced; a regular shutdown loses no response; handlers finish | 2 connections, 1 enqueue id, 9 request kinds, fairness | 267,106 |
| `worker` | prediction right; what the printed texts say of the server's decision; times out only if robbed; ends in time | the client's script and one job more in both modes, at most 1 foreign message, 1 theft | 1,328,507 |
| `console` | the page converges to the queue, and to "disconnected" without a server | 2 overlapping refreshes, 3 contents, fairness | 3,402 |

**Why the bounds are enough.**

- *Service.* Two messages are what ordering, collision and duplicate delivery need; two
  writers exhibit every lock conflict (a third only waits), two readers every promotion
  under the shared lock. A log of three holds both ENQUEUEs and a tombstone; `faults` has
  four, one more than fragment, glued record and record after it need. `MaxNow` of 1
  separates before and at maturity. `Second = 1`, `MaxDelaySeconds = 1`, `HalfRange = 2`
  keep the program's relation, the cap below half the range, with an uncapped delay of 2
  wrapping negative.
- *Engine.* Four items give three heap levels. A removal whose replacement must move up
  in container/heap needs six: the run does not reach it, and the proof, for queues of
  any size, covers it.
- *Tail.* Records have two lengths, so a window of 8 bytes opens inside a record, at its
  newline and exactly at a line, over whole, unterminated and torn chunks.
- *Http.* A handler never relates two messages, and order is DurableQueue's business, so
  one id is enough; two connections give a lock conflict, a producer with a consumer, and
  a handler that outlives the shutdown while another one drains. The three rejected
  enqueue bodies, a rejected delay, a limit in range and one out of range are among the
  request kinds. `MaxDeliveries` of 1 lets a doubtful log bring back what was not
  delivered; that it can also deliver twice is in section 4, and no property here claims
  otherwise of it.
- *Worker.* One unit is 250 ms; 500 ms, 1.5 s, 30 s, 4 s and 8 s are the program's
  values, and 4 units the first reading that is not below 800 ms. A call and its answer
  take up to one unit each. The sixth job has the backoff of the fifth and is enqueued up
  to one call later, so that both backoffs can end during one call, with the texts made of
  a clock read before either. In these bounds no backoff ends between a poll of the
  simulation and the real one; longer lags and longer backlogs are where the prediction
  stops being true (section 4, `worker_mismatch`).
- *Console.* Two requests are enough for one answer to overtake another.

**Fairness.**

- *QueueService* (`FairSpec`). Goroutines run: weak fairness on leaving a section.
  `sync.RWMutex` blocks new readers behind a waiting writer, so a writer that finds the
  lock free again and again gets it: strong fairness on acquiring it. Consumers poll
  (`DequeueCall`), the clock moves, and a server that is down is restarted. Nothing
  obliges anyone to enqueue, close, crash or succeed. `progress` has one reader: the model
  does not tell a goroutine about to call `Lock` from one waiting in it, so two readers
  that always overlap could keep a writer out of the model's lock for ever, which the
  real lock rules out.
- *Api*. Strong fairness on each handler's steps: the goroutine runs, and the lock is
  released by whoever holds it and starves nobody. Clients and operators owe nothing.
- *Console*. The timer fires again and again and each request ends, as `fetch` does.
- *Worker*. None: `EndsInTime` is a bound on the clock, and the deadlock check says that
  time or the worker can always move.

Deadlock is checked in every run.

## 4. Where the documentation and the code differ

Each is a run that TLC violates; `PROJECT.json` quotes the lines.

- `torn_tail_loss`: `Recover` ignores a torn last line but does not cut it off, and
  the file is opened for append. The next record lands on the same line. If it is an
  ENQUEUE an acknowledged message is lost, if it is a tombstone the message is
  delivered again (`AtMostOnce` fails under the same faults), and after one more
  record the server does not start. `faults` shows the damage goes no further than
  that record (`DamageConfined`).
- `sync_error`: after a failed fsync the line is in the file although the caller was told
  the call failed. Dequeue has put back a message that the log says is gone
  (`RestoredMatchesLog`), Enqueue has dropped one the log holds (`MemoryMatchesLog` fails
  under the same fault), until the next start. The 500 such a call is answered with is
  not definite: `StatusIsTruth` claims only that the message is undelivered and not in
  memory until the next start, which may bring it back.
- `snapshot_now`: a reader with a later clock reading promotes between another
  reader's clock reading and its snapshot.
- `worker_mismatch`: with six foreign priority-7 messages queued, job E's backoff ends
  between the simulated poll and the real one, which comes a call's duration later. The
  worker reports a mismatch, an exit status of 1, and the engine did nothing wrong.

Not runs of their own:

- With `clockBack` among the faults `NeverEarly` fails, since promotion is permanent. The
  engine states non-decreasing times as a contract for its callers
  (`pkg/engine/queue.go:156`); the service passes the wall clock as it is. No property
  covers delivery after a step back.
- The worker's "is the only ready job" and "still waiting on backoff" are made of the clock
  before the call. If a backoff ends during the call, a job named there may have been
  ready and have lost, on a tie for instance. `worker` reaches this with its last two
  jobs; `VerdictsTrue` states what is left, that such a job has lost and that no job of
  higher priority is among them. No document promises more, so there is no run against it.
- `seq` restarts at the largest live Seq, so a consumed message's Seq is used again,
  where `pkg/model/message.go:79` says that Seq never collides. Among live messages it
  does not as long as no fsync fails and no write is torn (`LiveSeqUnique`, under
  `CleanFaults`): after a failed fsync `seq` is given back while the record that carries
  it stays in the log, and the next message gets the same Seq.
- `pkg/storage/wal.go:34` says that 4 MiB cover several records at the 1 MiB body limit.
  `json.Marshal` writes `<`, `>` and `&` as six bytes, so a record can be larger than the
  window, and `Tail` then shows nothing, marked as truncated. `TailIsNewest` therefore
  promises the last line only if it fits.

## 5. Proofs

Checked by TLAPS for every value of the constants: any sets of goroutines, ids,
connections and requests, any log, script and backlog, heaps of any size. The constants
satisfy the named assumptions of the modules, which TLC evaluates in the runs:
`DelayCapAssumption` (the cap on delays fits in a Duration), `NilAssumption`,
`ServiceAssumption`, `WindowAssumption`, `MaxChunksAssumption`, `RecordsAssumption`,
`BoundsAssumption`, `MessagesAssumption`, `ApiAssumption` and `WorkerAssumption`. All but
the first say what kind of value a constant is, that a record and the window of `Tail`
are not empty, that the values standing for "nothing" are not messages, ids or numbers,
and that the worker's jobs and the messages of others have different ids.

| Theorem | Property | Under |
|---|---|---|
| `TypeInvariant` | `TypeOK` | any faults |
| `LogTotallyOrderedTheorem` | `LogTotallyOrdered` | any faults |
| `DelayHonouredTheorem` | `DelayHonoured` | any faults |
| `StatsAddUpTheorem` | `StatsAddUp` | any faults |
| `DamageConfinedTheorem` | `DamageConfined` | any faults |
| `NeverEarlyTheorem` | `NeverEarly` | `SteadyClock` |
| `DurabilityTheorem`, `AtMostOnceTheorem`, `MemoryMatchesLogTheorem` | `Durability`, `AtMostOnce`, `MemoryMatchesLog` | `CleanFaults` |
| `LiveSeqUniqueTheorem` | `LiveSeqUnique` | `CleanFaults` |
| `RefinementTheorem` | `ImplementsDurableQueue` | `CleanFaults`, `SteadyClock` |
| `RecoverReturnsLiveTheorem`, `FailsOnlyOnCorruptionTheorem` | `RecoverReturnsLive`, `FailsOnlyOnCorruption` | any file |
| `TailIsNewestTheorem` | `TailIsNewest` | any file, window and limit |
| `HeapIntegrityTheorem`, `SnapshotTheorem` | `HeapIntegrity`, `SnapshotIsDrainOrder` | any messages |
| `EngineRefinementTheorem` | `ImplementsEngineSpec` | any messages and limits |
| `StatusIsTruthTheorem`, `RefusedOnlyWhenForcedTheorem`, `ShutdownLosesNothingTheorem` | `StatusIsTruth`, `RefusedOnlyWhenForced`, `ShutdownLosesNothing` | |
| `VerdictsTrueTheorem`, `EndsInTimeTheorem` | `VerdictsTrue`, `EndsInTime` | |
| `TimesOutOnlyIfRobbedTheorem` | `TimesOutOnlyIfRobbed` | `EnoughPatience` |

The three hypotheses:

- `CleanFaults` allows kills, power losses, refused writes and clock steps, and excludes
  torn or short writes and failed fsyncs. The runs `torn_tail_loss` and `sync_error`
  show that durability does not hold without it.
- `SteadyClock` excludes a wall clock that is stepped back: promotion is permanent, so a
  message promoted at a time that is later taken back is early (section 4).
- `EnoughPatience`: there is a bound `most` on the backlog such that
  `(most + Len(Script) + 2) * (PollInterval + 2 * Lag) + IdleGrace <= Patience`.
  A worker that shares its queue with a backlog longer than its allowance does time out
  with its jobs still queued; the hypothesis is the quantity that rules this out. The
  `worker` run satisfies it ((1 + 6 + 2) * 4 + 6 = 42 units, of 120). In real terms: if
  a request and its answer take 50 ms each, a round takes 0.6 s at most, and 30 s cover
  a backlog of some 40 messages.

The inductive invariants, and why each is needed.

- **QueueServiceProofs.** `TypeOK` alone is not inductive: a failed fsync gives `seq`
  back, which stays a natural number only because one goroutine at most is in a write
  section. The invariant is `TypeOK /\ Exclusion`. The types of messages rest on
  `NoWrap`: an accepted delay is added without overflow.
- **HeapProofs.** First the file: one lemma, `LogStep`, says what any step does to it: it
  grows by a chunk with the next number, is cut by a power loss, or stays. `OrderInv`
  cannot be stated with `Sound`, since the soundness of a chunk depends on the ones
  behind it and a cut can make a chunk sound; it uses `Line` and `Begins`, which look
  only backwards. `DelayInv` is about every record in the file, `NoWrap` again being the
  reason. Then the heaps and the clients: `CountInv` for Stats: ids in log, heaps and write sections were issued
  and a pending one is nobody else's (`IdInv`), which keeps the two heaps disjoint when
  a message is pushed, and readers and writers exclude each other (`HeapInv`), which
  keeps the first number true until the second is taken. `DueInv` for `NeverEarly`: the
  ready heap is due, and the clock reading a reader holds is not ahead of the clock.
  `DamageInv` for `DamageConfined`: one ENQUEUE per id and each tombstone behind it,
  whole or not (`Tidy`); what a client was told lies on the platter in whole lines
  (`PlatterInv`); what is in memory is in the file (`WrittenInv`). `Tidy` also has to
  know that a tombstone that can still become readable names a popped message: a
  Dequeue whose fsync failed leaves one behind.
- **DurabilityProofs.** `SafetyInv` adds to types and exclusion
  - `LogInv`: every line whole, one ENQUEUE per id, tombstones after it; ids in the
    file were issued; each acknowledged message and each delivered message's
    tombstone lie in the *synced* part of the file;
  - `CallInv`: a pending Enqueue has an id nobody else has; the goroutine in the
    write section owns the last record;
  - `MemoryInv`: heaps = live set of the log minus the message in flight.

  The lemmas about the file (`LiveWellFormed`, `AppendEnqueue`, `AppendDequeue`,
  `PrefixWellFormed`) say what an append and a cut do to the live set; every action
  then has one lemma.
- **RefinementProofs.** Seqs of all ENQUEUEs in the log do not increase, since a start
  reuses the numbers of consumed messages. `SeqInv` says what is left: they do unless
  the older message was removed before the younger one came. For the refinement,
  `RefInv` joins this with `SafetyInv`, `DueInv` and `HeldInv` (a Dequeue between its
  tombstone and its return holds a message of the log). Then one lemma per kind of
  step: writing an ENQUEUE is `Insert`, its fsync the acknowledgement, writing a
  tombstone takes the winner, its fsync hands it over, a crash loses at most what was
  neither acknowledged nor handed over, and every other step is a stutter.
- **WalRecoverProofs.** `Folded(f, n, ..)` is what the first `n` records make of the map
  and the counter, in closed form; the induction step has a case for each branch of
  `applyLine`: a first ENQUEUE, a repeated one, a tombstone with and without a match.
  The sort has a result because (seq, id) is a strict total order: the place of a
  message is the number of those not behind it. `RecoverInv` says that a scan is `n`
  whole lines in and has one line in hand. `Tail` needs no invariant of the scan, only
  that the file is one: `Loop` gives a recursive function over chunks from a set its
  steps do not leave, offsets grow along the file (`OffsetsGrow`), so the window holds a
  suffix of it (`WindowFacts`), and what is collected up to chunk `k` is, in order, the
  chunks the window keeps (`KeptUpto`, `TailFacts`).
- **ApiProofs.** `ApiInv` has the order of the shutdown (`ShutdownInv`), what log and
  memory know of an id (`QueueInv`), for each handler what its phase says of its message
  (`HandlerInv`: `Sender`, `Consumer`, and `Apart` for two of them), and what holds until
  the log is in doubt (`SoundInv`). `StatusIsTruth` alone is not inductive: a refusal is
  final because nothing of its id was ever written (`Fresh`) and no other handler has the
  id; a 500 leaves memory without the message because no handler that popped it can put
  it back (`Idle`); and that a response carries a message nobody has received needs that
  no two carry the same.
- **WorkerProofs.** `WorkInv`: a job on the worker's list is at the server, was taken by
  somebody else, or is in the answer on its way (`JobInv`, `Tally`); any other job that
  was due when the server decided has lost to the answer or was taken, and that decision
  fell between the poll and the poll plus one lag (`VerdictInv`);
  and how far each stage of a round is behind its beginning (`TimeInv`). For the
  timeout, `PaceInv` counts: once all jobs are due (`MaturityInv`), a round that does
  not take a message from the server finds it without jobs, so each message gone
  excuses one round.

- **EngineProofs.** A loop is a recursive function of its rounds; `Iteration` gives it
  from a set of loop states that a round does not leave, which is the loop invariant,
  and `Induction` shows that the loop is over after the rounds the model runs. Sifting
  up keeps `HeapBut` (in order except between one slot and its parent), sifting down
  `HeapSink` (except between one slot and its children), and both keep the items of the
  array and each item's knowledge of its slot (`Sifted`). A removal from the middle is
  the case that needs both: `HeapRemoveFacts` sifts down, and up only if nothing moved.
  `HeapIntegrity` alone is not inductive. `QueueOK` adds that an item in a heap has the
  message of its id, and that arrival numbers are below the counter and all different,
  without which the comparators would not be total orders. From the order between
  parents and children, `FirstIsLeast` has slot 1 below every other; a sorted list of
  the items is unique (`SortedUnique`), and both the sort of a snapshot and repeated
  Pops make one. The refinement maps a heap to its messages (`Msgs`) and has one case
  per call; `PageFacts` is about the limited pages of a snapshot.

Only model-checked:

- liveness and fairness, out of the prover's reach: `CallsReturn`, `AcceptedIsPopped`,
  `HandlersFinish`, `ConsoleCatchesUp`, `ConsoleNoticesLoss`;
- `PredictionHolds`, a property of the instance and not of every script, lag and
  backlog: longer ones refute it (`worker_mismatch`).

## 6. Not modelled, and the plan

Not modelled, and why:

- payload bytes, JSON text, `Status`, the flag parser, printing and colours: no property
  depends on them;
- `/health`, the console page and the recovery middleware, which keep no state and answer
  constants; an encoding failure of a response, which the response types cannot have;
- the console's forms, rendering and demos (the demos repeat the worker's logic in
  JavaScript), and the test reporter and the sandbox demo, which only print;
- the limit of a snapshot (the worker asks for 1000 and is modelled with all messages);
- the directory entry of a new log, which is up to the file system; two processes on one
  file; log lines beyond the scanner's 16 MiB.

Order of the work:

1. (done) Model, Engine, Wal, WalRecover, QueueService with its promise, the type
   invariant and the durability theorems.
2. (done) `Tail` with a window in bytes.
3. (done) Api over DurableQueue: handlers, lost responses, timeouts, the shutdown sequence.
4. (done) The worker client against other traffic and late polls.
5. (done) The console's overlapping refreshes.
6. (done) The safety properties of the service, the replay, the HTTP layer and the worker,
   and the refinement of DurableQueue, proved for every value of the constants.
7. (done) The engine's loops as recursive functions; `HeapIntegrity`, the order of a
   snapshot and the refinement of EngineSpec proved for queues of any size, and `Tail`
   for any file and window.
