------------------------------- MODULE Worker -------------------------------
(***************************************************************************)
(* cmd/client, the checkout worker: it enqueues a script of jobs, predicts *)
(* from one snapshot the order in which they will come back, then polls    *)
(* and compares.  The server is the set of messages it holds and the rule  *)
(* of module Engine, one step per call; both sides read the same clock.  A *)
(* call and its answer take up to Lag each, and a call may fail.  Wording  *)
(* is left out; what the explanations say is computed from `told'.         *)
(***************************************************************************)
EXTENDS Engine, Sequences, FiniteSets

CONSTANTS
  Nil,
  Script,         (* the jobs: a sequence of [priority, delay]             *)
  Backlogs,       (* what the queue may hold beforehand; ids below zero    *)
  PollInterval,   (* 500 ms, like all times in units of the clock          *)
  IdleGrace,      (* 1.5 s                                                 *)
  Patience,       (* the 30 s added to the longest delay                   *)
  JustNow,        (* 800 ms, rounded up to a unit of the clock             *)
  Lag,            (* bound: how long a call, or its answer, is under way   *)
  Thieves         (* bound: messages that other consumers take             *)

Jobs == 1..Len(Script)
IsMine(id) == id \in Jobs

Messages ==
  [id : Int, seq : Int, priority : Int, enqueuedAt : Int, availableAt : Int]

ASSUME WorkerAssumption ==
  /\ {PollInterval, IdleGrace} \subseteq Nat \ {0}
  /\ {Patience, JustNow, Lag, Thieves} \subseteq Nat
  /\ Script \in Seq([priority : Int, delay : 0..MaxDelaySeconds])
  /\ Script # <<>>
  /\ \A b \in Backlogs : b \subseteq Messages /\ \A m \in b : m.id < 0
  /\ Nil \notin Int /\ Nil \notin Messages

VARIABLES
  now,        (* the clock                                                 *)
  mode,       (* the server's mode                                         *)
  live,       (* the messages the server holds                             *)
  pc,         (* where run and workerLoop are                              *)
  since,      (* when they got there                                       *)
  pending,    (* own jobs not yet processed, as the server returned them   *)
  expected,   (* the predicted order of own ids                            *)
  actual,     (* own ids in the order processed                            *)
  loop,       (* [start, deadline, nextTick, doneAt] of workerLoop         *)
  told,       (* the last poll: [at, got, when], the time read before the  *)
              (* call, the message returned and (history) when the server  *)
              (* decided                                                   *)
  robbed,     (* history: own jobs other consumers took                    *)
  thefts      (* history: how many messages they took                      *)

client == <<pending, expected, actual, loop, told>>
others == <<robbed, thefts>>
vars == <<now, mode, live, pc, since, client, others>>

Init ==
  /\ now = 0 /\ since = 0
  /\ mode \in Modes
  /\ live \in Backlogs
  /\ pc = "connect"
  /\ pending = {} /\ expected = <<>> /\ actual = <<>>
  /\ loop = Nil /\ told = Nil
  /\ robbed = {} /\ thefts = 0

-----------------------------------------------------------------------------
(* Mutant: ties always go to the oldest.                                   *)
LessForFIFO(a, b) ==
  IF a.priority # b.priority THEN a.priority > b.priority ELSE a.seq < b.seq

(* lessFor, the client's own copy of the selection rule.                   *)
LessFor(a, b) ==
  IF a.priority # b.priority THEN a.priority > b.priority
  ELSE IF mode = "LIFO" THEN a.seq > b.seq ELSE a.seq < b.seq

(* simulateDrain: everything due at t is ready, the first of it by lessFor *)
(* is taken and the clock moves on by one interval; when nothing is ready  *)
(* the clock jumps to the next maturity.                                   *)
SimulateDrain(messages, start) ==
  LET drain[waiting \in SUBSET messages, t \in Int] ==
        LET ready == {m \in waiting : ~(m.availableAt > t)}
            first == CHOOSE m \in ready : \A x \in ready \ {m} : LessFor(m, x)
            next == CHOOSE m \in waiting :
                      \A x \in waiting : m.availableAt <= x.availableAt
        IN CASE waiting = {} -> <<>>
             [] ready # {} ->
                  <<first.id>> \o drain[waiting \ {first}, t + PollInterval]
             [] OTHER -> drain[waiting, next.availableAt]
  IN drain[messages, start]

(* predictLabels: other traffic is dropped from the result.                *)
PredictLabels(messages, t) == SelectSeq(SimulateDrain(messages, t), IsMine)

-----------------------------------------------------------------------------
Goto(label) == pc' = label /\ since' = now

(* A call fails: no connection, the 5 s timeout, a status other than the   *)
(* expected one, or a body that does not decode.  run returns the error.   *)
CallFails ==
  /\ pc \in {"connect", "enqueue", "snapshot", "dequeue", "answer"}
  /\ Goto("failed")
  /\ UNCHANGED <<now, mode, live, client, others>>

(* checkHealth and the first getSnapshot, which only feeds the banner.     *)
Connect ==
  /\ pc = "connect"
  /\ Goto("enqueue")
  /\ UNCHANGED <<now, mode, live, client, others>>

(* The message the server makes of job i; the backlog is older.            *)
NewMessage(i) ==
  [id |-> i, seq |-> 100 + i, priority |-> Script[i].priority,
   enqueuedAt |-> now, availableAt |-> AvailableAt(now, Script[i].delay)]

(* The storefront burst: one POST /enqueue per job, in order.              *)
Enqueue ==
  LET i == Cardinality(pending) + 1
  IN /\ pc = "enqueue"
     /\ live' = live \cup {NewMessage(i)}
     /\ pending' = pending \cup {NewMessage(i)}
     /\ Goto(IF i = Len(Script) THEN "snapshot" ELSE "enqueue")
     /\ UNCHANGED <<now, mode, expected, actual, loop, told, others>>

(* The snapshot behind the prediction, with the server's mode and time;    *)
(* a backlog beyond its 1000 messages is not modelled.                     *)
TakeSnapshot ==
  /\ pc = "snapshot"
  /\ expected' = PredictLabels(live, now)
  /\ Goto("start")
  /\ UNCHANGED <<now, mode, live, pending, actual, loop, told, others>>

-----------------------------------------------------------------------------
MaxDelay ==
  CHOOSE d \in {Script[i].delay : i \in Jobs} :
    \A i \in Jobs : Script[i].delay <= d

LoopFrom(allowance) ==
  [start |-> now, deadline |-> now + MaxDelay * Second + allowance,
   nextTick |-> now + PollInterval, doneAt |-> Nil]

(* Mutant: no allowance beyond the longest delay.                          *)
StartLoopImpatient ==
  /\ pc = "start"
  /\ loop' = LoopFrom(0)
  /\ Goto("poll")
  /\ UNCHANGED <<now, mode, live, pending, expected, actual, told, others>>

(* workerLoop begins: deadline and ticker.                                 *)
StartLoop ==
  /\ pc = "start"
  /\ loop' = LoopFrom(Patience)
  /\ Goto("poll")
  /\ UNCHANGED <<now, mode, live, pending, expected, actual, told, others>>

(* pollOnce reads the clock, then sends POST /dequeue.                     *)
Poll ==
  /\ pc = "poll"
  /\ told' = [at |-> now, got |-> Nil, when |-> now]
  /\ Goto("dequeue")
  /\ UNCHANGED <<now, mode, live, pending, expected, actual, loop, others>>

(* The server hands over the winner among what is due, or answers 204.     *)
Dequeue ==
  /\ pc = "dequeue"
  /\ \/ \E m \in Best(mode, Matured(live, now)) :
          /\ live' = live \ {m}
          /\ told' = [told EXCEPT !.got = m, !.when = now]
     \/ /\ Matured(live, now) = {}
        /\ live' = live /\ told' = [told EXCEPT !.when = now]
  /\ Goto("answer")
  /\ UNCHANGED <<now, mode, pending, expected, actual, loop, others>>

(* Own jobs are scored and leave pending; other traffic is only reported.  *)
Score ==
  IF told.got # Nil /\ IsMine(told.got.id)
  THEN pending' = pending \ {told.got} /\ actual' = Append(actual, told.got.id)
  ELSE UNCHANGED <<pending, actual>>

(* Mutant: the explanation reads the clock after the call.                 *)
AnsweredLate ==
  /\ pc = "answer"
  /\ Score
  /\ told' = [told EXCEPT !.at = now]
  /\ Goto("check")
  /\ UNCHANGED <<now, mode, live, expected, loop, others>>

(* The rest of pollOnce: score the answer and explain it.                  *)
Answered ==
  /\ pc = "answer"
  /\ Score
  /\ Goto("check")
  /\ UNCHANGED <<now, mode, live, expected, loop, told, others>>

AllDone == Len(actual) = Len(Script)
DoneAt == IF loop.doneAt = Nil THEN now ELSE loop.doneAt
Lingered == AllDone /\ now - DoneAt >= IdleGrace

(* Mutant: the loop has no deadline.                                       *)
CheckForEver ==
  /\ pc = "check"
  /\ loop' = IF AllDone THEN [loop EXCEPT !.doneAt = DoneAt] ELSE loop
  /\ Goto(IF Lingered THEN "done" ELSE "wait")
  /\ UNCHANGED <<now, mode, live, pending, expected, actual, told, others>>

(* The end of a round: stop a while after the last job is in, give up      *)
(* after the deadline, else wait for the ticker.                           *)
Check ==
  /\ pc = "check"
  /\ loop' = IF AllDone THEN [loop EXCEPT !.doneAt = DoneAt] ELSE loop
  /\ Goto(IF Lingered THEN "done"
          ELSE IF now > loop.deadline THEN "timedOut" ELSE "wait")
  /\ UNCHANGED <<now, mode, live, pending, expected, actual, told, others>>

(* <-ticker.C: of the ticks missed meanwhile one is kept, and the ticker   *)
(* stays on its grid.                                                      *)
TickerFires ==
  /\ pc = "wait"
  /\ now >= loop.nextTick
  /\ loop' = [loop EXCEPT !.nextTick =
                now + PollInterval - ((now - loop.start) % PollInterval)]
  /\ Goto("poll")
  /\ UNCHANGED <<now, mode, live, pending, expected, actual, told, others>>

-----------------------------------------------------------------------------
(* Another consumer of the same queue takes a message.                     *)
OtherConsumer ==
  /\ thefts < Thieves
  /\ thefts' = thefts + 1
  /\ \E m \in Best(mode, Matured(live, now)) :
       /\ live' = live \ {m}
       /\ robbed' = robbed \cup ({m.id} \cap Jobs)
  /\ UNCHANGED <<now, mode, pc, since, client>>

(* Time passes while a call or an answer is under way, or until the tick.  *)
Tick ==
  /\ \/ /\ pc \in {"enqueue", "snapshot", "start", "dequeue", "answer"}
        /\ now < since + Lag
     \/ pc = "wait" /\ now < loop.nextTick
  /\ now' = now + 1
  /\ UNCHANGED <<mode, live, pc, since, client, others>>

Ended == {"done", "timedOut", "failed"}
Stopped == pc \in Ended /\ UNCHANGED vars

Step ==
  \/ Connect \/ Enqueue \/ TakeSnapshot \/ StartLoop
  \/ Poll \/ Dequeue \/ Answered \/ Check \/ TickerFires

Next == Step \/ CallFails \/ OtherConsumer \/ Tick \/ Stopped

Spec == Init /\ [][Next]_vars

-----------------------------------------------------------------------------
(* What pollOnce prints, computed from the worker's own list and the clock *)
(* reading of the poll: the jobs it believes ready and those it believes   *)
(* still waiting on their backoff.                                         *)
OthersVisible == {p \in pending : Available(p, told.at)}
Hidden == {p \in pending : told.at < p.availableAt}

ExplainEmpty ==
  CASE pending = {} -> "caught up"
    [] OthersVisible # {} -> "unexpected: ready jobs remain"
    [] OTHER -> "waiting on backoff"

ExplainDequeue ==
  CASE pending = {} -> "last remaining job"
    [] OthersVisible = {} /\ \E h \in Hidden : h.priority > told.got.priority ->
         "only ready job; higher-priority webhooks are still on backoff"
    [] OthersVisible = {} -> "only ready job; delayed jobs stay hidden"
    [] \E o \in OthersVisible : o.priority = told.got.priority -> "won the tie"
    [] OTHER -> "highest visible priority"

(* The first sentence of explainDequeue.                                   *)
ExplainReadiness ==
  CASE Script[told.got.id].delay = 0 -> "ready immediately"
    [] told.at - told.got.availableAt < JustNow -> "just became ready"
    [] OTHER -> "has been ready"

(* What printSummary and orderMatches compare.                             *)
OrderMatches == expected = actual

(* The summary reports no mismatch: what the worker processed is what      *)
(* predictLabels said, in both modes.  This is so as long as no backoff    *)
(* ends between a poll of the simulation and the real, later one; the      *)
(* short backlogs of the run leave no such poll, a long one does.          *)
PredictionHolds == pc = "done" => OrderMatches

(* The server had the job to give away when it decided.                    *)
InReach(o) == o.id \notin robbed /\ o.availableAt <= told.when

(* What is printed of the last answer, next to what the server had when it *)
(* decided, which is later than the clock reading the text is made of.     *)
(*   204: ready jobs "remain" only if other consumers have them, and those *)
(*   said to wait on their backoff do.                                     *)
(*   An own job: it outranks every job said to be ready, unless that one   *)
(*   is gone; a job of higher priority said to be on backoff is; any other *)
(*   job said to be on backoff is, or it became ready during the call and  *)
(*   lost to this one (so "the only ready job" is true up to jobs that     *)
(*   would have lost).  It became ready as long ago as printed, up to the  *)
(*   time a call takes.                                                    *)
(*   Other traffic: no job said to be ready outranks it.                   *)
VerdictsTrue ==
  pc = "check" =>
    CASE told.got = Nil ->
           /\ ExplainEmpty = "unexpected: ready jobs remain" =>
                \A o \in OthersVisible : o.id \in robbed
           /\ ExplainEmpty = "waiting on backoff" =>
                \A h \in Hidden : ~InReach(h)
      [] told.got # Nil /\ IsMine(told.got.id) ->
           /\ \A o \in OthersVisible :
                o.id \in robbed \/ Outranks(mode, told.got, o)
           /\ \A h \in Hidden :
                InReach(h) => /\ h.priority <= told.got.priority
                              /\ Outranks(mode, told.got, h)
           /\ ExplainReadiness = "just became ready" =>
                told.when - told.got.availableAt \in 0..(JustNow + Lag)
           /\ ExplainReadiness = "has been ready" =>
                told.when - told.got.availableAt >= JustNow
      [] OTHER ->
           \A o \in OthersVisible :
             o.id \in robbed \/ ~Outranks(mode, o, told.got)

(* "a slow backoff cannot be mistaken for a hang": the deadline is reached *)
(* only if some other consumer took one of the jobs.                       *)
TimesOutOnlyIfRobbed == pc = "timedOut" => robbed # {}

(* The worker ends, with all its jobs or without, at most one slow round   *)
(* after its deadline, even if a job it waits for went to somebody else.   *)
EndsInTime ==
  pc \notin Ended /\ loop # Nil =>
    now <= loop.deadline + PollInterval + 2 * Lag
=============================================================================
