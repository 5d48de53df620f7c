---------------------------- MODULE WorkerProofs ----------------------------
(***************************************************************************)
(* The checkout worker, proved for every script, backlog, poll interval    *)
(* and latency bound: how far what it prints about an answer is true, that *)
(* it ends at most one slow round after its deadline, and that it gives up *)
(* only if another consumer took one of its jobs, as long as the allowance *)
(* added to the longest delay covers one round per message in the queue.   *)
(***************************************************************************)
EXTENDS Worker, FiniteSetTheorems, WellFoundedInduction, TLAPS

Setup == {"connect", "enqueue", "snapshot", "start"}
Rounds == {"poll", "dequeue", "answer", "check", "wait"}

Loops == [start : Nat, deadline : Int, nextTick : Int, doneAt : Int \cup {Nil}]
Polls == [at : Nat, got : Messages \cup {Nil}, when : Nat]

(* Types, and when the loop and the poll have begun.                       *)
Kinds ==
  /\ now \in Nat /\ since \in Nat /\ since <= now
  /\ mode \in Modes
  /\ pc \in Setup \cup Rounds \cup Ended
  /\ live \subseteq Messages /\ pending \subseteq Messages
  /\ actual \in Seq(Jobs)
  /\ pc \in Setup => loop = Nil /\ actual = <<>>
  /\ pc \in Rounds => loop \in Loops
  /\ pc \in Rounds \ {"poll"} => told \in Polls /\ told.at <= now
  /\ pc = "dequeue" => told.got = Nil

(* The job the server has handed over and the worker has not scored.       *)
Carried(p) == pc \in {"answer", "failed"} /\ told.got = p

(* Own jobs have ids and ordering keys of their own; a job on the worker's *)
(* list is at the server, was taken by somebody else, or is on its way.    *)
JobInv ==
  /\ \A p \in pending : p.id \in Jobs /\ p.seq = 100 + p.id
  /\ \A p, q \in pending : p.id = q.id => p = q
  /\ \A m \in live : IsMine(m.id) => m \in pending
  /\ \A p \in pending : p \in live \/ p.id \in robbed \/ Carried(p)
  /\ pc = "answer" =>
       /\ told.got \notin live
       /\ told.got # Nil /\ IsMine(told.got.id) => told.got \in pending
  /\ pc = "check" => told.got \notin pending

(* How many jobs are enqueued, listed and processed.                       *)
Tally ==
  /\ IsFiniteSet(pending)
  /\ pc \in {"connect", "enqueue"} =>
       /\ Cardinality(pending) < Len(Script)
       /\ \A p \in pending : p.id <= Cardinality(pending)
  /\ pc \notin {"connect", "enqueue", "failed"} =>
       Cardinality(pending) + Len(actual) = Len(Script)

(* A job that was in reach when the server decided has lost to the message *)
(* handed over, which was due; the decision fell between the poll and the  *)
(* answer.                                                                 *)
Lost(o) ==
  /\ told.got # Nil
  /\ ~Outranks(mode, o, told.got)
  /\ IsMine(told.got.id) => Outranks(mode, told.got, o)

VerdictInv ==
  pc \in {"answer", "check"} =>
    /\ told.at <= told.when /\ told.when <= told.at + Lag
    /\ told.got # Nil => told.got.availableAt <= told.when
    /\ \A o \in pending \ {told.got} : InReach(o) => Lost(o)

Round == PollInterval + 2 * Lag

(* When a round began, and how long it takes.                              *)
TimeInv ==
  /\ pc \in Rounds =>
       /\ loop.nextTick <= (IF pc = "poll" THEN now ELSE told.at) + PollInterval
       /\ (IF pc = "poll" THEN now ELSE told.at) <= loop.deadline + PollInterval
  /\ pc = "dequeue" => since = told.at /\ now <= since + Lag
  /\ pc = "answer" => since <= told.at + Lag /\ now <= since + Lag
  /\ pc = "check" => now <= told.at + 2 * Lag
  /\ pc = "wait" => /\ now <= told.at + Round
                    /\ told.at <= loop.deadline
                    /\ now <= loop.deadline + PollInterval

-----------------------------------------------------------------------------
LEMMA Parameters ==
  /\ PollInterval \in Nat \ {0} /\ IdleGrace \in Nat \ {0}
  /\ Patience \in Nat /\ Lag \in Nat /\ Round \in Nat
  /\ Len(Script) \in Nat \ {0}
  /\ \A i \in Jobs : Script[i].priority \in Int /\ Script[i].delay \in 0..MaxDelaySeconds
  /\ Jobs \subseteq Int /\ 1 \in Jobs
<1> DEFINE J == [priority : Int, delay : 0..MaxDelaySeconds]
<1>1. Script \in Seq(J) /\ Script # <<>>
  BY WorkerAssumption
<1>2. Len(Script) \in Nat \ {0} /\ \A i \in Jobs : Script[i] \in J
  <2> HIDE DEF J
  <2> QED BY <1>1 DEF Jobs
<1>3. PollInterval \in Nat \ {0} /\ IdleGrace \in Nat \ {0} /\ Patience \in Nat /\ Lag \in Nat
  BY WorkerAssumption
<1>4. Round \in Nat
  BY <1>3 DEF Round
<1>5. \A i \in Jobs : Script[i].priority \in Int /\ Script[i].delay \in 0..MaxDelaySeconds
  BY <1>2
<1>6. Jobs \subseteq Int /\ 1 \in Jobs
  BY <1>2 DEF Jobs
<1> QED BY <1>2, <1>3, <1>4, <1>5, <1>6

LEMMA LeastOf ==
  ASSUME NEW T \in SUBSET Nat, T # {}
  PROVE  \E x \in T : \A y \in T : x <= y
<1> DEFINE R == {p \in Nat \X Nat : p[1] < p[2]}
<1>1. IsWellFoundedOn(R, Nat)
  BY NatLessThanWellFounded DEF OpToRel
<1>2. \A x, y \in Nat : y < x => <<y, x>> \in R
  OBVIOUS
<1> HIDE DEF R
<1>3. PICK x \in T : \A y \in T : ~(<<y, x>> \in R)
  BY <1>1, WFMin
<1>4. \A y \in T : ~(y < x)
  BY <1>2, <1>3
<1> QED BY <1>3, <1>4

(* The longest delay of the script exists: the least bound of the delays   *)
(* is one of them.                                                         *)
LEMMA MaxDelayFacts ==
  MaxDelay \in Nat /\ \A i \in Jobs : Script[i].delay <= MaxDelay
<1> DEFINE D == {Script[i].delay : i \in Jobs}
           U == {b \in Nat : \A i \in Jobs : Script[i].delay <= b}
<1>0. /\ \A i \in Jobs : Script[i].delay \in Nat /\ Script[i].delay <= MaxDelaySeconds
      /\ MaxDelaySeconds \in Nat /\ 1 \in Jobs
  BY Parameters, DelayCapAssumption
<1>1. U \in SUBSET Nat /\ MaxDelaySeconds \in U
  BY <1>0
<1>2. PICK b \in U : \A c \in U : b <= c
  BY <1>1, LeastOf
<1>3. b \in D
  <2> SUFFICES ASSUME b \notin D PROVE FALSE
    OBVIOUS
  <2>1. \A i \in Jobs : Script[i].delay < b
    BY <1>0, <1>2
  <2>2. b \in Nat /\ b > 0
    BY <1>0, <1>2, <2>1
  <2>3. b - 1 \in U
    BY <1>0, <2>1, <2>2
  <2> QED BY <1>2, <2>2, <2>3
<1>4. \E d \in D : \A i \in Jobs : Script[i].delay <= d
  BY <1>2, <1>3
<1>5. MaxDelay \in D /\ \A i \in Jobs : Script[i].delay <= MaxDelay
  BY <1>4 DEF MaxDelay
<1> QED BY <1>0, <1>5

(* A delay the server accepts is added as requested.                       *)
LEMMA DelayAdded ==
  ASSUME NEW delay \in 0..MaxDelaySeconds
  PROVE  Wrap(delay * Second) = delay * Second /\ delay * Second \in Nat
<1> DEFINE d == delay * Second
<1>1. ASSUME NEW a \in Nat, NEW b \in Nat, NEW c \in Nat, a <= b
      PROVE  a * c <= b * c /\ a * c \in Nat
  BY <1>1
<1>2. d \in Nat /\ d <= MaxDelaySeconds * Second
  BY <1>1, DelayCapAssumption
<1>3. d < HalfRange
  BY <1>2, DelayCapAssumption
<1>4. ASSUME NEW a \in Nat, NEW b \in Nat, a < b PROVE a % b = a
  BY <1>4
<1>5. (d + HalfRange) % (2 * HalfRange) = d + HalfRange
  <2> HIDE DEF d
  <2>1. d + HalfRange \in Nat /\ 2 * HalfRange \in Nat /\ d + HalfRange < 2 * HalfRange
    BY <1>2, <1>3, DelayCapAssumption
  <2> QED BY <1>4, <2>1
<1>6. Wrap(d) = d
  <2> HIDE DEF d
  <2> QED BY <1>2, <1>5, DelayCapAssumption DEF Wrap
<1> QED BY <1>2, <1>6

LEMMA LongestAllowance ==
  /\ MaxDelay * Second \in Nat
  /\ \A i \in Jobs : Script[i].delay * Second <= MaxDelay * Second
<1>1. ASSUME NEW a \in Nat, NEW b \in Nat, NEW c \in Nat, a <= b
      PROVE  a * c <= b * c /\ b * c \in Nat
  BY <1>1
<1>2. MaxDelay \in Nat /\ Second \in Nat /\ MaxDelay <= MaxDelay
  BY MaxDelayFacts, DelayCapAssumption
<1>3. \A i \in Jobs : Script[i].delay \in Nat /\ Script[i].delay <= MaxDelay
  BY Parameters, MaxDelayFacts, DelayCapAssumption
<1> QED BY <1>1, <1>2, <1>3

LEMMA NewMessageFacts ==
  ASSUME now \in Nat, NEW i \in Jobs
  PROVE  /\ NewMessage(i) \in Messages
         /\ NewMessage(i).id = i /\ NewMessage(i).seq = 100 + i
         /\ NewMessage(i).availableAt <= now + MaxDelay * Second
<1>1. i \in Int /\ Script[i].priority \in Int /\ Script[i].delay \in 0..MaxDelaySeconds
  BY Parameters
<1> DEFINE d == Script[i].delay * Second
           a == AvailableAt(now, Script[i].delay)
<1>2. d \in Nat /\ a = now + d /\ d <= MaxDelay * Second /\ MaxDelay * Second \in Nat
  BY <1>1, DelayAdded, LongestAllowance DEF AvailableAt
<1>3. a \in Int /\ a <= now + MaxDelay * Second
  BY <1>2
<1> HIDE DEF a
<1>4. NewMessage(i) = [id |-> i, seq |-> 100 + i, priority |-> Script[i].priority,
                       enqueuedAt |-> now, availableAt |-> a]
  BY DEF NewMessage, a
<1> QED BY <1>1, <1>3, <1>4 DEF Messages

-----------------------------------------------------------------------------
(* The burst enqueues the job after those already listed.                  *)
LEMMA EnqueueNext ==
  ASSUME Kinds, Tally, Enqueue
  PROVE  /\ pc = "enqueue" /\ Cardinality(pending) + 1 \in Jobs
         /\ live' = live \cup {NewMessage(Cardinality(pending) + 1)}
         /\ pending' = pending \cup {NewMessage(Cardinality(pending) + 1)}
         /\ pc' = IF Cardinality(pending) + 1 = Len(Script) THEN "snapshot" ELSE "enqueue"
         /\ since' = now
         /\ UNCHANGED <<now, mode, expected, actual, loop, told, robbed, thefts>>
<1>1. Cardinality(pending) \in Nat
  BY FS_CardinalityType DEF Tally
<1>2. pc = "enqueue"
  BY DEF Enqueue
<1>3. Cardinality(pending) + 1 \in Jobs
  BY <1>1, <1>2, Parameters DEF Tally, Jobs
<1> QED BY <1>2, <1>3 DEF Enqueue, Goto, others

(* The next tick is at most one interval away.                             *)
LEMMA TickerGrid ==
  ASSUME Kinds, TickerFires
  PROVE  /\ loop' = [loop EXCEPT !.nextTick = loop'.nextTick]
         /\ loop'.nextTick \in Int /\ loop'.nextTick <= now + PollInterval
<1>1. loop \in Loops /\ now \in Nat
  BY DEF TickerFires, Kinds, Rounds
<1>2. loop.start \in Nat
  BY <1>1 DEF Loops
<1> DEFINE r == (now - loop.start) % PollInterval
<1>3. r \in Int /\ r >= 0
  <2>1. ASSUME NEW a \in Int, NEW b \in Nat \ {0} PROVE a % b \in Int /\ a % b >= 0
    BY <2>1
  <2>2. now - loop.start \in Int
    BY <1>1, <1>2
  <2> QED BY <2>1, <2>2, Parameters
<1>4. loop' = [loop EXCEPT !.nextTick = now + PollInterval - r]
  BY DEF TickerFires
<1> HIDE DEF r
<1>5. loop'.nextTick = now + PollInterval - r
  BY <1>1, <1>4 DEF Loops
<1> QED BY <1>1, <1>3, <1>4, <1>5, Parameters

LEMMA KindsStep ==
  ASSUME Kinds, Tally, [Next]_vars
  PROVE  Kinds'
<1> USE DEF Goto, client, others
<1>0. /\ now \in Nat /\ now + 1 \in Nat /\ Nil \notin Messages
      /\ \A m \in Messages : m.id \in Int
  BY WorkerAssumption DEF Kinds, Messages
<1>1. CASE UNCHANGED vars \/ Stopped
  BY <1>1 DEF vars, Stopped, Kinds
<1>2. CASE CallFails
  BY <1>0, <1>2 DEF CallFails, Kinds, Setup, Rounds, Ended
<1>3. CASE Connect
  BY <1>0, <1>3 DEF Connect, Kinds, Setup, Rounds, Ended
<1>4. CASE Enqueue
  <2>1. NewMessage(Cardinality(pending) + 1) \in Messages
    BY <1>0, <1>4, EnqueueNext, NewMessageFacts
  <2> HIDE DEF NewMessage
  <2> QED BY <1>0, <1>4, <2>1, EnqueueNext DEF Kinds, Setup, Rounds, Ended
<1>5. CASE TakeSnapshot
  BY <1>0, <1>5 DEF TakeSnapshot, Kinds, Setup, Rounds, Ended
<1>6. CASE StartLoop
  <2>1. LoopFrom(Patience) \in Loops
    BY <1>0, Parameters, LongestAllowance DEF LoopFrom, Loops
  <2> QED BY <1>0, <1>6, <2>1 DEF StartLoop, Kinds, Setup, Rounds, Ended
<1>7. CASE Poll
  BY <1>0, <1>7 DEF Poll, Kinds, Setup, Rounds, Ended, Polls
<1>8. CASE Dequeue
  <2>1. pc = "dequeue" /\ told \in Polls /\ told.at <= now
    BY <1>8 DEF Dequeue, Kinds, Rounds
  <2>2. live' \subseteq Messages /\ told' \in Polls /\ told'.at = told.at
    <3>1. CASE \E m \in Best(mode, Matured(live, now)) :
                  live' = live \ {m} /\ told' = [told EXCEPT !.got = m, !.when = now]
      <4>1. PICK m \in Best(mode, Matured(live, now)) :
                  live' = live \ {m} /\ told' = [told EXCEPT !.got = m, !.when = now]
        BY <3>1
      <4>2. m \in Messages
        BY DEF Best, Matured, Kinds
      <4> QED BY <1>0, <2>1, <4>1, <4>2 DEF Polls, Kinds
    <3>2. CASE live' = live /\ told' = [told EXCEPT !.when = now]
      BY <1>0, <2>1, <3>2 DEF Kinds, Polls
    <3> QED BY <1>8, <3>1, <3>2 DEF Dequeue
  <2>3. /\ pc' = "answer" /\ since' = now
        /\ UNCHANGED <<now, mode, pending, expected, actual, loop, others>>
    BY <1>8 DEF Dequeue
  <2> QED BY <1>0, <2>1, <2>2, <2>3 DEF Kinds, Setup, Rounds, Ended
<1>9. CASE Answered
  <2>1. pending' \subseteq Messages /\ actual' \in Seq(Jobs)
    BY <1>9 DEF Answered, Score, Kinds, IsMine
  <2> QED BY <1>0, <1>9, <2>1 DEF Answered, Kinds, Setup, Rounds, Ended
<1>10. CASE Check
  <2>1. loop \in Loops
    BY <1>10 DEF Check, Kinds, Rounds
  <2>2. DoneAt \in Int \cup {Nil}
    BY <1>0, <2>1 DEF DoneAt, Loops
  <2>3. loop' \in Loops
    BY <1>10, <2>1, <2>2 DEF Check, Loops
  <2>4. pc = "check" /\ pc' \in {"done", "timedOut", "wait"}
    BY <1>10 DEF Check
  <2> QED BY <1>0, <1>10, <2>3, <2>4 DEF Check, Kinds, Setup, Rounds, Ended
<1>11. CASE TickerFires
  <2>1. loop' \in Loops
    BY <1>11, TickerGrid DEF Kinds, Rounds, Loops, TickerFires
  <2> QED BY <1>0, <1>11, <2>1 DEF TickerFires, Kinds, Setup, Rounds, Ended
<1>12. CASE OtherConsumer
  BY <1>12 DEF OtherConsumer, Kinds
<1>13. CASE Tick
  BY <1>0, <1>13 DEF Tick, Kinds, Polls
<1> QED BY <1>1, <1>2, <1>3, <1>4, <1>5, <1>6, <1>7, <1>8, <1>9, <1>10, <1>11, <1>12, <1>13
        DEF Next, Step

-----------------------------------------------------------------------------
(* A round that began in time ends in time.                                *)
LEMMA TimeStep ==
  ASSUME Kinds, TimeInv, [Next]_vars
  PROVE  TimeInv'
<1> USE DEF Goto, client, others
<1>0. /\ now \in Nat /\ since \in Nat /\ since <= now /\ PollInterval \in Nat /\ Lag \in Nat
      /\ Round = PollInterval + 2 * Lag
  BY Parameters DEF Kinds, Round
<1>1. pc \in Rounds => loop.nextTick \in Int /\ loop.deadline \in Int
  BY DEF Kinds, Loops
<1>2. pc \in Rounds \ {"poll"} => told.at \in Nat /\ told.at <= now
  BY DEF Kinds, Polls
<1>3. CASE UNCHANGED vars \/ Stopped \/ OtherConsumer
  BY <1>3 DEF vars, Stopped, OtherConsumer, TimeInv
<1>4. CASE CallFails \/ Connect \/ TakeSnapshot \/ Enqueue
  <2>1. pc' \in {"failed", "enqueue", "start", "snapshot"}
    BY <1>4 DEF CallFails, Connect, TakeSnapshot, Enqueue
  <2> QED BY <2>1 DEF TimeInv, Rounds
<1>5. CASE StartLoop
  <2>1. /\ pc' = "poll" /\ now' = now
        /\ loop'.nextTick = now + PollInterval
        /\ loop'.deadline = now + MaxDelay * Second + Patience
    BY <1>5 DEF StartLoop, LoopFrom
  <2>2. now <= loop'.deadline + PollInterval
    BY <1>0, <2>1, Parameters, LongestAllowance
  <2> QED BY <1>0, <2>1, <2>2 DEF TimeInv
<1>6. CASE Poll
  <2>1. pc = "poll" /\ pc' = "dequeue" /\ told'.at = now /\ since' = now /\ UNCHANGED <<now, loop>>
    BY <1>6 DEF Poll
  <2> QED BY <1>0, <2>1 DEF TimeInv, Rounds
<1>7. CASE Dequeue
  <2>1. pc = "dequeue" /\ pc' = "answer" /\ since' = now /\ UNCHANGED <<now, loop>>
    BY <1>7 DEF Dequeue
  <2>2. told'.at = told.at
    BY <1>7, <2>1 DEF Dequeue, Kinds, Rounds, Polls
  <2> QED BY <1>0, <1>2, <2>1, <2>2 DEF TimeInv, Rounds
<1>8. CASE Answered
  <2>1. pc = "answer" /\ pc' = "check" /\ UNCHANGED <<now, loop, told>>
    BY <1>8 DEF Answered
  <2> QED BY <1>0, <1>2, <2>1 DEF TimeInv, Rounds
<1>9. CASE Check
  <2>1. pc = "check" /\ UNCHANGED <<now, told>>
    BY <1>9 DEF Check
  <2>2. loop'.nextTick = loop.nextTick /\ loop'.deadline = loop.deadline
    BY <1>9, <2>1 DEF Check, Kinds, Rounds, Loops
  <2>3. pc' \in Ended \/ (pc' = "wait" /\ ~(now > loop.deadline))
    BY <1>9 DEF Check, Ended
  <2> QED BY <1>0, <1>1, <1>2, <2>1, <2>2, <2>3 DEF TimeInv, Rounds, Ended
<1>10. CASE TickerFires
  <2>1. pc = "wait" /\ pc' = "poll" /\ now' = now
    BY <1>10 DEF TickerFires
  <2>2. loop'.nextTick <= now + PollInterval /\ loop'.deadline = loop.deadline
    BY <1>10, <2>1, TickerGrid DEF Kinds, Rounds, Loops
  <2> QED BY <1>0, <2>1, <2>2 DEF TimeInv
<1>11. CASE Tick
  <2>1. now' = now + 1 /\ UNCHANGED <<pc, since, loop, told>>
    BY <1>11 DEF Tick
  <2>2. CASE pc \in {"enqueue", "snapshot", "start"}
    BY <2>1, <2>2 DEF TimeInv, Rounds
  <2>3. CASE pc \in {"dequeue", "answer"} /\ now < since + Lag
    BY <1>0, <2>1, <2>3 DEF TimeInv, Rounds
  <2>4. CASE pc = "wait" /\ now < loop.nextTick
    BY <1>0, <1>1, <1>2, <2>1, <2>4 DEF TimeInv, Rounds
  <2> QED BY <1>11, <2>2, <2>3, <2>4 DEF Tick
<1> QED BY <1>3, <1>4, <1>5, <1>6, <1>7, <1>8, <1>9, <1>10, <1>11 DEF Next, Step

(* Jobs are enqueued in the order of the script and counted down.          *)
LEMMA TallyStep ==
  ASSUME Kinds, JobInv, Tally, [Next]_vars
  PROVE  Tally'
<1> USE DEF Goto, client, others
<1>0. Cardinality(pending) \in Nat /\ Len(Script) \in Nat /\ Len(actual) \in Nat
  BY Parameters, FS_CardinalityType DEF Tally, Kinds
<1>1. CASE UNCHANGED vars \/ Stopped \/ OtherConsumer \/ Tick
  <2>1. UNCHANGED <<pending, pc, actual>>
    BY <1>1 DEF vars, Stopped, OtherConsumer, Tick
  <2> QED BY <2>1 DEF Tally
<1>2. CASE CallFails
  BY <1>2 DEF CallFails, Tally
<1>3. CASE Connect
  BY <1>3 DEF Connect, Tally
<1>4. CASE Enqueue
  <2>0. PICK i : i = Cardinality(pending) + 1
    OBVIOUS
  <2>1. PICK m : m = NewMessage(i)
    OBVIOUS
  <2>2. /\ i \in Jobs /\ m.id = i /\ actual' = actual /\ actual = <<>>
        /\ pending' = pending \cup {m} /\ pc = "enqueue"
        /\ pc' = IF i = Len(Script) THEN "snapshot" ELSE "enqueue"
    BY <1>4, <2>0, <2>1, EnqueueNext, NewMessageFacts DEF Kinds, Setup
  <2>3. m \notin pending
    BY <1>0, <2>0, <2>2 DEF Tally
  <2>4. IsFiniteSet(pending') /\ Cardinality(pending') = i
    BY <2>0, <2>2, <2>3, FS_AddElement DEF Tally
  <2>5. \A p \in pending' : p.id <= i
    <3>1. \A p \in pending : p.id \in Int
      BY Parameters DEF JobInv
    <3> QED BY <1>0, <2>0, <2>2, <3>1 DEF Tally
  <2>6. i \in Nat /\ i <= Len(Script)
    BY <2>2, Parameters DEF Jobs
  <2>7. Len(actual') = 0
    BY <2>2
  <2>8. CASE i = Len(Script)
    BY <2>2, <2>4, <2>6, <2>7, <2>8 DEF Tally
  <2>9. CASE i # Len(Script)
    <3>1. pc' = "enqueue" /\ i < Len(Script)
      BY <1>0, <2>2, <2>6, <2>9
    <3> QED BY <2>4, <2>5, <3>1 DEF Tally
  <2> QED BY <2>8, <2>9
<1>5. CASE TakeSnapshot \/ StartLoop \/ Poll \/ Dequeue \/ Check \/ TickerFires
  <2>1. UNCHANGED <<pending, actual>>
    BY <1>5 DEF TakeSnapshot, StartLoop, Poll, Dequeue, Check, TickerFires
  <2>2. /\ pc \notin {"connect", "enqueue", "failed"}
        /\ pc' \notin {"connect", "enqueue", "failed"}
    BY <1>5 DEF TakeSnapshot, StartLoop, Poll, Dequeue, Check, TickerFires
  <2> QED BY <2>1, <2>2 DEF Tally
<1>6. CASE Answered
  <2>1. pc = "answer" /\ pc' = "check"
    BY <1>6 DEF Answered
  <2>2. CASE told.got # Nil /\ IsMine(told.got.id)
    <3>1. /\ told.got \in pending /\ pending' = pending \ {told.got}
          /\ actual' = Append(actual, told.got.id) /\ told.got.id \in Jobs
      BY <1>6, <2>1, <2>2 DEF Answered, Score, JobInv, IsMine
    <3>2. Len(actual') = Len(actual) + 1
      BY <3>1 DEF Kinds
    <3>3. IsFiniteSet(pending') /\ Cardinality(pending') = Cardinality(pending) - 1
      BY <3>1, FS_RemoveElement DEF Tally
    <3> QED BY <1>0, <2>1, <3>2, <3>3 DEF Tally
  <2>3. CASE ~(told.got # Nil /\ IsMine(told.got.id))
    BY <1>6, <2>1, <2>3 DEF Answered, Score, Tally
  <2> QED BY <2>2, <2>3
<1> QED BY <1>1, <1>2, <1>3, <1>4, <1>5, <1>6 DEF Next, Step

(* The server holds own jobs only as the worker lists them.                *)
LEMMA JobStep ==
  ASSUME Kinds, JobInv, Tally, [Next]_vars
  PROVE  JobInv'
<1> USE DEF Goto, client, others
<1>0. Nil \notin Messages /\ live \subseteq Messages /\ pending \subseteq Messages
  BY WorkerAssumption DEF Kinds
<1>1. CASE UNCHANGED vars \/ Stopped \/ Tick
  BY <1>1 DEF vars, Stopped, Tick, JobInv, Carried
<1>2. CASE CallFails
  BY <1>2 DEF CallFails, JobInv, Carried
<1>3. CASE Connect \/ TakeSnapshot \/ StartLoop \/ Poll \/ Check \/ TickerFires
  <2>1. /\ UNCHANGED <<live, pending, robbed>>
        /\ pc \notin {"answer", "failed"} /\ pc' \notin {"answer", "failed", "check"}
    BY <1>3 DEF Connect, TakeSnapshot, StartLoop, Poll, Check, TickerFires
  <2> QED BY <2>1 DEF JobInv, Carried
<1>4. CASE Enqueue
  <2>0. PICK i : i = Cardinality(pending) + 1
    OBVIOUS
  <2>1. PICK m : m = NewMessage(i)
    OBVIOUS
  <2>2. /\ i \in Jobs /\ m.id = i /\ m.seq = 100 + i /\ robbed' = robbed
        /\ pending' = pending \cup {m} /\ live' = live \cup {m} /\ pc = "enqueue"
        /\ pc' \in {"snapshot", "enqueue"}
    BY <1>4, <2>0, <2>1, EnqueueNext, NewMessageFacts DEF Kinds
  <2>3. \A p \in pending : p.id # i
    <3>1. \A p \in pending : p.id \in Int /\ p.id <= Cardinality(pending)
      BY <2>2, Parameters DEF JobInv, Tally
    <3>2. Cardinality(pending) \in Nat
      BY FS_CardinalityType DEF Tally
    <3> QED BY <2>0, <3>1, <3>2
  <2> QED BY <2>2, <2>3 DEF JobInv, Carried
<1>5. CASE Dequeue
  <2>1. pc = "dequeue" /\ pc' = "answer" /\ told \in Polls /\ told.got = Nil
        /\ UNCHANGED <<pending, robbed>>
    BY <1>5 DEF Dequeue, Kinds, Rounds
  <2>2. CASE \E m \in Best(mode, Matured(live, now)) :
                live' = live \ {m} /\ told' = [told EXCEPT !.got = m, !.when = now]
    <3>1. PICK m \in Best(mode, Matured(live, now)) :
                live' = live \ {m} /\ told' = [told EXCEPT !.got = m, !.when = now]
      BY <2>2
    <3>2. m \in live /\ told'.got = m
      BY <2>1, <3>1 DEF Best, Matured, Polls
    <3> QED BY <2>1, <3>1, <3>2 DEF JobInv, Carried
  <2>3. CASE live' = live /\ told' = [told EXCEPT !.when = now]
    <3>1. told'.got = told.got
      BY <2>1, <2>3 DEF Polls
    <3> QED BY <1>0, <2>1, <2>3, <3>1 DEF JobInv, Carried
  <2> QED BY <1>5, <2>2, <2>3 DEF Dequeue
<1>6. CASE Answered
  <2>1. pc = "answer" /\ pc' = "check" /\ UNCHANGED <<live, robbed, told>>
    BY <1>6 DEF Answered
  <2>2. CASE told.got # Nil /\ IsMine(told.got.id)
    <3>1. pending' = pending \ {told.got}
      BY <1>6, <2>2 DEF Answered, Score
    <3> QED BY <2>1, <3>1 DEF JobInv, Carried
  <2>3. CASE ~(told.got # Nil /\ IsMine(told.got.id))
    <3>1. pending' = pending /\ told.got \notin pending
      BY <1>0, <1>6, <2>3 DEF Answered, Score, JobInv, IsMine
    <3> QED BY <2>1, <3>1 DEF JobInv, Carried
  <2> QED BY <2>2, <2>3
<1>7. CASE OtherConsumer
  <2>1. PICK m \in Best(mode, Matured(live, now)) :
          live' = live \ {m} /\ robbed' = robbed \cup ({m.id} \cap Jobs)
    BY <1>7 DEF OtherConsumer
  <2>2. UNCHANGED <<pc, pending, told>>
    BY <1>7 DEF OtherConsumer
  <2>3. m \in live
    BY DEF Best, Matured
  <2> QED BY <2>1, <2>2, <2>3 DEF JobInv, Carried
<1> QED BY <1>1, <1>2, <1>3, <1>4, <1>5, <1>6, <1>7 DEF Next, Step

-----------------------------------------------------------------------------
(* Of two own jobs one outranks the other: their ordering keys differ.     *)
LEMMA OneOutranks ==
  ASSUME JobInv, Kinds, NEW p \in pending, NEW q \in pending, p # q, ~Outranks(mode, q, p)
  PROVE  Outranks(mode, p, q)
<1>1. p.seq # q.seq /\ p.seq \in Int /\ q.seq \in Int /\ p.priority \in Int /\ q.priority \in Int
  <2>1. p.id # q.id /\ p.id \in Int /\ q.id \in Int
    BY Parameters DEF JobInv
  <2>2. p.seq = 100 + p.id /\ q.seq = 100 + q.id
    BY DEF JobInv
  <2>3. p.priority \in Int /\ q.priority \in Int
    BY DEF Kinds, Messages
  <2> QED BY <2>1, <2>2, <2>3
<1>2. mode = "LIFO" \/ mode # "LIFO"
  OBVIOUS
<1> QED BY <1>1, <1>2 DEF Outranks

(* No job in reach when the server decides beats the one handed over.      *)
LEMMA VerdictStep ==
  ASSUME Kinds, JobInv, VerdictInv, TimeInv, [Next]_vars
  PROVE  VerdictInv'
<1> USE DEF Goto, client, others
<1>0. Nil \notin Messages /\ live \subseteq Messages /\ pending \subseteq Messages
  BY WorkerAssumption DEF Kinds
<1>1. CASE UNCHANGED vars \/ Stopped \/ Tick
  <2>1. UNCHANGED <<pending, pc, told, mode, robbed>>
    BY <1>1 DEF vars, Stopped, Tick
  <2> QED BY <2>1 DEF VerdictInv, InReach, Lost
<1>2. CASE \/ CallFails \/ Connect \/ Enqueue \/ TakeSnapshot \/ StartLoop
           \/ Poll \/ Check \/ TickerFires
  <2>1. pc' \notin {"answer", "check"}
    BY <1>2 DEF CallFails, Connect, Enqueue, TakeSnapshot, StartLoop, Poll, Check, TickerFires
  <2> QED BY <2>1 DEF VerdictInv
<1>3. CASE OtherConsumer
  <2>1. UNCHANGED <<pending, pc, told, mode>> /\ robbed \subseteq robbed'
    BY <1>3 DEF OtherConsumer
  <2> QED BY <2>1 DEF VerdictInv, InReach, Lost
<1>4. CASE Answered
  <2>1. pc = "answer" /\ UNCHANGED <<told, mode, robbed>> /\ pending' \subseteq pending
    BY <1>4 DEF Answered, Score
  <2> QED BY <2>1 DEF VerdictInv, InReach, Lost
<1>5. CASE Dequeue
  <2>0. pc = "dequeue" /\ UNCHANGED <<pending, mode, robbed>>
    BY <1>5 DEF Dequeue
  <2>1. /\ pc = "dequeue" /\ told \in Polls /\ told.at \in Int /\ now \in Int
        /\ told.at <= now /\ told.got = Nil /\ now <= told.at + Lag
        /\ UNCHANGED <<pending, mode, robbed>>
    <3>1. told \in Polls /\ now \in Int /\ told.at <= now /\ told.got = Nil
      BY <2>0 DEF Kinds, Rounds
    <3>2. since = told.at /\ now <= since + Lag
      BY <2>0 DEF TimeInv
    <3> QED BY <2>0, <3>1, <3>2 DEF Polls
  <2>2. ASSUME NEW o \in pending, o.availableAt <= now, o.id \notin robbed
        PROVE  o \in Matured(live, now)
    <3>1. o \in live
      BY <2>1, <2>2 DEF JobInv, Carried
    <3>2. Available(o, now)
      BY <1>0, <2>1, <2>2 DEF Available, Messages
    <3> QED BY <3>1, <3>2 DEF Matured
  <2>3. CASE \E m \in Best(mode, Matured(live, now)) :
                live' = live \ {m} /\ told' = [told EXCEPT !.got = m, !.when = now]
    <3>1. PICK m \in Best(mode, Matured(live, now)) :
                live' = live \ {m} /\ told' = [told EXCEPT !.got = m, !.when = now]
      BY <2>3
    <3>2. m \in live /\ told'.got = m /\ told'.at = told.at /\ told'.when = now
      BY <2>1, <3>1 DEF Best, Matured, Polls
    <3>3. m # Nil /\ m.availableAt <= now
      BY <1>0, <2>1, <3>1, <3>2 DEF Best, Matured, Available, Messages
    <3>4. ASSUME NEW o \in pending, o.availableAt <= now, o # m, o.id \notin robbed
          PROVE  ~Outranks(mode, o, m) /\ (IsMine(m.id) => Outranks(mode, m, o))
      <4>1. ~Outranks(mode, o, m)
        BY <2>2, <3>4 DEF Best
      <4>2. IsMine(m.id) => m \in pending
        BY <3>2, <3>4 DEF JobInv
      <4> QED BY <3>4, <4>1, <4>2, OneOutranks
    <3> QED BY <2>1, <3>2, <3>3, <3>4 DEF VerdictInv, InReach, Lost
  <2>4. CASE /\ Matured(live, now) = {}
             /\ live' = live /\ told' = [told EXCEPT !.when = now]
    <3>1. told'.got = Nil /\ told'.at = told.at /\ told'.when = now
      BY <2>1, <2>4 DEF Polls
    <3> QED BY <2>1, <2>2, <2>4, <3>1 DEF VerdictInv, InReach, Lost
  <2> QED BY <1>5, <2>3, <2>4 DEF Dequeue
<1> QED BY <1>1, <1>2, <1>3, <1>4, <1>5 DEF Next, Step

WorkInv == Kinds /\ JobInv /\ Tally /\ VerdictInv /\ TimeInv

LEMMA WorkInit ==
  ASSUME Init
  PROVE  WorkInv
<1>0. pc = "connect" /\ pending = {} /\ robbed = {} /\ live \in Backlogs /\ now = 0 /\ since = 0
  BY DEF Init
<1>1. live \subseteq Messages /\ \A m \in live : ~IsMine(m.id)
  BY <1>0, WorkerAssumption DEF IsMine, Jobs
<1>2. Kinds
  BY <1>0, <1>1 DEF Init, Kinds, Setup, Rounds, Ended
<1>3. JobInv
  BY <1>0, <1>1 DEF JobInv
<1>4. Tally
  <2>1. IsFiniteSet(pending) /\ Cardinality(pending) = 0
    BY <1>0, FS_EmptySet
  <2> QED BY <1>0, <2>1, Parameters DEF Tally
<1>5. VerdictInv /\ TimeInv
  BY <1>0 DEF VerdictInv, TimeInv, Rounds
<1> QED BY <1>2, <1>3, <1>4, <1>5 DEF WorkInv

LEMMA WorkStep ==
  ASSUME WorkInv, [Next]_vars
  PROVE  WorkInv'
  BY KindsStep, JobStep, TallyStep, VerdictStep, TimeStep DEF WorkInv

LEMMA WorkInvariant == Spec => []WorkInv
<1>1. Init => WorkInv
  BY WorkInit
<1>2. WorkInv /\ [Next]_vars => WorkInv'
  BY WorkStep
<1> QED BY <1>1, <1>2, PTL DEF Spec

(* What pollOnce prints, next to what the server had when it decided, for  *)
(* every script, backlog and latency: ready jobs "remain" after a 204 only *)
(* if others took them and the waiting ones wait; an own job outranks      *)
(* those said to be ready, a job of higher priority said to be on backoff  *)
(* is, and any other in reach would have lost; foreign traffic is          *)
(* outranked by none said to be ready.                                     *)
THEOREM VerdictsTrueTheorem == Spec => []VerdictsTrue
<1>1. ASSUME WorkInv, pc = "check" PROVE VerdictsTrue
  <2>1. /\ told \in Polls /\ told.at \in Int /\ told.when \in Int
        /\ pending \subseteq Messages /\ told.got \notin pending
        /\ told.at <= told.when /\ told.when <= told.at + Lag
        /\ told.got # Nil =>
             told.got \in Messages /\ told.got.availableAt <= told.when
    BY <1>1 DEF WorkInv, Kinds, Rounds, Polls, JobInv, VerdictInv
  <2>2. \A o \in pending : InReach(o) => Lost(o)
    BY <1>1, <2>1 DEF WorkInv, VerdictInv
  <2>3. \A o \in OthersVisible : o \in pending /\ (o.id \in robbed \/ Lost(o))
    <3>1. ASSUME NEW o \in OthersVisible PROVE o.availableAt <= told.when
      BY <2>1, <3>1 DEF OthersVisible, Available, Messages
    <3> QED BY <2>2, <3>1 DEF OthersVisible, InReach
  <2>4. \A h \in Hidden : h \in pending /\ (InReach(h) => Lost(h))
    BY <2>2 DEF Hidden
  <2>5. CASE told.got = Nil
    <3>1. \A o \in pending : ~Lost(o)
      BY <2>5 DEF Lost
    <3> QED BY <1>1, <2>3, <2>4, <2>5, <3>1 DEF VerdictsTrue
  <2>6. CASE told.got # Nil /\ IsMine(told.got.id)
    <3>1. \A o \in OthersVisible : o.id \in robbed \/ Outranks(mode, told.got, o)
      BY <2>3, <2>6 DEF Lost
    <3>2. ASSUME NEW h \in Hidden, InReach(h)
          PROVE  h.priority <= told.got.priority /\ Outranks(mode, told.got, h)
      <4>1. Outranks(mode, told.got, h)
        BY <2>4, <2>6, <3>2 DEF Lost
      <4>2. h.priority \in Int /\ told.got.priority \in Int
        BY <2>1, <2>4, <2>6 DEF Messages
      <4> QED BY <4>1, <4>2 DEF Outranks
    <3>3. told.got.availableAt \in Int /\ JustNow \in Nat /\ Lag \in Nat
      BY <2>1, <2>6, WorkerAssumption DEF Messages
    <3>4. ASSUME ExplainReadiness = "just became ready"
          PROVE  told.when - told.got.availableAt \in 0..(JustNow + Lag)
      <4>1. told.at - told.got.availableAt < JustNow
        BY <3>4 DEF ExplainReadiness
      <4> QED BY <2>1, <2>6, <3>3, <4>1
    <3>5. ASSUME ExplainReadiness = "has been ready"
          PROVE  told.when - told.got.availableAt >= JustNow
      <4>1. ~(told.at - told.got.availableAt < JustNow)
        BY <3>5 DEF ExplainReadiness
      <4> QED BY <2>1, <3>3, <4>1
    <3> QED BY <1>1, <2>6, <3>1, <3>2, <3>4, <3>5 DEF VerdictsTrue
  <2>7. CASE told.got # Nil /\ ~IsMine(told.got.id)
    BY <1>1, <2>3, <2>7 DEF VerdictsTrue, Lost
  <2> QED BY <2>5, <2>6, <2>7
<1>2. WorkInv => VerdictsTrue
  BY <1>1 DEF VerdictsTrue
<1> QED BY <1>2, WorkInvariant, PTL

(* The worker ends at most one slow round after its deadline, whoever has  *)
(* the jobs it waits for.                                                  *)
THEOREM EndsInTimeTheorem == Spec => []EndsInTime
<1>1. ASSUME WorkInv PROVE EndsInTime
  <2> SUFFICES ASSUME pc \notin Ended, loop # Nil
               PROVE  now <= loop.deadline + PollInterval + 2 * Lag
    BY DEF EndsInTime
  <2>1. pc \in Rounds
    BY <1>1 DEF WorkInv, Kinds
  <2>2. loop.deadline \in Int /\ now \in Nat /\ since \in Nat
    BY <1>1, <2>1 DEF WorkInv, Kinds, Loops
  <2>3. pc # "poll" => told.at \in Nat
    BY <1>1, <2>1 DEF WorkInv, Kinds, Polls
  <2> QED BY <1>1, <2>1, <2>2, <2>3, Parameters DEF WorkInv, TimeInv, Rounds
<1>2. WorkInv => EndsInTime
  BY <1>1
<1> QED BY <1>2, WorkInvariant, PTL

-----------------------------------------------------------------------------
(* The allowance covers one round for each message the queue may hold, two *)
(* rounds more, and the time the worker lingers after its last job.        *)
Covers(most) ==
  /\ most \in Nat
  /\ \A b \in Backlogs : IsFiniteSet(b) /\ Cardinality(b) <= most
  /\ (most + Len(Script) + 2) * Round + IdleGrace <= Patience

EnoughPatience == \E most \in Nat : Covers(most)

(* Every own job is due once the longest delay has passed.                 *)
MaturityInv ==
  /\ pc \in Setup => \A p \in pending : p.availableAt <= now + MaxDelay * Second
  /\ pc \in Rounds => \A p \in pending : p.availableAt <= loop.deadline - Patience

(* By when a round must have begun: each message that has left the server  *)
(* since the start excuses one round.                                      *)
Slack(most) ==
  loop.deadline - Patience + Round + ((most + Len(Script)) - Cardinality(live)) * Round

RoundBegan == IF pc = "poll" THEN now ELSE told.at

(* While nobody has taken a job: a round that finds the last job done, or  *)
(* comes before the jobs are due, is excused; every other one has taken a  *)
(* message from the server.                                                *)
OnPace(most) ==
  /\ RoundBegan <= Slack(most)
  /\ pc = "answer" => told.at + Round <= Slack(most) \/ pending \subseteq {told.got}
  /\ pc = "check" => told.at + Round <= Slack(most) \/ pending = {}
  /\ pc = "wait" => told.at + Round <= Slack(most)

PaceInv(most) ==
  /\ IsFiniteSet(live) /\ Cardinality(live) <= most + Len(Script)
  /\ pc \in Setup => Cardinality(live) <= most + Cardinality(pending)
  /\ robbed = {} /\ pc \in Rounds =>
       IF loop.doneAt = Nil THEN OnPace(most)
       ELSE AllDone /\ loop.doneAt + IdleGrace <= loop.deadline
  /\ TimesOutOnlyIfRobbed

LEMMA MaturityStep ==
  ASSUME WorkInv, MaturityInv, [Next]_vars
  PROVE  MaturityInv'
<1> USE DEF Goto, client, others
<1>0. /\ Kinds /\ Tally /\ now \in Nat /\ MaxDelay * Second \in Nat /\ Patience \in Nat
      /\ \A p \in pending : p.availableAt \in Int
  BY LongestAllowance, Parameters DEF WorkInv, Kinds, Messages
<1> HIDE DEF MaxDelay
<1>1. CASE UNCHANGED vars \/ Stopped \/ OtherConsumer
  <2>1. UNCHANGED <<pending, pc, now, loop>>
    BY <1>1 DEF vars, Stopped, OtherConsumer
  <2> QED BY <2>1 DEF MaturityInv, MaxDelay, Jobs
<1>2. CASE Tick
  <2>1. UNCHANGED <<pending, pc, loop>> /\ now' = now + 1
    BY <1>2 DEF Tick
  <2>2. \A p \in pending : p.availableAt <= now + MaxDelay * Second
                             => p.availableAt <= now + 1 + MaxDelay * Second
    BY <1>0
  <2> QED BY <2>1, <2>2 DEF MaturityInv
<1>3. CASE CallFails
  BY <1>3 DEF CallFails, MaturityInv, Setup, Rounds
<1>4. CASE Connect \/ TakeSnapshot
  BY <1>4 DEF Connect, TakeSnapshot, MaturityInv, Setup, Rounds
<1>5. CASE Enqueue
  <2>0. PICK m : m = NewMessage(Cardinality(pending) + 1)
    OBVIOUS
  <2>1. /\ pending' = pending \cup {m} /\ pc = "enqueue" /\ pc' \in {"snapshot", "enqueue"}
        /\ now' = now /\ m.availableAt <= now + MaxDelay * Second
    BY <1>0, <1>5, <2>0, EnqueueNext, NewMessageFacts
  <2> QED BY <2>1 DEF MaturityInv, Setup, Rounds
<1>6. CASE StartLoop
  <2>1. /\ pc = "start" /\ pc' = "poll" /\ pending' = pending
        /\ loop'.deadline = now + MaxDelay * Second + Patience
    BY <1>6 DEF StartLoop, LoopFrom
  <2>2. \A p \in pending : p.availableAt <= loop'.deadline - Patience
    BY <1>0, <2>1 DEF MaturityInv, Setup
  <2> QED BY <2>1, <2>2 DEF MaturityInv, Setup, Rounds
<1>7. CASE Poll \/ Dequeue \/ Answered \/ Check \/ TickerFires
  <2>1. pc \in Rounds /\ pc' \in Rounds \cup Ended /\ pending' \subseteq pending
    BY <1>7 DEF Poll, Dequeue, Answered, Score, Check, TickerFires, Rounds, Ended
  <2>2. loop \in Loops
    BY <1>0, <2>1 DEF Kinds
  <2>3. loop'.deadline = loop.deadline
    BY <1>7, <2>2 DEF Poll, Dequeue, Answered, Check, TickerFires, Loops
  <2> QED BY <2>1, <2>3 DEF MaturityInv, Setup, Rounds, Ended
<1> QED BY <1>1, <1>2, <1>3, <1>4, <1>5, <1>6, <1>7 DEF Next, Step

(* With fewer messages at the server there is more slack: a round for each *)
(* one that is gone.                                                       *)
LEMMA SlackGrows ==
  ASSUME NEW d \in Int, NEW r \in Nat, NEW top \in Nat, NEW n \in Nat, NEW k \in Nat,
         k <= n, n <= top
  PROVE  /\ d + (top - n) * r \in Int
         /\ d + (top - n) * r <= d + (top - k) * r
         /\ k < n => d + (top - n) * r + r <= d + (top - k) * r
         /\ d <= d + (top - n) * r
         /\ d + (top - n) * r <= d + top * r
<1>1. ASSUME NEW a \in Nat, NEW b \in Nat, a <= b
      PROVE  a * r <= b * r /\ a * r \in Nat /\ b * r \in Nat
  BY <1>1
<1>2. ASSUME NEW a \in Nat, NEW b \in Nat, a < b
      PROVE  a * r + r <= b * r
  <2>1. (a + 1) * r = a * r + r
    OBVIOUS
  <2>2. (a + 1) * r <= b * r
    BY <1>1, <1>2
  <2> QED BY <2>1, <2>2
<1>3. top - n \in Nat /\ top - k \in Nat /\ top - n <= top - k /\ top - n <= top
  OBVIOUS
<1>4. /\ (top - n) * r \in Nat /\ (top - k) * r \in Nat /\ top * r \in Nat
      /\ (top - n) * r <= (top - k) * r /\ (top - n) * r <= top * r
  BY <1>1, <1>3
<1>5. k < n => (top - n) * r + r <= (top - k) * r
  BY <1>2, <1>3
<1> QED BY <1>4, <1>5

(* A round that begins within the slack ends, grace included, before the   *)
(* deadline.                                                               *)
LEMMA SlackFacts ==
  ASSUME NEW most, Covers(most), WorkInv, PaceInv(most), pc \in Rounds
  PROVE  /\ Slack(most) \in Int /\ loop.deadline \in Int
         /\ loop.deadline - Patience + Round <= Slack(most)
         /\ Slack(most) + Round + IdleGrace <= loop.deadline
<1> DEFINE d == loop.deadline - Patience + Round
           top == most + Len(Script)
           n == Cardinality(live)
<1>1. /\ loop.deadline \in Int /\ Patience \in Nat /\ IdleGrace \in Nat /\ Round \in Nat
      /\ top \in Nat /\ d \in Int
  BY Parameters DEF WorkInv, Kinds, Loops, Covers
<1>2. n \in Nat /\ n <= top
  BY FS_CardinalityType DEF PaceInv
<1>3. Slack(most) = d + (top - n) * Round
  BY Zenon DEF Slack
<1>4. (top + 2) * Round + IdleGrace <= Patience
  BY DEF Covers
<1> HIDE DEF d, top, n
<1>5. (top + 2) * Round = top * Round + Round + Round /\ top * Round \in Int
  BY <1>1
<1>6. /\ Slack(most) \in Int /\ d <= Slack(most) /\ Slack(most) <= d + top * Round
  BY <1>1, <1>2, <1>3, SlackGrows
<1>7. d = loop.deadline - Patience + Round
  BY DEF d
<1> QED BY <1>1, <1>4, <1>5, <1>6, <1>7

LEMMA SlackStep ==
  ASSUME NEW most, Covers(most), WorkInv, PaceInv(most), pc \in Rounds,
         live' \subseteq live, loop'.deadline = loop.deadline
  PROVE  /\ IsFiniteSet(live') /\ Cardinality(live') <= Cardinality(live)
         /\ Cardinality(live') <= most + Len(Script)
         /\ Slack(most)' \in Int /\ Slack(most) <= Slack(most)'
         /\ live' # live => Slack(most) + Round <= Slack(most)'
<1> DEFINE d == loop.deadline - Patience + Round
           top == most + Len(Script)
           n == Cardinality(live)
           k == Cardinality(live')
<1>0. loop.deadline \in Int /\ most \in Nat
  BY DEF WorkInv, Kinds, Loops, Covers
<1>1. /\ Round \in Nat /\ top \in Nat /\ d \in Int
  BY <1>0, Parameters
<1>2. n \in Nat /\ n <= top /\ IsFiniteSet(live)
  BY FS_CardinalityType DEF PaceInv
<1>3. PICK rest : rest = live'
  OBVIOUS
<1>4. /\ IsFiniteSet(rest) /\ Cardinality(rest) <= n
      /\ Cardinality(rest) = n => rest = live
  BY <1>2, <1>3, FS_Subset
<1>5. k = Cardinality(rest) /\ k \in Nat
  BY <1>3, <1>4, FS_CardinalityType
<1>6. Slack(most) = d + (top - n) * Round /\ Slack(most)' = d + (top - k) * Round
  BY Zenon DEF Slack
<1> HIDE DEF d, top, n, k
<1>7. k <= n /\ k <= top /\ (rest # live => k < n)
  BY <1>1, <1>2, <1>4, <1>5
<1>8. /\ d + (top - k) * Round \in Int
      /\ d + (top - n) * Round <= d + (top - k) * Round
      /\ k < n => d + (top - n) * Round + Round <= d + (top - k) * Round
  BY <1>1, <1>2, <1>5, <1>7, SlackGrows
<1> QED BY <1>3, <1>4, <1>6, <1>7, <1>8 DEF k, n, top

(* The list is empty exactly when all jobs are processed.                  *)
LEMMA NothingPending ==
  ASSUME WorkInv, pc \in Rounds
  PROVE  AllDone <=> pending = {}
<1>1. IsFiniteSet(pending) /\ Cardinality(pending) + Len(actual) = Len(Script)
  BY DEF WorkInv, Tally, Rounds
<1>2. Cardinality(pending) \in Nat /\ Len(actual) \in Nat /\ Len(Script) \in Nat
  BY <1>1, Parameters, FS_CardinalityType DEF WorkInv, Kinds
<1>3. Cardinality(pending) = 0 <=> pending = {}
  BY <1>1, FS_EmptySet
<1> QED BY <1>1, <1>2, <1>3 DEF AllDone

(* The poll takes a message, or comes before the jobs are due, or there is *)
(* nothing left to wait for.                                               *)
LEMMA DequeuePace ==
  ASSUME NEW most, Covers(most), WorkInv, MaturityInv, PaceInv(most), Dequeue
  PROVE  PaceInv(most)'
<1> USE DEF Goto, client, others
<1>0. /\ pc = "dequeue" /\ pc' = "answer" /\ pc \in Rounds /\ pc' \in Rounds
      /\ UNCHANGED <<now, pending, actual, loop, robbed>>
  BY DEF Dequeue, Rounds
<1>1. /\ told \in Polls /\ told.at \in Nat /\ told.at <= now /\ told.got = Nil
      /\ now \in Nat /\ Round \in Nat /\ Patience \in Nat
  BY <1>0, Parameters DEF WorkInv, Kinds, Polls
<1>2. live' \subseteq live
  BY DEF Dequeue
<1>3. /\ IsFiniteSet(live') /\ Cardinality(live') <= most + Len(Script)
      /\ Slack(most)' \in Int /\ Slack(most) <= Slack(most)'
      /\ live' # live => Slack(most) + Round <= Slack(most)'
  BY <1>0, <1>2, SlackStep
<1>4. /\ Slack(most) \in Int /\ loop.deadline \in Int
      /\ loop.deadline - Patience + Round <= Slack(most)
  BY <1>0, SlackFacts
<1>5. ASSUME robbed' = {}, loop'.doneAt = Nil
      PROVE  OnPace(most)'
  <2>1. told.at <= Slack(most) /\ robbed = {}
    BY <1>0, <1>5 DEF PaceInv, OnPace, RoundBegan
  <2>2. CASE \E m \in Best(mode, Matured(live, now)) :
                live' = live \ {m} /\ told' = [told EXCEPT !.got = m, !.when = now]
    <3>1. PICK m \in Best(mode, Matured(live, now)) :
                live' = live \ {m} /\ told' = [told EXCEPT !.got = m, !.when = now]
      BY <2>2
    <3>2. live' # live /\ told'.at = told.at
      BY <1>1, <3>1 DEF Best, Matured, Polls
    <3>3. told.at + Round <= Slack(most)'
      BY <1>1, <1>3, <1>4, <2>1, <3>2
    <3>4. told.at <= Slack(most)'
      BY <1>1, <1>3, <1>4, <2>1
    <3> QED BY <1>0, <3>2, <3>3, <3>4 DEF OnPace, RoundBegan, Round
  <2>3. CASE /\ Matured(live, now) = {}
             /\ live' = live /\ told' = [told EXCEPT !.when = now]
    <3>1. Slack(most)' = Slack(most)
      BY <1>0, <2>3 DEF Slack, Round
    <3>2. pending = {} \/ told.at + Round <= Slack(most)
      <4> SUFFICES ASSUME NEW p \in pending PROVE told.at + Round <= Slack(most)
        OBVIOUS
      <4>1. p \in live
        BY <1>0, <2>1 DEF WorkInv, JobInv, Carried
      <4>2. ~Available(p, now)
        BY <2>3, <4>1 DEF Matured
      <4>3. p.availableAt \in Int /\ p.availableAt <= loop.deadline - Patience
        BY <1>0 DEF WorkInv, Kinds, Messages, MaturityInv
      <4>4. now < p.availableAt
        BY <4>2 DEF Available
      <4> QED BY <1>1, <1>4, <4>3, <4>4
    <3> QED BY <1>0, <2>1, <2>3, <3>1, <3>2 DEF OnPace, RoundBegan, Round
  <2> QED BY <2>2, <2>3 DEF Dequeue
<1>6. ASSUME robbed' = {}, loop'.doneAt # Nil
      PROVE  AllDone' /\ loop'.doneAt + IdleGrace <= loop'.deadline
  BY <1>0, <1>6 DEF PaceInv, AllDone
<1> QED BY <1>0, <1>3, <1>5, <1>6 DEF PaceInv, Setup, TimesOutOnlyIfRobbed

LEMMA AnsweredPace ==
  ASSUME NEW most, Covers(most), WorkInv, PaceInv(most), Answered
  PROVE  PaceInv(most)'
<1> USE DEF Goto, client, others
<1>0. /\ pc = "answer" /\ pc' = "check" /\ pc \in Rounds /\ pc' \in Rounds
      /\ UNCHANGED <<live, loop, told, robbed>>
  BY DEF Answered, Rounds
<1>1. Slack(most)' = Slack(most)
  BY <1>0 DEF Slack, Round
<1>2. pending \subseteq {told.got} => pending' = {}
  <2>1. CASE told.got # Nil /\ IsMine(told.got.id)
    BY <2>1 DEF Answered, Score
  <2>2. CASE ~(told.got # Nil /\ IsMine(told.got.id))
    <3>1. told.got \notin pending /\ pending' = pending
      BY <2>2, WorkerAssumption DEF Answered, Score, WorkInv, Kinds, JobInv, IsMine
    <3> QED BY <3>1
  <2> QED BY <2>1, <2>2
<1>3. AllDone => actual' = actual
  <2>1. AllDone => pending = {}
    BY <1>0, NothingPending
  <2> QED BY <1>0, <2>1 DEF Answered, Score, WorkInv, JobInv
<1>4. ASSUME robbed' = {}, loop'.doneAt = Nil
      PROVE  OnPace(most)'
  BY <1>0, <1>1, <1>2, <1>4 DEF PaceInv, OnPace, RoundBegan, Round
<1>5. ASSUME robbed' = {}, loop'.doneAt # Nil
      PROVE  AllDone' /\ loop'.doneAt + IdleGrace <= loop'.deadline
  BY <1>0, <1>3, <1>5 DEF PaceInv, AllDone
<1> QED BY <1>0, <1>4, <1>5 DEF PaceInv, Setup, TimesOutOnlyIfRobbed

(* The end of a round within the slack: no timeout.                        *)
LEMMA CheckPace ==
  ASSUME NEW most, Covers(most), WorkInv, PaceInv(most), Check
  PROVE  PaceInv(most)'
<1> USE DEF Goto, client, others
<1>0. /\ pc = "check" /\ pc \in Rounds /\ pc' \in {"done", "timedOut", "wait"}
      /\ UNCHANGED <<now, live, pending, actual, told, robbed>>
  BY DEF Check, Rounds
<1>1. /\ loop \in Loops /\ loop.deadline \in Int /\ told.at \in Nat /\ now \in Nat
      /\ Nil \notin Int
  BY <1>0, WorkerAssumption DEF WorkInv, Kinds, Loops, Polls, Rounds
<1>2. /\ Slack(most) \in Int /\ Slack(most) + Round + IdleGrace <= loop.deadline
  BY <1>0, SlackFacts
<1>3. /\ loop' = IF AllDone THEN [loop EXCEPT !.doneAt = DoneAt] ELSE loop
      /\ pc' = IF Lingered THEN "done"
               ELSE IF now > loop.deadline THEN "timedOut" ELSE "wait"
  BY DEF Check
<1>4. loop'.deadline = loop.deadline /\ loop'.doneAt = IF AllDone THEN DoneAt ELSE loop.doneAt
  BY <1>1, <1>3 DEF Loops
<1>5. Slack(most)' = Slack(most)
  BY <1>0, <1>4, Zenon DEF Slack
<1>6. now <= told.at + 2 * Lag /\ Round \in Nat /\ 2 * Lag <= Round /\ IdleGrace \in Nat \ {0}
  BY <1>0, Parameters DEF WorkInv, TimeInv, Round
<1>7. CASE robbed # {}
  BY <1>0, <1>7 DEF PaceInv, Setup, TimesOutOnlyIfRobbed
<1>8. CASE robbed = {} /\ loop.doneAt # Nil
  <2>1. AllDone /\ loop.doneAt + IdleGrace <= loop.deadline /\ loop.doneAt \in Int
    BY <1>0, <1>1, <1>8 DEF PaceInv, Loops
  <2>2. DoneAt = loop.doneAt /\ loop'.doneAt = loop.doneAt
    BY <1>4, <1>8, <2>1 DEF DoneAt
  <2>3. pc' # "timedOut"
    BY <1>1, <1>3, <1>6, <2>1, <2>2 DEF Lingered
  <2>4. AllDone'
    BY <1>0, <2>1 DEF AllDone
  <2> QED BY <1>0, <1>4, <1>8, <2>1, <2>2, <2>3, <2>4 DEF PaceInv, Setup, TimesOutOnlyIfRobbed
<1>9. CASE robbed = {} /\ loop.doneAt = Nil
  <2>1. told.at <= Slack(most) /\ (told.at + Round <= Slack(most) \/ pending = {})
    BY <1>0, <1>9 DEF PaceInv, OnPace, RoundBegan
  <2>2. now + IdleGrace <= loop.deadline
    BY <1>1, <1>2, <1>6, <2>1, Parameters
  <2>3. ~(now > loop.deadline)
    BY <1>1, <1>6, <2>2
  <2>4. pc' # "timedOut"
    BY <1>3, <2>3
  <2>5. CASE AllDone
    <3>1. loop'.doneAt = now /\ loop'.doneAt # Nil /\ AllDone'
      BY <1>0, <1>1, <1>4, <1>9, <2>5 DEF DoneAt, AllDone
    <3> QED BY <1>0, <1>4, <2>2, <2>4, <3>1 DEF PaceInv, Setup, TimesOutOnlyIfRobbed
  <2>6. CASE ~AllDone
    <3>1. loop'.doneAt = Nil /\ pc' = "wait"
      BY <1>3, <1>4, <1>9, <2>3, <2>6 DEF Lingered
    <3>2. told.at + Round <= Slack(most)
      BY <1>0, <2>1, <2>6, NothingPending
    <3>3. OnPace(most)'
      BY <1>0, <1>5, <2>1, <3>1, <3>2 DEF OnPace, RoundBegan, Round
    <3> QED BY <1>0, <3>1, <3>3 DEF PaceInv, Setup, TimesOutOnlyIfRobbed
  <2> QED BY <2>5, <2>6
<1> QED BY <1>7, <1>8, <1>9

(* The steps before the loop: the queue grows with the script.             *)
LEMMA SetupPace ==
  ASSUME NEW most, Covers(most), WorkInv, PaceInv(most),
         Connect \/ Enqueue \/ TakeSnapshot \/ StartLoop
  PROVE  PaceInv(most)'
<1> USE DEF Goto, client, others
<1>0. /\ most \in Nat /\ Len(Script) \in Nat /\ IsFiniteSet(live) /\ IsFiniteSet(pending)
      /\ Cardinality(live) \in Nat /\ Cardinality(pending) \in Nat /\ now \in Nat
  BY Parameters, FS_CardinalityType DEF Covers, WorkInv, Tally, PaceInv, Kinds
<1>1. CASE Connect \/ TakeSnapshot
  <2>1. /\ pc \in Setup /\ pc' \in Setup /\ pc' \notin Rounds /\ pc' # "timedOut"
        /\ UNCHANGED <<live, pending>>
    BY <1>1 DEF Connect, TakeSnapshot, Setup, Rounds
  <2> QED BY <2>1 DEF PaceInv, TimesOutOnlyIfRobbed
<1>2. CASE Enqueue
  <2>0. PICK i : i = Cardinality(pending) + 1
    OBVIOUS
  <2>1. PICK m : m = NewMessage(i)
    OBVIOUS
  <2>2. /\ i \in Jobs /\ m.id = i /\ pc = "enqueue" /\ pc' \in {"snapshot", "enqueue"}
        /\ pending' = pending \cup {m} /\ live' = live \cup {m}
    BY <1>0, <1>2, <2>0, <2>1, EnqueueNext, NewMessageFacts DEF WorkInv
  <2>3. m \notin pending
    BY <1>0, <2>0, <2>2 DEF WorkInv, Tally
  <2>4. Cardinality(pending') = i
    BY <1>0, <2>0, <2>2, <2>3, FS_AddElement
  <2>5. IsFiniteSet(live') /\ Cardinality(live') \in {Cardinality(live), Cardinality(live) + 1}
    BY <1>0, <2>2, FS_AddElement
  <2>6. i <= Len(Script) /\ i \in Nat
    BY <2>2, Parameters DEF Jobs
  <2>7. Cardinality(live) <= most + Cardinality(pending)
    BY <2>2 DEF PaceInv, Setup
  <2>8. Cardinality(live') <= most + i /\ Cardinality(live') <= most + Len(Script)
    BY <1>0, <2>0, <2>5, <2>6, <2>7
  <2> QED BY <2>2, <2>4, <2>5, <2>8 DEF PaceInv, Rounds, TimesOutOnlyIfRobbed
<1>3. CASE StartLoop
  <2>1. /\ pc = "start" /\ pc' = "poll" /\ UNCHANGED <<now, live, pending>>
        /\ loop'.doneAt = Nil
        /\ loop'.deadline = now + MaxDelay * Second + Patience
    BY <1>3 DEF StartLoop, LoopFrom
  <2> DEFINE d == loop'.deadline - Patience + Round
             top == most + Len(Script)
             n == Cardinality(live)
  <2>2. Slack(most)' = d + (top - n) * Round
    BY <2>1, Zenon DEF Slack
  <2>3. top \in Nat /\ n \in Nat /\ n <= top /\ Round \in Nat
    BY <1>0, Parameters DEF PaceInv
  <2>4. d \in Int /\ now <= d
    BY <1>0, <2>1, <2>3, Parameters, LongestAllowance
  <2> HIDE DEF d, top, n
  <2>5. d <= d + (top - n) * Round /\ d + (top - n) * Round \in Int
    BY <2>3, <2>4, SlackGrows
  <2>6. now <= Slack(most)'
    BY <1>0, <2>2, <2>4, <2>5
  <2>7. OnPace(most)'
    BY <2>1, <2>6 DEF OnPace, RoundBegan
  <2> QED BY <2>1, <2>7 DEF PaceInv, Setup, TimesOutOnlyIfRobbed
<1> QED BY <1>1, <1>2, <1>3

LEMMA PaceStep ==
  ASSUME NEW most, Covers(most), WorkInv, MaturityInv, PaceInv(most), [Next]_vars
  PROVE  PaceInv(most)'
<1> USE DEF Goto, client, others
<1>1. CASE UNCHANGED vars \/ Stopped \/ Tick
  <2>1. /\ UNCHANGED <<live, pc, pending, actual, loop, told, robbed>>
        /\ now' = now \/ pc # "poll"
    BY <1>1 DEF vars, Stopped, Tick
  <2>2. Slack(most)' = Slack(most)
    BY <2>1, Zenon DEF Slack
  <2>3. RoundBegan' = RoundBegan
    BY <2>1 DEF RoundBegan
  <2>4. OnPace(most)' <=> OnPace(most)
    BY <2>1, <2>2, <2>3 DEF OnPace, Round
  <2> QED BY <2>1, <2>4 DEF PaceInv, AllDone, TimesOutOnlyIfRobbed
<1>2. CASE CallFails
  BY <1>2 DEF CallFails, PaceInv, Setup, Rounds, TimesOutOnlyIfRobbed
<1>3. CASE Connect \/ Enqueue \/ TakeSnapshot \/ StartLoop
  BY <1>3, SetupPace
<1>4. CASE Poll
  <2>1. /\ pc = "poll" /\ pc' = "dequeue" /\ told'.at = now
        /\ UNCHANGED <<now, live, pending, actual, loop, robbed>>
    BY <1>4 DEF Poll
  <2>2. Slack(most)' = Slack(most)
    BY <2>1, Zenon DEF Slack
  <2>3. OnPace(most) => OnPace(most)'
    BY <2>1, <2>2 DEF OnPace, RoundBegan
  <2> QED BY <2>1, <2>3 DEF PaceInv, AllDone, Setup, Rounds, TimesOutOnlyIfRobbed
<1>5. CASE Dequeue
  BY <1>5, DequeuePace
<1>6. CASE Answered
  BY <1>6, AnsweredPace
<1>7. CASE Check
  BY <1>7, CheckPace
<1>8. CASE TickerFires
  <2>1. /\ pc = "wait" /\ pc \in Rounds /\ pc' = "poll"
        /\ UNCHANGED <<now, live, pending, actual, told, robbed>>
    BY <1>8 DEF TickerFires, Rounds
  <2>2. loop'.deadline = loop.deadline /\ loop'.doneAt = loop.doneAt
    BY <1>8, <2>1 DEF TickerFires, WorkInv, Kinds, Loops
  <2>3. Slack(most)' = Slack(most)
    BY <2>1, <2>2, Zenon DEF Slack
  <2>4. /\ Slack(most) \in Int /\ now \in Nat /\ told.at \in Nat /\ Round \in Nat
        /\ now <= told.at + Round
    BY <2>1, SlackFacts, Parameters DEF WorkInv, Kinds, Polls, TimeInv
  <2>5. OnPace(most) => OnPace(most)'
    BY <2>1, <2>3, <2>4 DEF OnPace, RoundBegan
  <2> QED BY <2>1, <2>2, <2>5 DEF PaceInv, AllDone, Setup, TimesOutOnlyIfRobbed
<1>9. CASE OtherConsumer
  <2>1. /\ live' \subseteq live /\ robbed \subseteq robbed'
        /\ UNCHANGED <<now, pc, pending, actual, loop, told>>
    BY <1>9 DEF OtherConsumer
  <2>2. /\ IsFiniteSet(live') /\ Cardinality(live') <= Cardinality(live)
        /\ Cardinality(live') \in Nat /\ Cardinality(live) \in Nat
    <3>1. PICK rest : rest = live'
      OBVIOUS
    <3>2. IsFiniteSet(live) /\ rest \in SUBSET live
      BY <2>1, <3>1 DEF PaceInv
    <3>3. IsFiniteSet(rest) /\ Cardinality(rest) <= Cardinality(live)
      BY <3>2, FS_Subset
    <3> QED BY <3>1, <3>2, <3>3, FS_CardinalityType
  <2>3. /\ Cardinality(live') <= most + Len(Script)
        /\ pc \in Setup => Cardinality(live') <= most + Cardinality(pending)
    <3>1. most \in Nat /\ Len(Script) \in Nat /\ Cardinality(pending) \in Nat
      BY Parameters, FS_CardinalityType DEF Covers, WorkInv, Tally
    <3> QED BY <2>2, <3>1 DEF PaceInv
  <2>4. CASE pc \in Rounds
    <3>1. /\ Slack(most)' \in Int /\ Slack(most) <= Slack(most)' /\ Slack(most) \in Int
      BY <2>1, <2>4, SlackStep, SlackFacts
    <3>2. now \in Nat /\ Round \in Nat /\ (pc # "poll" => told.at \in Nat)
      BY <2>4, Parameters DEF WorkInv, Kinds, Polls
    <3>3. OnPace(most) => OnPace(most)'
      <4> SUFFICES ASSUME OnPace(most) PROVE OnPace(most)'
        OBVIOUS
      <4>1. RoundBegan' = RoundBegan /\ RoundBegan \in Nat
        BY <2>1, <3>2 DEF RoundBegan
      <4>2. RoundBegan <= Slack(most)'
        BY <3>1, <4>1 DEF OnPace
      <4>3. pc # "poll" /\ told.at + Round <= Slack(most) => told.at + Round <= Slack(most)'
        BY <3>1, <3>2
      <4> QED BY <2>1, <4>1, <4>2, <4>3 DEF OnPace, Round
    <3> QED BY <2>1, <2>2, <2>3, <2>4, <3>3 DEF PaceInv, AllDone, TimesOutOnlyIfRobbed
  <2>5. CASE pc \notin Rounds
    BY <2>1, <2>2, <2>3, <2>5 DEF PaceInv, TimesOutOnlyIfRobbed
  <2> QED BY <2>4, <2>5
<1> QED BY <1>1, <1>2, <1>3, <1>4, <1>5, <1>6, <1>7, <1>8, <1>9 DEF Next, Step

LEMMA PaceInit ==
  ASSUME NEW most, Covers(most), Init
  PROVE  MaturityInv /\ PaceInv(most)
<1>1. pc = "connect" /\ pending = {} /\ live \in Backlogs
  BY DEF Init
<1>2. /\ IsFiniteSet(live) /\ Cardinality(live) <= most /\ Cardinality(live) \in Nat
      /\ Cardinality(pending) = 0 /\ most \in Nat /\ Len(Script) \in Nat
  BY <1>1, Parameters, FS_EmptySet, FS_CardinalityType DEF Covers
<1> QED BY <1>1, <1>2 DEF MaturityInv, PaceInv, Rounds, TimesOutOnlyIfRobbed

(* "a slow backoff cannot be mistaken for a hang": if the allowance covers *)
(* a round per message in the queue, the worker gives up only when another *)
(* consumer took one of its jobs, however long the delays of the script    *)
(* and whatever other traffic comes first.                                 *)
THEOREM TimesOutOnlyIfRobbedTheorem ==
  EnoughPatience => (Spec => []TimesOutOnlyIfRobbed)
<1> SUFFICES ASSUME EnoughPatience PROVE Spec => []TimesOutOnlyIfRobbed
  OBVIOUS
<1>0. PICK most \in Nat : Covers(most)
  BY DEF EnoughPatience
<1> DEFINE I == WorkInv /\ MaturityInv /\ PaceInv(most)
<1>1. Init => I
  BY <1>0, WorkInit, PaceInit
<1>2. I /\ [Next]_vars => I'
  BY <1>0, WorkStep, MaturityStep, PaceStep
<1>3. I => TimesOutOnlyIfRobbed
  BY DEF PaceInv
<1> QED BY <1>1, <1>2, <1>3, PTL DEF Spec
=============================================================================
