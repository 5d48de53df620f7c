-------------------------------- MODULE Api --------------------------------
(***************************************************************************)
(* pkg/api and cmd/server over the queue of module DurableQueue: what the  *)
(* clients learn from status codes, while connections break, bodies stall, *)
(* writes and fsyncs fail, and the process shuts down, fails or is killed. *)
(*                                                                         *)
(* live and taken are what the log says; a failed fsync leaves its record  *)
(* there and memory without it, so memory has a variable of its own.  A    *)
(* failed write or a power loss may leave a fragment, which nothing        *)
(* repairs and a later start misreads (README, section 4): from then on    *)
(* the log is in doubt and any message ever written may come back.         *)
(*                                                                         *)
(* No handler looks at the mode or the clock, which stand still here.  A   *)
(* handler is a connection's phase:                                        *)
(*   "read"    reading and checking the request                            *)
(*   "call"    in the service, before or waiting for the lock              *)
(*   "commit"  holding it, the record written and not yet synced           *)
(*   "reply"   writing the response                                        *)
(***************************************************************************)
EXTENDS Engine, FiniteSetsExt

CONSTANTS
  Nil,
  Conns,      (* connections of clients                                    *)
  Ids,        (* bound: enqueue requests, each with its UUID               *)
  Requests,   (* [route, limit, body, blank, priority, delay]              *)
  MaxLimit,   (* maxMessageLimit and maxWalLimit                           *)
  MaxDeliveries   (* bound: how often a log in doubt gives back an id      *)

ASSUME ApiAssumption ==
  /\ MaxLimit \in Nat /\ MaxDeliveries \in Nat
  /\ Nil \notin Ids
  /\ Nil \notin {"Created", "OK", "Unavailable", "InternalError"}

VARIABLES
  now, mode, live, taken, acked, deliveries,   (* see DurableQueue         *)
  server,      (* "serving", "draining", "closing", "closed", "down"       *)
  why,         (* what ended it: "drained", "timeout", "listener", "crash" *)
  closed,      (* QueueService.closed                                      *)
  conn,        (* [phase, req, id, msg, status, gone] of each connection   *)
  held,        (* messages in QueueService.queue                           *)
  written,     (* history: what the log got an ENQUEUE record of, whole or *)
               (* in part                                                  *)
  log,         (* "whole", "torn" (has a fragment) or "doubtful" (and the  *)
               (* process that left it or appended to it is gone)          *)
  outcome,     (* history: what the sender of each enqueue request knows:  *)
               (* "unsent", "unknown", "accepted", "refused", or "failed"  *)
               (* (500, and the server has not been started since)         *)
  received     (* history: how often a client got each id from a dequeue   *)

queue == <<now, mode, live, taken, acked, deliveries>>
process == <<server, why, closed>>
store == <<held, written, log>>
users == <<outcome, received>>
vars == <<queue, process, store, conn, users>>

Q == INSTANCE DurableQueue

Free == [phase |-> "free", req |-> Nil, id |-> Nil, msg |-> Nil,
         status |-> Nil, gone |-> FALSE]

Init ==
  /\ Q!Init /\ mode = "FIFO"
  /\ server = "serving" /\ why = Nil /\ closed = FALSE
  /\ held = {} /\ written = {} /\ log = "whole"
  /\ conn = [k \in Conns |-> Free]
  /\ outcome = [id \in Ids |-> "unsent"]
  /\ received = [id \in Ids |-> 0]

-----------------------------------------------------------------------------
At(k, phase, routes) == conn[k].phase = phase /\ conn[k].req.route \in routes
Goto(k, phase) == conn' = [conn EXCEPT ![k].phase = phase]
Answer(k, status, msg) ==
  conn' = [conn EXCEPT ![k] = [@ EXCEPT !.phase = "reply",
                                        !.status = status, !.msg = msg]]

(* QueueService.mu can be had.                                             *)
LockFree == \A k \in Conns : conn[k].phase # "commit"

(* New requests come in until Shutdown; when only the listener failed,     *)
(* open connections still bring some.                                      *)
Accepting ==
  \/ server = "serving"
  \/ server \in {"closing", "closed"} /\ why = "listener"

(* A client sends a request; an enqueue has a UUID of its own.             *)
Send(k, req) ==
  /\ Accepting
  /\ conn[k].phase = "free"
  /\ \E id \in IF req.route = "enqueue"
               THEN {i \in Ids : outcome[i] = "unsent"} ELSE {Nil} :
       /\ conn' = [conn EXCEPT ![k] =
                     [Free EXCEPT !.phase = "read", !.req = req, !.id = id]]
       /\ outcome' = [i \in Ids |-> IF i = id THEN "unknown" ELSE outcome[i]]
  /\ UNCHANGED <<queue, process, store, received>>

(* ?limit= is given and is no integer in range; what is not a number at    *)
(* all counts as zero.                                                     *)
BadLimit(req) ==
  /\ req.route \in {"messages", "wal"}
  /\ req.limit # Nil
  /\ req.limit < 1 \/ req.limit > MaxLimit

(* The status a request is refused with before the service is called.      *)
Rejection(req) ==
  CASE req.route = "enqueue" /\ req.body = "large" -> "TooLarge"
    [] req.route = "enqueue" /\ ~Validate(req) -> "BadRequest"
    [] req.body = "garbage" -> "BadRequest"
    [] BadLimit(req) -> "BadRequest"
    [] OTHER -> Nil

(* The request is read, decoded and validated.                             *)
Decode(k) ==
  /\ conn[k].phase = "read"
  /\ conn[k].req.body # "stalled"
  /\ IF Rejection(conn[k].req) # Nil
     THEN Answer(k, Rejection(conn[k].req), Nil) ELSE Goto(k, "call")
  /\ UNCHANGED <<queue, process, store, users>>

(* Mutant: no ReadTimeout.                                                 *)
BodyFailsIfGone(k) ==
  /\ At(k, "read", {"enqueue"})
  /\ conn[k].gone
  /\ Answer(k, "BadRequest", Nil)
  /\ UNCHANGED <<queue, process, store, users>>

(* The body does not arrive: the client is gone or ReadTimeout expires.    *)
BodyFails(k) ==
  /\ At(k, "read", {"enqueue"})
  /\ conn[k].gone \/ conn[k].req.body = "stalled"
  /\ Answer(k, "BadRequest", Nil)
  /\ UNCHANGED <<queue, process, store, users>>

-----------------------------------------------------------------------------
NewMessage(k) ==
  [id |-> conn[k].id, seq |-> Max({0} \cup {m.seq : m \in held}) + 1,
   priority |-> conn[k].req.priority, enqueuedAt |-> now,
   availableAt |-> AvailableAt(now, conn[k].req.delay)]

(* Service.Enqueue takes the lock and writes.                              *)
EnqueueCommit(k) ==
  /\ At(k, "call", {"enqueue"})
  /\ LockFree /\ ~closed
  /\ live' = live \cup {NewMessage(k)}
  /\ written' = written \cup {NewMessage(k)}
  /\ conn' = [conn EXCEPT ![k].phase = "commit", ![k].msg = NewMessage(k)]
  /\ UNCHANGED <<now, mode, taken, acked, deliveries, held, log, process, users>>

(* Mutant: the response is written before the record is synced.            *)
EnqueueReturnEarly(k) ==
  /\ At(k, "commit", {"enqueue"})
  /\ held' = held \cup {conn[k].msg}
  /\ Answer(k, "Created", conn[k].msg)
  /\ UNCHANGED <<queue, written, log, process, users>>

(* ... syncs, pushes and returns: 201.                                     *)
EnqueueReturn(k) ==
  /\ At(k, "commit", {"enqueue"})
  /\ Q!Accept(conn[k].msg)
  /\ held' = held \cup {conn[k].msg}
  /\ Answer(k, "Created", conn[k].msg)
  /\ UNCHANGED <<written, log, process, users>>

(* Service.Dequeue pops and writes.  After a failed fsync the message may  *)
(* have a tombstone already.                                               *)
DequeueCommit(k) ==
  /\ At(k, "call", {"dequeue"})
  /\ LockFree /\ ~closed
  /\ \E m \in Best(mode, Matured(held, now)) :
       /\ held' = held \ {m}
       /\ live' = live \ {m} /\ taken' = taken \cup {m}
       /\ conn' = [conn EXCEPT ![k].phase = "commit", ![k].msg = m]
  /\ UNCHANGED <<now, mode, acked, deliveries, written, log, process, users>>

DequeueReturn(k) ==
  /\ At(k, "commit", {"dequeue"})
  /\ Q!HandOver(conn[k].msg)
  /\ Answer(k, "OK", conn[k].msg)
  /\ UNCHANGED <<store, process, users>>

DequeueEmpty(k) ==
  /\ At(k, "call", {"dequeue"})
  /\ LockFree /\ ~closed
  /\ Matured(held, now) = {}
  /\ Answer(k, "NoContent", Nil)
  /\ UNCHANGED <<queue, process, store, users>>

(* The write fails and leaves nothing or a fragment of its record, or the  *)
(* log cannot be read: 500.  A dequeue puts its message back; an empty one *)
(* does not touch the log.                                                 *)
ServiceFails(k) ==
  /\ At(k, "call", {"enqueue", "dequeue", "wal"})
  /\ LockFree /\ ~closed
  /\ conn[k].req.route = "dequeue" => Matured(held, now) # {}
  /\ Answer(k, "InternalError", Nil)
  /\ \/ UNCHANGED <<written, log>>
     \/ /\ conn[k].req.route # "wal"
        /\ log' = IF log = "whole" THEN "torn" ELSE log
        /\ written' = IF conn[k].req.route = "enqueue"
                      THEN written \cup {NewMessage(k)} ELSE written
  /\ UNCHANGED <<queue, held, process, users>>

(* The fsync fails: 500, and the record stays in the log.  An enqueue does *)
(* not push its message, a dequeue pushes it back.                         *)
SyncFails(k) ==
  /\ At(k, "commit", {"enqueue", "dequeue"})
  /\ held' = IF conn[k].req.route = "dequeue"
             THEN held \cup {conn[k].msg} ELSE held
  /\ Answer(k, "InternalError", Nil)
  /\ UNCHANGED <<queue, written, log, process, users>>

(* ErrClosed: 503.                                                         *)
Refuse(k) ==
  /\ At(k, "call", {"enqueue", "dequeue", "wal"})
  /\ LockFree /\ closed
  /\ Answer(k, "Unavailable", Nil)
  /\ UNCHANGED <<queue, process, store, users>>

(* Of Stats, Snapshot and WalTail only the last needs the log.             *)
Readable(route) == route = "wal" => ~closed

(* They take the read lock and change nothing that clients can tell.       *)
Inspect(k) ==
  /\ At(k, "call", {"messages", "wal", "stats"})
  /\ LockFree
  /\ Readable(conn[k].req.route)
  /\ Answer(k, "OK", Nil)
  /\ UNCHANGED <<queue, process, store, users>>

(* writeJSON, and what reaches the client, if it is still there.           *)
Reply(k) ==
  LET c == conn[k]
      told == ~c.gone
  IN /\ c.phase = "reply"
     /\ conn' = [conn EXCEPT ![k] = Free]
     /\ outcome' = IF told /\ c.id # Nil
                   THEN [outcome EXCEPT
                           ![c.id] = CASE c.status = "Created" -> "accepted"
                                       [] c.status = "InternalError" -> "failed"
                                       [] OTHER -> "refused"]
                   ELSE outcome
     /\ received' = IF told /\ c.req.route = "dequeue" /\ c.status = "OK"
                    THEN [received EXCEPT ![c.msg.id] = @ + 1] ELSE received
     /\ UNCHANGED <<queue, process, store>>

Handle(k) ==
  \/ Decode(k) \/ BodyFails(k)
  \/ EnqueueCommit(k) \/ EnqueueReturn(k)
  \/ DequeueCommit(k) \/ DequeueReturn(k) \/ DequeueEmpty(k)
  \/ ServiceFails(k) \/ SyncFails(k) \/ Refuse(k) \/ Inspect(k)
  \/ Reply(k)

(* The client gives up (its 5 s timeout) or the connection breaks.  The    *)
(* handler does not notice.                                                *)
HangUp(k) ==
  /\ conn[k].phase # "free"
  /\ ~conn[k].gone
  /\ conn' = [conn EXCEPT ![k].gone = TRUE]
  /\ UNCHANGED <<queue, process, store, users>>

-----------------------------------------------------------------------------
(* Mutant: the service is closed as soon as the signal arrives.            *)
SignalCloses ==
  /\ server = "serving"
  /\ LockFree
  /\ server' = "draining" /\ closed' = TRUE
  /\ UNCHANGED <<queue, store, why, conn, users>>

(* SIGINT or SIGTERM: srv.Shutdown begins.                                 *)
Signal ==
  /\ server = "serving"
  /\ server' = "draining"
  /\ UNCHANGED <<queue, store, why, closed, conn, users>>

Stop(from, reason) ==
  /\ server = from
  /\ server' = "closing" /\ why' = reason
  /\ UNCHANGED <<queue, store, closed, conn, users>>

(* Shutdown returns: every handler has finished, or its 10 s are over.  Or *)
(* ListenAndServe returns an error of its own.                             *)
Drained ==
  (\A k \in Conns : conn[k].phase = "free") /\ Stop("draining", "drained")
DrainTimeout == Stop("draining", "timeout")
ListenError == Stop("serving", "listener")

(* svc.Close waits for the lock.                                           *)
CloseService ==
  /\ server = "closing"
  /\ LockFree
  /\ server' = "closed" /\ closed' = TRUE
  /\ UNCHANGED <<queue, store, why, conn, users>>

(* The process is gone, and its memory and its connections with it.        *)
Vanish(reason) ==
  /\ server' = "down" /\ why' = reason /\ closed' = FALSE
  /\ held' = {}
  /\ conn' = [k \in Conns |-> Free]
  /\ UNCHANGED <<written, users>>

(* A log with a fragment in it is in doubt once the process is gone.       *)
LeaveLog == log' = IF log = "whole" THEN "whole" ELSE "doubtful"

(* Mutant: main returns while Shutdown is still waiting.                   *)
ExitAtOnce ==
  server \in {"draining", "closed"} /\ Vanish(why) /\ LeaveLog /\ UNCHANGED queue

(* run returns.                                                            *)
Exit == server = "closed" /\ Vanish(why) /\ LeaveLog /\ UNCHANGED queue

(* A kill or a power loss: what was not accepted may be gone, what was     *)
(* not handed over may be back, and a record among these may be torn.      *)
Crash ==
  /\ server # "down"
  /\ Vanish("crash")
  /\ \E lost \in SUBSET (live \ acked), back \in SUBSET taken :
       live' = (live \ lost) \cup back /\ taken' = taken \ back
  /\ Q!Crash
  /\ \/ LeaveLog
     \/ log = "whole" /\ (live \ acked) \cup taken # {} /\ log' = "torn"

(* NewQueueService replays the log into memory.                            *)
Start ==
  /\ server = "down"
  /\ server' = "serving" /\ why' = Nil
  /\ IF log = "doubtful"
     THEN /\ live' \in SUBSET {m \in written : deliveries[m.id] < MaxDeliveries}
          /\ taken' = {}
     ELSE UNCHANGED <<live, taken>>
  /\ held' = live'
  /\ outcome' = [id \in Ids |-> IF outcome[id] = "failed" THEN "unknown"
                                ELSE outcome[id]]
  /\ UNCHANGED <<now, mode, acked, deliveries, written, log, closed, conn,
                 received>>

Next ==
  \/ \E k \in Conns :
       Handle(k) \/ HangUp(k) \/ \E req \in Requests : Send(k, req)
  \/ Signal \/ Drained \/ DrainTimeout \/ ListenError
  \/ CloseService \/ Exit \/ Crash \/ Start

Spec == Init /\ [][Next]_vars

(* Every handler goroutine is scheduled, and the lock starves nobody.      *)
FairSpec == Spec /\ \A k \in Conns : SF_vars(Handle(k))

-----------------------------------------------------------------------------
IdsOf(S) == {m.id : m \in S}

(* A status code is the truth, and says no more than the code can keep.    *)
(* After 400, 413 and 503 the message is nowhere, and no failure ever      *)
(* brings it back.  After 500 it is not in memory and nobody gets it, but  *)
(* only until the next start: a failed fsync or write has left its record  *)
(* in the log.  After 201 it is queued, taken by some dequeue or           *)
(* delivered, and a message a consumer was sent is gone and no second      *)
(* consumer was sent it, failed fsyncs included, as long as a fragment has *)
(* not put the log in doubt.                                               *)
StatusIsTruth ==
  \A id \in Ids :
    /\ outcome[id] = "refused" =>
         id \notin IdsOf(live \cup taken \cup held) /\ deliveries[id] = 0
    /\ outcome[id] = "failed" => id \notin IdsOf(held) /\ deliveries[id] = 0
    /\ log # "doubtful" =>
         /\ outcome[id] = "accepted" =>
              id \in IdsOf(live \cup taken) \/ deliveries[id] = 1
         /\ received[id] > 0 =>
              id \notin IdsOf(live \cup taken \cup held) /\ received[id] = 1

(* A message in a dequeue's response is lost only if the client is gone or *)
(* the process dies or runs out of time: a regular shutdown delivers it.   *)
Carries(k) == conn[k].status = "OK" /\ conn[k].req.route = "dequeue"

ShutdownLosesNothing ==
  [][\A k \in Conns :
       Carries(k) /\ conn'[k].phase = "free" =>
         \/ received'[conn[k].msg.id] = received[conn[k].msg.id] + 1
         \/ conn[k].gone
         \/ server' = "down" /\ why' \in {"crash", "timeout", "listener"}]_vars

(* Clients meet 503 only if handlers outlive the shutdown timeout or the   *)
(* listener: "Shutdown, then Close" is the right order.                    *)
RefusedOnlyWhenForced ==
  \A k \in Conns :
    conn[k].status = "Unavailable" => why \in {"timeout", "listener"}

(* Every handler finishes, stalled bodies and lock contention included.    *)
HandlersFinish ==
  \A k \in Conns : conn[k].phase # "free" ~> conn[k].phase = "free"
=============================================================================
