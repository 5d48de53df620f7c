------------------------------ MODULE ApiProofs ------------------------------
(***************************************************************************)
(* What the status codes of the HTTP layer promise, for any number of      *)
(* connections, requests and ids, while connections break, writes and      *)
(* fsyncs fail and the process shuts down, fails or is killed at any       *)
(* moment.                                                                 *)
(***************************************************************************)
EXTENDS Api, TLAPS

-----------------------------------------------------------------------------
(* The order of the shutdown: closed is set last, a drained server has no  *)
(* handlers left and takes no new requests, a server that is down has      *)
(* none, and 503 comes from nowhere else.                                  *)
ShutdownInv ==
  /\ closed => server = "closed"
  /\ server \in {"closing", "closed"} => why \in {"drained", "timeout", "listener"}
  /\ server \in {"closing", "closed"} /\ why = "drained" =>
       \A k \in Conns : conn[k].phase = "free"
  /\ server = "down" => \A k \in Conns : conn[k].phase = "free"
  /\ \A k \in Conns :
       conn[k].status = "Unavailable" => server = "closed" /\ why # "drained"

(* conn is a table of records; a free connection has nothing in it.        *)
Fields == {"phase", "req", "id", "msg", "status", "gone"}

Shape ==
  /\ DOMAIN conn = Conns
  /\ \A k \in Conns :
       /\ DOMAIN conn[k] = Fields
       /\ conn[k].id \in Ids \cup {Nil}
       /\ conn[k].phase = "free" => conn[k].id = Nil /\ conn[k].status = Nil
       /\ conn[k].phase # "free" =>
            (conn[k].req.route = "enqueue" <=> conn[k].id \in Ids)

(* What a step that touches only connection k leaves of the table.         *)
Elsewhere(k) ==
  DOMAIN conn' = Conns /\ \A j \in Conns \ {k} : conn'[j] = conn[j]

(* The handler of k goes to another phase; its request stays.              *)
Moved(k, phase, status, msg) ==
  /\ Elsewhere(k)
  /\ DOMAIN conn'[k] = Fields
  /\ conn'[k].phase = phase /\ conn'[k].status = status /\ conn'[k].msg = msg
  /\ conn'[k].req = conn[k].req /\ conn'[k].id = conn[k].id
  /\ conn'[k].gone = conn[k].gone

LEMMA AnswerMoves ==
  ASSUME Shape, NEW k \in Conns, NEW status, NEW msg, Answer(k, status, msg)
  PROVE  Moved(k, "reply", status, msg)
BY DEF Answer, Shape, Fields, Moved, Elsewhere

LEMMA GotoMoves ==
  ASSUME Shape, NEW k \in Conns, NEW phase, Goto(k, phase)
  PROVE  Moved(k, phase, conn[k].status, conn[k].msg)
BY DEF Goto, Shape, Fields, Moved, Elsewhere

LEMMA CommitMoves ==
  ASSUME Shape, NEW k \in Conns, NEW msg,
         conn' = [conn EXCEPT ![k].phase = "commit", ![k].msg = msg]
  PROVE  Moved(k, "commit", conn[k].status, msg)
BY DEF Shape, Fields, Moved, Elsewhere

-----------------------------------------------------------------------------
(* The handler of a dequeue between its pop and its fsync.                 *)
Popping(k) == conn[k].phase = "commit" /\ conn[k].id = Nil

(* Nothing of the id was ever written.                                     *)
Fresh(id) == deliveries[id] = 0 /\ \A m \in written : m.id # id

(* The process has no message of the id in its hands.                      *)
Idle(id) ==
  /\ deliveries[id] = 0
  /\ \A m \in held : m.id # id
  /\ \A k \in Conns : Popping(k) => conn[k].msg.id # id

Outcomes == {"unsent", "unknown", "accepted", "refused", "failed"}

(* The queue and what the clients were told of it.                         *)
QueueInv ==
  /\ outcome \in [Ids -> Outcomes]
  /\ received \in [Ids -> Nat] /\ deliveries \in [Ids -> Nat]
  /\ live \cup taken \cup acked \subseteq written
  /\ held \subseteq live \cup taken
  /\ \A m \in written : m.id \in Ids
  /\ \A m, x \in written : m.id = x.id => m = x
  /\ live \cap taken = {}
  /\ \A id \in Ids :
       /\ outcome[id] \in {"unsent", "refused"} => Fresh(id)
       /\ outcome[id] = "failed" => Idle(id)
       /\ outcome[id] = "accepted" => \E m \in acked : m.id = id

(* The handler of an enqueue request: its sender knows nothing yet.  The   *)
(* message is nowhere before the commit, in the log and not in memory      *)
(* during it, accepted when 201 is about to be written, not in memory when *)
(* 500 is, and nowhere when anything else is.                              *)
Sender(k) ==
  conn[k].id \in Ids =>
    /\ outcome[conn[k].id] = "unknown"
    /\ conn[k].phase = "commit" =>
         /\ conn[k].msg \in live /\ conn[k].msg.id = conn[k].id
         /\ Idle(conn[k].id)
    /\ conn[k].phase = "reply" /\ conn[k].status = "Created" =>
         \E m \in acked : m.id = conn[k].id
    /\ conn[k].phase = "reply" /\ conn[k].status = "InternalError" =>
         Idle(conn[k].id)
    /\ \/ conn[k].phase \in {"read", "call"}
       \/ /\ conn[k].phase = "reply"
          /\ conn[k].status \notin {"Created", "InternalError"}
       => Fresh(conn[k].id)

(* The handler of any other request.  The message a dequeue has popped has *)
(* its tombstone in the log.                                               *)
Consumer(k) ==
  /\ conn[k].status # Nil => conn[k].phase = "reply"
  /\ Popping(k) => conn[k].msg \in taken /\ conn[k].msg \notin held
  /\ Carries(k) => conn[k].msg.id \in Ids

(* Two handlers: one lock, different ids.                                  *)
Apart(j, k) ==
  /\ ~(conn[j].phase = "commit" /\ conn[k].phase = "commit")
  /\ conn[j].id \in Ids => conn[j].id # conn[k].id

HandlerInv ==
  /\ \A k \in Conns : Sender(k) /\ Consumer(k)
  /\ \A j, k \in Conns : j # k => Apart(j, k)

(* Until the log is in doubt: nothing is delivered twice, what was         *)
(* accepted is there or was delivered, and the message in a dequeue's      *)
(* response is handed over and no client has it.                           *)
SoundInv ==
  log # "doubtful" =>
    /\ received \in [Ids -> {0, 1}] /\ deliveries \in [Ids -> {0, 1}]
    /\ \A m \in live \cup taken : deliveries[m.id] = 0
    /\ \A m \in acked : m \in live \cup taken \/ deliveries[m.id] = 1
    /\ \A id \in Ids : received[id] = 1 => deliveries[id] = 1
    /\ \A k \in Conns :
         Carries(k) => /\ deliveries[conn[k].msg.id] = 1
                       /\ received[conn[k].msg.id] = 0
    /\ \A j, k \in Conns :
         j # k /\ Carries(j) /\ Carries(k) => conn[j].msg.id # conn[k].msg.id

ApiInv == ShutdownInv /\ Shape /\ QueueInv /\ HandlerInv /\ SoundInv

LEMMA ApiInit == Init => ApiInv
<1> SUFFICES ASSUME Init PROVE ApiInv
  OBVIOUS
<1>1. /\ live = {} /\ taken = {} /\ acked = {}
      /\ deliveries = [id \in Ids |-> 0] /\ received = [id \in Ids |-> 0]
      /\ outcome = [id \in Ids |-> "unsent"] /\ held = {} /\ written = {}
      /\ server = "serving" /\ ~closed
      /\ conn = [k \in Conns |-> Free]
  BY DEF Init, Q!Init
<1>2. \A k \in Conns : /\ conn[k].phase = "free" /\ conn[k].id = Nil
                       /\ conn[k].status = Nil /\ DOMAIN conn[k] = Fields
  BY <1>1 DEF Free, Fields
<1>3. ShutdownInv
  BY <1>1, <1>2, ApiAssumption DEF ShutdownInv
<1>4. Shape
  BY <1>1, <1>2 DEF Shape
<1>5. QueueInv
  BY <1>1 DEF QueueInv, Fresh, Outcomes
<1>6. HandlerInv
  BY <1>2, ApiAssumption
     DEF HandlerInv, Sender, Consumer, Apart, Carries, Popping
<1>7. SoundInv
  BY <1>1, <1>2, ApiAssumption DEF SoundInv, Carries
<1> QED BY <1>3, <1>4, <1>5, <1>6, <1>7 DEF ApiInv

-----------------------------------------------------------------------------
LEMMA MovedShape ==
  ASSUME Shape, NEW k \in Conns, NEW phase, NEW status, NEW msg,
         Moved(k, phase, status, msg), conn[k].phase # "free", phase # "free"
  PROVE  Shape'
BY DEF Shape, Moved, Elsewhere

LEMMA FreshIsIdle ==
  ASSUME QueueInv, HandlerInv, NEW id, Fresh(id)
  PROVE  Idle(id)
<1>1. \A k \in Conns : Popping(k) => conn[k].msg \in taken
  BY DEF HandlerInv, Consumer
<1> QED BY <1>1 DEF Fresh, Idle, QueueInv

(* A handler that is not done and leaves with anything but 201, or a       *)
(* dequeue's 200, changes nothing that matters to the others.              *)
LEMMA QuietMove ==
  ASSUME ApiInv, NEW k \in Conns, NEW phase \in {"call", "reply"},
         NEW status, NEW msg, Moved(k, phase, status, msg),
         conn[k].phase \in {"read", "call"}, status # "Created",
         phase = "call" => status = Nil,
         status = "OK" => conn[k].req.route # "dequeue",
         UNCHANGED <<queue, store, users>>
  PROVE  QueueInv' /\ HandlerInv' /\ SoundInv'
<1>0. /\ UNCHANGED <<live, taken, acked, deliveries, outcome, received>>
      /\ UNCHANGED <<held, written, log>>
      /\ Shape /\ QueueInv /\ HandlerInv /\ SoundInv
  BY DEF queue, store, users, ApiInv
<1>a. /\ ~Carries(k)' /\ ~Popping(k)' /\ ~Popping(k)
      /\ conn'[k].phase # "commit" /\ conn'[k].id = conn[k].id
      /\ \A x \in Conns \ {k} : conn'[x] = conn[x]
  BY DEF Carries, Popping, Moved, Elsewhere
<1>b. \A id : (Fresh(id)' <=> Fresh(id)) /\ (Idle(id)' <=> Idle(id))
  BY <1>0, <1>a DEF Fresh, Idle, Popping
<1>1. QueueInv'
  BY <1>0, <1>b DEF QueueInv
<1>2. ASSUME NEW j \in Conns
      PROVE  Sender(j)' /\ Consumer(j)'
  <2>1. CASE j = k
    <3>1. conn[k].id \in Ids => Fresh(conn[k].id) /\ Idle(conn[k].id)
      BY <1>0, FreshIsIdle DEF HandlerInv, Sender
    <3> QED BY <1>0, <1>a, <1>b, <2>1, <3>1, ApiAssumption
            DEF Moved, HandlerInv, Sender, Consumer
  <2>2. CASE j # k
    BY <1>0, <1>a, <1>b, <2>2
       DEF HandlerInv, Sender, Consumer, Carries, Popping
  <2> QED BY <2>1, <2>2
<1>3. ASSUME NEW i \in Conns, NEW j \in Conns, i # j
      PROVE  Apart(i, j)'
  <2>3. Apart(i, j)
    BY <1>0, <1>3 DEF HandlerInv
  <2> QED BY <1>3, <1>a, <2>3 DEF Apart
<1>4. SoundInv'
  BY <1>0, <1>a DEF SoundInv, Carries
<1> QED BY <1>1, <1>2, <1>3, <1>4 DEF HandlerInv

(* 503 is written only once the service is closed.                         *)
LEMMA MovedShutdown ==
  ASSUME ApiInv, NEW k \in Conns, NEW phase, NEW status, NEW msg,
         Moved(k, phase, status, msg), conn[k].phase # "free",
         status = "Unavailable" => closed,
         UNCHANGED process
  PROVE  ShutdownInv'
<1>0. UNCHANGED <<server, why, closed>> /\ ShutdownInv
  BY DEF process, ApiInv
<1>1. ~(server \in {"closing", "closed"} /\ why = "drained") /\ server # "down"
  BY <1>0 DEF ShutdownInv
<1>2. ASSUME NEW j \in Conns, conn'[j].status = "Unavailable"
      PROVE  server = "closed" /\ why # "drained"
  BY <1>0, <1>1, <1>2 DEF Moved, Elsewhere, ShutdownInv
<1> QED BY <1>0, <1>1, <1>2 DEF ShutdownInv

LEMMA QuietSteps ==
  ASSUME ApiInv, NEW k \in Conns,
         \/ Decode(k) \/ BodyFails(k) \/ DequeueEmpty(k)
         \/ ServiceFails(k) /\ UNCHANGED <<written, log>>
         \/ Refuse(k) \/ Inspect(k)
  PROVE  ApiInv'
<1>0. Shape /\ UNCHANGED <<queue, process, store, users>>
      /\ conn[k].phase \in {"read", "call"}
  BY DEF ApiInv, Decode, BodyFails, DequeueEmpty, ServiceFails, Refuse, Inspect,
         At, store
<1>1. conn[k].status = Nil
  BY <1>0 DEF ApiInv, HandlerInv, Consumer
<1>2. \E phase \in {"call", "reply"}, status \in
          {Nil, "BadRequest", "TooLarge", "NoContent", "InternalError",
           "Unavailable", "OK"} :
        \E msg : /\ Moved(k, phase, status, msg)
                 /\ phase = "call" => status = Nil
                 /\ status = "OK" => conn[k].req.route # "dequeue"
                 /\ status = "Unavailable" => closed
  <2>1. CASE Decode(k)
    <3>1. Rejection(conn[k].req) \in {Nil, "BadRequest", "TooLarge"}
      BY DEF Rejection
    <3>2. CASE Rejection(conn[k].req) # Nil
      <4>1. Moved(k, "reply", Rejection(conn[k].req), Nil)
        BY <1>0, <2>1, <3>2, AnswerMoves DEF Decode
      <4> QED BY <3>1, <4>1, ApiAssumption
    <3>3. CASE Rejection(conn[k].req) = Nil
      <4>1. Moved(k, "call", Nil, conn[k].msg)
        BY <1>0, <1>1, <2>1, <3>3, GotoMoves DEF Decode
      <4> QED BY <4>1, ApiAssumption
    <3> QED BY <3>2, <3>3
  <2>2. CASE BodyFails(k)
    <3>1. Moved(k, "reply", "BadRequest", Nil)
      BY <1>0, <2>2, AnswerMoves DEF BodyFails
    <3> QED BY <3>1
  <2>3. CASE DequeueEmpty(k)
    <3>1. Moved(k, "reply", "NoContent", Nil)
      BY <1>0, <2>3, AnswerMoves DEF DequeueEmpty
    <3> QED BY <3>1
  <2>4. CASE ServiceFails(k)
    <3>1. Moved(k, "reply", "InternalError", Nil)
      BY <1>0, <2>4, AnswerMoves DEF ServiceFails
    <3> QED BY <3>1
  <2>5. CASE Refuse(k)
    <3>1. Moved(k, "reply", "Unavailable", Nil) /\ closed
      BY <1>0, <2>5, AnswerMoves DEF Refuse
    <3> QED BY <3>1
  <2>6. CASE Inspect(k)
    <3>1. Moved(k, "reply", "OK", Nil) /\ conn[k].req.route # "dequeue"
      BY <1>0, <2>6, AnswerMoves DEF Inspect, At
    <3> QED BY <3>1
  <2> QED BY <2>1, <2>2, <2>3, <2>4, <2>5, <2>6
<1>3. PICK phase \in {"call", "reply"}, status \in
          {Nil, "BadRequest", "TooLarge", "NoContent", "InternalError",
           "Unavailable", "OK"} :
        \E msg : /\ Moved(k, phase, status, msg)
                 /\ phase = "call" => status = Nil
                 /\ status = "OK" => conn[k].req.route # "dequeue"
                 /\ status = "Unavailable" => closed
  BY <1>2
<1>4. PICK msg : /\ Moved(k, phase, status, msg)
                 /\ phase = "call" => status = Nil
                 /\ status = "OK" => conn[k].req.route # "dequeue"
                 /\ status = "Unavailable" => closed
  BY <1>3
<1>5. status # "Created"
  BY ApiAssumption
<1>6. Shape'
  BY <1>0, <1>4, MovedShape
<1>7. ShutdownInv'
  BY <1>0, <1>4, MovedShutdown
<1>8. QueueInv' /\ HandlerInv' /\ SoundInv'
  BY <1>0, <1>4, <1>5, QuietMove DEF queue, store, users
<1> QED BY <1>6, <1>7, <1>8 DEF ApiInv

(* A write that fails half way: the id of the request is not fresh any     *)
(* more, but the message is not in memory, which is what 500 says.         *)
LEMMA FragmentStep ==
  ASSUME ApiInv, NEW k \in Conns, ServiceFails(k),
         ~UNCHANGED <<written, log>>
  PROVE  ApiInv'
<1> DEFINE m == NewMessage(k)
<1>0. /\ Shape /\ QueueInv /\ HandlerInv /\ SoundInv
      /\ UNCHANGED <<live, taken, acked, deliveries, held, outcome, received,
                     process>>
      /\ conn[k].phase = "call"
      /\ log' # "doubtful" => log # "doubtful"
      /\ written' = IF conn[k].req.route = "enqueue"
                    THEN written \cup {m} ELSE written
  BY DEF ApiInv, ServiceFails, queue, users, At
<1>1. /\ m.id = conn[k].id /\ conn[k].status = Nil
      /\ conn[k].req.route = "enqueue" <=> conn[k].id \in Ids
      /\ conn[k].id \in Ids => Fresh(conn[k].id) /\ Idle(conn[k].id)
                               /\ outcome[conn[k].id] = "unknown"
  BY <1>0, FreshIsIdle DEF Shape, HandlerInv, Sender, Consumer, NewMessage
<1> HIDE DEF m
<1>2. Moved(k, "reply", "InternalError", Nil)
  BY <1>0, AnswerMoves DEF ServiceFails
<1>3. Shape'
  BY <1>0, <1>2, MovedShape
<1>4. ShutdownInv'
  BY <1>0, <1>2, MovedShutdown
<1>5. /\ ~Carries(k)' /\ ~Popping(k)' /\ ~Popping(k)
      /\ conn'[k].phase # "commit" /\ conn'[k].id = conn[k].id
      /\ \A x \in Conns \ {k} : conn'[x] = conn[x]
  BY <1>0, <1>2 DEF Carries, Popping, Moved, Elsewhere
<1>6. /\ \A id : Idle(id)' <=> Idle(id)
      /\ \A id : Fresh(id) /\ id # conn[k].id => Fresh(id)'
  BY <1>0, <1>1, <1>5 DEF Fresh, Idle, Popping
<1>7. QueueInv'
  <2>1. \A id \in Ids : outcome[id] \in {"unsent", "refused"} => Fresh(id)'
    BY <1>0, <1>1, <1>6 DEF QueueInv
  <2>2. /\ \A a \in written' : a.id \in Ids
        /\ \A a, b \in written' : a.id = b.id => a = b
        /\ written \subseteq written'
    BY <1>0, <1>1 DEF QueueInv, Fresh
  <2> QED BY <1>0, <1>6, <2>1, <2>2 DEF QueueInv
<1>8. ASSUME NEW j \in Conns
      PROVE  Sender(j)' /\ Consumer(j)'
  <2>1. CASE j = k
    BY <1>0, <1>1, <1>2, <1>5, <1>6, <2>1, ApiAssumption
       DEF Moved, Sender, Consumer
  <2>2. CASE j # k
    <3>1. conn'[j] = conn[j] /\ Sender(j) /\ Consumer(j) /\ Apart(j, k)
      BY <1>0, <1>5, <2>2 DEF HandlerInv
    <3>2. Sender(j)'
      BY <1>0, <1>6, <3>1 DEF Sender, Apart
    <3>3. Consumer(j)'
      BY <1>0, <3>1 DEF Consumer, Carries, Popping
    <3> QED BY <3>2, <3>3
  <2> QED BY <2>1, <2>2
<1>9. ASSUME NEW i \in Conns, NEW j \in Conns, i # j
      PROVE  Apart(i, j)'
  <2>1. Apart(i, j)
    BY <1>0, <1>9 DEF HandlerInv
  <2> QED BY <1>5, <1>9, <2>1 DEF Apart
<1>10. SoundInv'
  BY <1>0, <1>5 DEF SoundInv, Carries
<1> QED BY <1>3, <1>4, <1>7, <1>8, <1>9, <1>10 DEF ApiInv, HandlerInv

-----------------------------------------------------------------------------
(* The commit of an enqueue: the id of the request is fresh, the lock is   *)
(* this handler's alone.                                                   *)
LEMMA EnqueueCommitStep ==
  ASSUME ApiInv, NEW k \in Conns, EnqueueCommit(k)
  PROVE  ApiInv'
<1> DEFINE m == NewMessage(k)
<1>0. /\ Shape /\ QueueInv /\ HandlerInv /\ SoundInv /\ LockFree
      /\ UNCHANGED <<taken, acked, deliveries, outcome, received, process, held,
                     log>>
      /\ live' = live \cup {m} /\ written' = written \cup {m}
      /\ conn[k].phase = "call" /\ conn[k].req.route = "enqueue"
  BY DEF ApiInv, EnqueueCommit, users, At
<1>1. /\ conn[k].id \in Ids /\ m.id = conn[k].id /\ conn[k].status = Nil
      /\ Fresh(conn[k].id) /\ Idle(conn[k].id)
      /\ outcome[conn[k].id] = "unknown"
  BY <1>0, FreshIsIdle DEF Shape, HandlerInv, Sender, Consumer, NewMessage
<1> HIDE DEF m
<1>2. Moved(k, "commit", Nil, m)
  BY <1>0, <1>1, CommitMoves DEF EnqueueCommit, m
<1>3. Shape'
  BY <1>0, <1>2, MovedShape
<1>4. ShutdownInv'
  BY <1>0, <1>2, MovedShutdown, ApiAssumption
<1>5. /\ ~Carries(k)' /\ ~Popping(k)' /\ ~Popping(k) /\ conn'[k].id = conn[k].id
      /\ \A x \in Conns \ {k} : conn'[x] = conn[x] /\ conn[x].phase # "commit"
  BY <1>0, <1>1, <1>2, ApiAssumption
     DEF Carries, Popping, Moved, Elsewhere, LockFree
<1>6. /\ \A id : Idle(id)' <=> Idle(id)
      /\ \A id : Fresh(id) /\ id # conn[k].id => Fresh(id)'
  BY <1>0, <1>1, <1>5 DEF Fresh, Idle, Popping
<1>7. m \notin written /\ deliveries[m.id] = 0
  BY <1>1 DEF Fresh
<1>8. QueueInv'
  <2>1. \A id \in Ids : outcome[id] \in {"unsent", "refused"} => Fresh(id)'
    BY <1>0, <1>1, <1>6 DEF QueueInv
  <2>2. /\ \A a \in written' : a.id \in Ids
        /\ \A a, b \in written' : a.id = b.id => a = b
        /\ live' \cup taken \cup acked \subseteq written'
        /\ live' \cap taken = {}
    BY <1>0, <1>1, <1>7 DEF QueueInv, Fresh
  <2> QED BY <1>0, <1>6, <2>1, <2>2 DEF QueueInv
<1>9. ASSUME NEW j \in Conns
      PROVE  Sender(j)' /\ Consumer(j)'
  <2>1. CASE j = k
    BY <1>0, <1>1, <1>2, <1>5, <1>6, <2>1, ApiAssumption
       DEF Moved, Sender, Consumer
  <2>2. CASE j # k
    <3>1. /\ conn'[j] = conn[j] /\ conn[j].phase # "commit"
          /\ Sender(j) /\ Consumer(j) /\ Apart(j, k)
      BY <1>0, <1>5, <2>2 DEF HandlerInv
    <3>2. Sender(j)'
      BY <1>0, <1>6, <3>1 DEF Sender, Apart
    <3>3. Consumer(j)'
      BY <1>0, <3>1 DEF Consumer, Carries, Popping
    <3> QED BY <3>2, <3>3
  <2> QED BY <2>1, <2>2
<1>10. ASSUME NEW i \in Conns, NEW j \in Conns, i # j
       PROVE  Apart(i, j)'
  <2>1. Apart(i, j)
    BY <1>0, <1>10 DEF HandlerInv
  <2> QED BY <1>5, <1>10, <2>1 DEF Apart
<1>11. SoundInv'
  <2>1. ASSUME log # "doubtful"
        PROVE  \A x \in live' \cup taken : deliveries[x.id] = 0
    BY <1>0, <1>7, <2>1 DEF SoundInv
  <2> QED BY <1>0, <1>5, <2>1 DEF SoundInv, Carries
<1> QED BY <1>3, <1>4, <1>8, <1>9, <1>10, <1>11 DEF ApiInv, HandlerInv

(* Sync, Push and 201: the message is accepted before the status is        *)
(* written, and only now in memory.                                        *)
LEMMA EnqueueReturnStep ==
  ASSUME ApiInv, NEW k \in Conns, EnqueueReturn(k)
  PROVE  ApiInv'
<1> DEFINE m == conn[k].msg
<1>0. /\ Shape /\ QueueInv /\ HandlerInv /\ SoundInv
      /\ UNCHANGED <<live, taken, deliveries, outcome, received, process,
                     written, log>>
      /\ acked' = acked \cup {m} /\ held' = held \cup {m}
      /\ conn[k].phase = "commit" /\ conn[k].req.route = "enqueue"
  BY DEF ApiInv, EnqueueReturn, Q!Accept, users, At
<1>1. /\ conn[k].id \in Ids /\ m \in live /\ m.id = conn[k].id
      /\ outcome[m.id] = "unknown"
  BY <1>0 DEF Shape, HandlerInv, Sender
<1> HIDE DEF m
<1>2. Moved(k, "reply", "Created", m)
  BY <1>0, AnswerMoves DEF EnqueueReturn, m
<1>3. Shape'
  BY <1>0, <1>2, MovedShape
<1>4. ShutdownInv'
  BY <1>0, <1>2, MovedShutdown
<1>5. /\ ~Carries(k)' /\ ~Popping(k)' /\ ~Popping(k)
      /\ conn'[k].phase # "commit" /\ conn'[k].id = conn[k].id
      /\ \A x \in Conns \ {k} : conn'[x] = conn[x] /\ conn[x].phase # "commit"
  <2>1. \A x \in Conns \ {k} : Apart(k, x)
    BY <1>0 DEF HandlerInv
  <2> QED BY <1>0, <1>1, <1>2, <2>1, ApiAssumption
          DEF Carries, Popping, Moved, Elsewhere, Apart
<1>6. /\ \A id : Fresh(id)' <=> Fresh(id)
      /\ \A id : Idle(id) /\ id # m.id => Idle(id)'
  BY <1>0, <1>5 DEF Fresh, Idle, Popping
<1>7. QueueInv'
  <2>1. held' \subseteq live \cup taken /\ acked' \subseteq written
    BY <1>0, <1>1 DEF QueueInv
  <2>2. \A id \in Ids : outcome[id] = "failed" => Idle(id)'
    BY <1>0, <1>1, <1>6 DEF QueueInv
  <2> QED BY <1>0, <1>6, <2>1, <2>2 DEF QueueInv
<1>8. ASSUME NEW j \in Conns
      PROVE  Sender(j)' /\ Consumer(j)'
  <2>1. CASE j = k
    BY <1>0, <1>1, <1>2, <1>5, <2>1, ApiAssumption
       DEF Moved, HandlerInv, Sender, Consumer
  <2>2. CASE j # k
    <3>1. /\ conn'[j] = conn[j] /\ conn[j].phase # "commit"
          /\ Sender(j) /\ Consumer(j) /\ Apart(j, k)
      BY <1>0, <1>5, <2>2 DEF HandlerInv
    <3>2. Sender(j)'
      BY <1>0, <1>1, <1>6, <3>1 DEF Sender, Apart
    <3>3. Consumer(j)'
      BY <1>0, <3>1 DEF Consumer, Carries, Popping
    <3> QED BY <3>2, <3>3
  <2> QED BY <2>1, <2>2
<1>9. ASSUME NEW i \in Conns, NEW j \in Conns, i # j
      PROVE  Apart(i, j)'
  <2>1. Apart(i, j)
    BY <1>0, <1>9 DEF HandlerInv
  <2> QED BY <1>5, <1>9, <2>1 DEF Apart
<1>10. SoundInv'
  BY <1>0, <1>1, <1>5 DEF SoundInv, Carries
<1> QED BY <1>3, <1>4, <1>7, <1>8, <1>9, <1>10 DEF ApiInv, HandlerInv

(* The commit of a dequeue: no enqueue is between commit and sync, so the  *)
(* message taken is nobody else's.                                         *)
LEMMA DequeueCommitStep ==
  ASSUME ApiInv, NEW k \in Conns, DequeueCommit(k)
  PROVE  ApiInv'
<1>0. /\ Shape /\ QueueInv /\ HandlerInv /\ SoundInv /\ LockFree
      /\ UNCHANGED <<acked, deliveries, outcome, received, process, written, log>>
      /\ conn[k].phase = "call" /\ conn[k].req.route = "dequeue"
  BY DEF ApiInv, DequeueCommit, users, At
<1>1. PICK m \in held :
        /\ live' = live \ {m} /\ taken' = taken \cup {m} /\ held' = held \ {m}
        /\ conn' = [conn EXCEPT ![k].phase = "commit", ![k].msg = m]
  BY DEF DequeueCommit, Best, Matured
<1>2. conn[k].id = Nil /\ conn[k].status = Nil
  BY <1>0 DEF Shape, HandlerInv, Consumer
<1>3. Moved(k, "commit", Nil, m)
  BY <1>0, <1>1, <1>2, CommitMoves
<1>4. Shape'
  BY <1>0, <1>3, MovedShape
<1>5. ShutdownInv'
  BY <1>0, <1>3, MovedShutdown, ApiAssumption
<1>6. /\ live' \cup taken' = live \cup taken /\ m \in written
      /\ held' \subseteq live' \cup taken' /\ live' \cap taken' = {}
  BY <1>0, <1>1 DEF QueueInv
<1>7. /\ ~Carries(k)' /\ conn'[k].id = conn[k].id
      /\ conn'[k].msg = m
      /\ \A x \in Conns \ {k} : conn'[x] = conn[x] /\ conn[x].phase # "commit"
  BY <1>0, <1>3, ApiAssumption DEF Carries, Moved, Elsewhere, LockFree
<1>8. /\ \A id : Fresh(id)' <=> Fresh(id)
      /\ \A id : Idle(id) => Idle(id)'
  <2>1. \A x \in Conns : Popping(x)' => x = k
    BY <1>7 DEF Popping
  <2> QED BY <1>0, <1>1, <1>7, <2>1 DEF Fresh, Idle
<1>9. QueueInv'
  BY <1>0, <1>6, <1>8 DEF QueueInv
<1>10. ASSUME NEW j \in Conns
       PROVE  Sender(j)' /\ Consumer(j)'
  <2>1. CASE j = k
    BY <1>0, <1>1, <1>2, <1>3, <1>7, <2>1, ApiAssumption
       DEF Moved, Sender, Consumer, Popping
  <2>2. CASE j # k
    <3>1. conn'[j] = conn[j] /\ Sender(j) /\ Consumer(j)
          /\ conn[j].phase # "commit"
      BY <1>0, <1>7, <2>2 DEF HandlerInv
    <3> QED BY <1>0, <1>8, <3>1 DEF Sender, Consumer, Carries, Popping
  <2> QED BY <2>1, <2>2
<1>11. ASSUME NEW i \in Conns, NEW j \in Conns, i # j
       PROVE  Apart(i, j)'
  <2>1. Apart(i, j)
    BY <1>0, <1>11 DEF HandlerInv
  <2> QED BY <1>7, <1>11, <2>1 DEF Apart
<1>12. SoundInv'
  BY <1>0, <1>6, <1>7 DEF SoundInv, Carries
<1> QED BY <1>4, <1>5, <1>9, <1>10, <1>11, <1>12 DEF ApiInv, HandlerInv

(* The hand-over: of a sound log it is the first delivery of the id, which *)
(* no response carries and no client has.                                  *)
LEMMA DequeueReturnStep ==
  ASSUME ApiInv, NEW k \in Conns, DequeueReturn(k)
  PROVE  ApiInv'
<1> DEFINE m == conn[k].msg
<1>0. /\ Shape /\ QueueInv /\ HandlerInv /\ SoundInv
      /\ UNCHANGED <<live, acked, outcome, received, process, held, written, log>>
      /\ m \in taken /\ taken' = taken \ {m}
      /\ deliveries' = [deliveries EXCEPT ![m.id] = @ + 1]
      /\ conn[k].phase = "commit" /\ conn[k].req.route = "dequeue"
  BY DEF ApiInv, DequeueReturn, Q!HandOver, users, store, At
<1>1. conn[k].id = Nil /\ m \notin held /\ Popping(k)
  BY <1>0, ApiAssumption DEF Shape, HandlerInv, Consumer, Popping
<1> HIDE DEF m
<1>2. Moved(k, "reply", "OK", m)
  BY <1>0, AnswerMoves DEF DequeueReturn, m
<1>3. Shape'
  BY <1>0, <1>2, MovedShape
<1>4. ShutdownInv'
  BY <1>0, <1>2, MovedShutdown
<1>5. /\ m \in written /\ m.id \in Ids
      /\ deliveries' \in [Ids -> Nat] /\ deliveries'[m.id] = deliveries[m.id] + 1
      /\ \A id \in Ids \ {m.id} : deliveries'[id] = deliveries[id]
      /\ \A x \in live \cup taken' : x.id # m.id
      /\ held \subseteq live \cup taken'
  BY <1>0, <1>1 DEF QueueInv
<1>6. /\ ~Popping(k)' /\ conn'[k].id = Nil /\ conn'[k].phase # "commit"
      /\ conn'[k].msg = m
      /\ \A x \in Conns \ {k} : conn'[x] = conn[x] /\ conn[x].phase # "commit"
  <2>1. \A x \in Conns \ {k} : Apart(k, x)
    BY <1>0 DEF HandlerInv
  <2> QED BY <1>0, <1>1, <1>2, <2>1 DEF Popping, Moved, Elsewhere, Apart
<1>7. /\ \A id \in Ids : Fresh(id) => Fresh(id)'
      /\ \A id \in Ids : Idle(id) => Idle(id)'
  <2>1. \A id \in Ids : Fresh(id) => id # m.id
    BY <1>5 DEF Fresh
  <2>2. \A id \in Ids : Idle(id) => id # m.id
    BY <1>1 DEF Idle, m
  <2>3. \A x \in Conns : ~Popping(x)'
    BY <1>6 DEF Popping
  <2> QED BY <1>0, <1>5, <2>1, <2>2, <2>3 DEF Fresh, Idle
<1>8. QueueInv'
  BY <1>0, <1>5, <1>7 DEF QueueInv
<1>9. ASSUME NEW j \in Conns
      PROVE  Sender(j)' /\ Consumer(j)'
  <2>1. CASE j = k
    BY <1>0, <1>1, <1>2, <1>5, <1>6, <2>1, ApiAssumption
       DEF Moved, Sender, Consumer
  <2>2. CASE j # k
    <3>1. /\ conn'[j] = conn[j] /\ conn[j].phase # "commit"
          /\ Sender(j) /\ Consumer(j)
      BY <1>0, <1>6, <2>2 DEF HandlerInv
    <3>2. Sender(j)'
      BY <1>0, <1>7, <3>1 DEF Sender
    <3>3. Consumer(j)'
      BY <1>0, <3>1 DEF Consumer, Carries, Popping
    <3> QED BY <3>2, <3>3
  <2> QED BY <2>1, <2>2
<1>10. ASSUME NEW i \in Conns, NEW j \in Conns, i # j
       PROVE  Apart(i, j)'
  <2>1. Apart(i, j)
    BY <1>0, <1>10 DEF HandlerInv
  <2> QED BY <1>1, <1>6, <1>10, <2>1 DEF Apart
<1>11. ASSUME log # "doubtful" PROVE SoundInv'
  <2>1. /\ deliveries[m.id] = 0 /\ deliveries'[m.id] = 1 /\ received[m.id] = 0
        /\ deliveries' \in [Ids -> {0, 1}]
    <3>1. deliveries[m.id] = 0 /\ received[m.id] # 1
      BY <1>0, <1>5, <1>11 DEF SoundInv
    <3>2. deliveries'[m.id] = 1 /\ received[m.id] = 0
      BY <1>0, <1>5, <1>11, <3>1 DEF SoundInv
    <3> QED BY <1>0, <1>5, <1>11, <3>1, <3>2 DEF SoundInv
  <2>2. \A x \in acked : x \in live \cup taken' \/ deliveries'[x.id] = 1
    BY <1>0, <1>5, <1>11, <2>1 DEF SoundInv, QueueInv
  <2>3. \A x \in live \cup taken' : deliveries'[x.id] = 0
    BY <1>0, <1>5, <1>11 DEF SoundInv, QueueInv
  <2>4. \A id \in Ids : received[id] = 1 => deliveries'[id] = 1
    BY <1>0, <1>5, <1>11, <2>1 DEF SoundInv
  <2>5. \A j \in Conns \ {k} :
          /\ Carries(j)' <=> Carries(j)
          /\ Carries(j) => conn[j].msg.id \in Ids \ {m.id}
    BY <1>0, <1>6, <1>11, <2>1 DEF HandlerInv, Consumer, SoundInv, Carries
  <2>6. ASSUME NEW j \in Conns, Carries(j)'
        PROVE  /\ deliveries'[conn'[j].msg.id] = 1
               /\ received[conn'[j].msg.id] = 0
    BY <1>0, <1>5, <1>6, <1>11, <2>1, <2>5, <2>6 DEF SoundInv
  <2>7. ASSUME NEW i \in Conns, NEW j \in Conns, i # j, Carries(i)', Carries(j)'
        PROVE  conn'[i].msg.id # conn'[j].msg.id
    BY <1>0, <1>6, <1>11, <2>5, <2>7 DEF SoundInv
  <2> QED BY <1>0, <1>11, <2>1, <2>2, <2>3, <2>4, <2>6, <2>7 DEF SoundInv
<1>12. SoundInv'
  BY <1>0, <1>11 DEF SoundInv
<1> QED BY <1>3, <1>4, <1>8, <1>9, <1>10, <1>12 DEF ApiInv, HandlerInv

(* The fsync fails: the log keeps the record, memory is as before the call *)
(* and 500 says no more than that.                                         *)
LEMMA SyncFailsStep ==
  ASSUME ApiInv, NEW k \in Conns, SyncFails(k)
  PROVE  ApiInv'
<1> DEFINE m == conn[k].msg
<1>0. /\ Shape /\ QueueInv /\ HandlerInv /\ SoundInv
      /\ UNCHANGED <<live, taken, acked, deliveries, outcome, received, process,
                     written, log>>
      /\ held' = IF conn[k].req.route = "dequeue" THEN held \cup {m} ELSE held
      /\ conn[k].phase = "commit" /\ conn[k].req.route \in {"enqueue", "dequeue"}
  BY DEF ApiInv, SyncFails, queue, users, At
<1>1. /\ conn[k].req.route = "enqueue" <=> conn[k].id \in Ids
      /\ conn[k].req.route = "dequeue" => m \in taken /\ Popping(k)
      /\ conn[k].id \in Ids => Idle(conn[k].id) /\ outcome[conn[k].id] = "unknown"
  BY <1>0, ApiAssumption DEF Shape, HandlerInv, Sender, Consumer, Popping
<1> HIDE DEF m
<1>2. Moved(k, "reply", "InternalError", Nil)
  BY <1>0, AnswerMoves DEF SyncFails
<1>3. Shape'
  BY <1>0, <1>2, MovedShape
<1>4. ShutdownInv'
  BY <1>0, <1>2, MovedShutdown
<1>5. /\ ~Carries(k)' /\ ~Popping(k)'
      /\ conn'[k].phase # "commit" /\ conn'[k].id = conn[k].id
      /\ \A x \in Conns \ {k} : conn'[x] = conn[x] /\ conn[x].phase # "commit"
  <2>1. \A x \in Conns \ {k} : Apart(k, x)
    BY <1>0 DEF HandlerInv
  <2> QED BY <1>0, <1>2, <2>1 DEF Carries, Popping, Moved, Elsewhere, Apart
<1>6. /\ \A id : Fresh(id)' <=> Fresh(id)
      /\ \A id : Idle(id) => Idle(id)'
  <2>1. \A id : Idle(id) /\ conn[k].req.route = "dequeue" => id # m.id
    BY <1>1 DEF Idle, m
  <2>2. \A x \in Conns : ~Popping(x)'
    BY <1>5 DEF Popping
  <2> QED BY <1>0, <2>1, <2>2 DEF Fresh, Idle
<1>7. QueueInv'
  BY <1>0, <1>1, <1>6 DEF QueueInv
<1>8. ASSUME NEW j \in Conns
      PROVE  Sender(j)' /\ Consumer(j)'
  <2>1. CASE j = k
    BY <1>0, <1>1, <1>2, <1>5, <1>6, <2>1, ApiAssumption
       DEF Moved, Sender, Consumer
  <2>2. CASE j # k
    <3>1. /\ conn'[j] = conn[j] /\ conn[j].phase # "commit"
          /\ Sender(j) /\ Consumer(j)
      BY <1>0, <1>5, <2>2 DEF HandlerInv
    <3> QED BY <1>0, <1>6, <3>1 DEF Sender, Consumer, Carries, Popping
  <2> QED BY <2>1, <2>2
<1>9. ASSUME NEW i \in Conns, NEW j \in Conns, i # j
      PROVE  Apart(i, j)'
  <2>1. Apart(i, j)
    BY <1>0, <1>9 DEF HandlerInv
  <2> QED BY <1>5, <1>9, <2>1 DEF Apart
<1>10. SoundInv'
  BY <1>0, <1>5 DEF SoundInv, Carries
<1> QED BY <1>3, <1>4, <1>7, <1>8, <1>9, <1>10 DEF ApiInv, HandlerInv

(* The response is written; what the client learns, if it is still there,  *)
(* is true.                                                                *)
LEMMA ReplyStep ==
  ASSUME ApiInv, NEW k \in Conns, Reply(k)
  PROVE  ApiInv'
<1> DEFINE c == conn[k]
<1>0. /\ Shape /\ QueueInv /\ HandlerInv /\ ShutdownInv /\ SoundInv
      /\ UNCHANGED <<live, taken, acked, deliveries, server, why, closed,
                     held, written, log>>
      /\ c.phase = "reply" /\ conn' = [conn EXCEPT ![k] = Free]
      /\ outcome' = IF ~c.gone /\ c.id # Nil
                    THEN [outcome EXCEPT
                            ![c.id] = CASE c.status = "Created" -> "accepted"
                                        [] c.status = "InternalError" -> "failed"
                                        [] OTHER -> "refused"]
                    ELSE outcome
      /\ received' = IF ~c.gone /\ c.req.route = "dequeue" /\ c.status = "OK"
                     THEN [received EXCEPT ![c.msg.id] = @ + 1] ELSE received
  BY DEF ApiInv, Reply, queue, process, store
<1>1. /\ conn'[k] = Free /\ Elsewhere(k)
  BY <1>0 DEF Shape, Elsewhere
<1>2. /\ conn'[k].phase = "free" /\ conn'[k].id = Nil /\ conn'[k].status = Nil
      /\ DOMAIN conn'[k] = Fields
  BY <1>1 DEF Free, Fields
<1>3. Shape'
  BY <1>0, <1>1, <1>2 DEF Shape, Elsewhere
<1>4. ShutdownInv'
  BY <1>0, <1>1, <1>2, ApiAssumption DEF ShutdownInv, Elsewhere
<1>5. c.id \in Ids \cup {Nil} /\ Sender(k) /\ Consumer(k)
  BY <1>0 DEF Shape, HandlerInv
<1>6. \A id : (Fresh(id)' <=> Fresh(id)) /\ (Idle(id)' <=> Idle(id))
  BY <1>0, <1>1, <1>2 DEF Fresh, Idle, Popping, Elsewhere
<1>7. /\ outcome' \in [Ids -> Outcomes]
      /\ \A id \in Ids : id # c.id => outcome'[id] = outcome[id]
      /\ c.id \in Ids /\ outcome'[c.id] = "accepted" =>
           \E m \in acked : m.id = c.id
      /\ c.id \in Ids /\ outcome'[c.id] = "failed" => Idle(c.id)
      /\ c.id \in Ids /\ outcome'[c.id] = "refused" => Fresh(c.id)
      /\ c.id \in Ids => outcome'[c.id] # "unsent"
  <2>1. CASE ~c.gone /\ c.id # Nil
    <3>1. c.id \in Ids /\ outcome[c.id] = "unknown"
      BY <1>5, <2>1 DEF Sender
    <3>2. CASE c.status = "Created"
      BY <1>0, <1>5, <2>1, <3>1, <3>2 DEF QueueInv, Sender, Outcomes
    <3>3. CASE c.status = "InternalError"
      BY <1>0, <1>5, <2>1, <3>1, <3>3 DEF QueueInv, Sender, Outcomes
    <3>4. CASE c.status \notin {"Created", "InternalError"}
      <4>1. outcome' = [outcome EXCEPT ![c.id] = "refused"]
        BY <1>0, <2>1, <3>4
      <4> QED BY <1>0, <1>5, <3>1, <3>4, <4>1 DEF QueueInv, Sender, Outcomes
    <3> QED BY <3>2, <3>3, <3>4
  <2>2. CASE ~(~c.gone /\ c.id # Nil)
    BY <1>0, <1>5, <2>2 DEF QueueInv, Sender, Outcomes
  <2> QED BY <2>1, <2>2
<1>8. /\ received' \in [Ids -> Nat]
      /\ \A id \in Ids : received'[id] # received[id] =>
           /\ Carries(k) /\ id = c.msg.id
           /\ received'[id] = received[id] + 1
  BY <1>0, <1>5 DEF QueueInv, Consumer, Carries
<1>9. QueueInv'
  <2>1. \A id \in Ids : outcome'[id] \in {"unsent", "refused"} => Fresh(id)'
    BY <1>0, <1>6, <1>7 DEF QueueInv
  <2>2. \A id \in Ids : outcome'[id] = "accepted" => \E m \in acked : m.id = id
    BY <1>0, <1>7 DEF QueueInv
  <2>3. \A id \in Ids : outcome'[id] = "failed" => Idle(id)'
    BY <1>0, <1>6, <1>7 DEF QueueInv
  <2> QED BY <1>0, <1>7, <1>8, <2>1, <2>2, <2>3 DEF QueueInv
<1> HIDE DEF c
<1>10. ASSUME NEW j \in Conns
       PROVE  Sender(j)' /\ Consumer(j)'
  <2>1. CASE j = k
    BY <1>2, <2>1, ApiAssumption DEF Sender, Consumer, Carries, Popping
  <2>2. CASE j # k
    <3>1. /\ conn'[j] = conn[j] /\ Sender(j) /\ Consumer(j)
          /\ Apart(k, j) /\ Apart(j, k)
      BY <1>0, <1>1, <2>2 DEF Elsewhere, HandlerInv
    <3>2. conn[j].id \in Ids => outcome'[conn[j].id] = outcome[conn[j].id]
      BY <1>7, <3>1 DEF Apart, c
    <3>3. Sender(j)'
      BY <1>0, <1>6, <3>1, <3>2 DEF Sender
    <3>4. Consumer(j)'
      BY <1>0, <3>1 DEF Consumer, Carries, Popping
    <3> QED BY <3>3, <3>4
  <2> QED BY <2>1, <2>2
<1>11. ASSUME NEW i \in Conns, NEW j \in Conns, i # j
       PROVE  Apart(i, j)'
  <2>1. Apart(i, j)
    BY <1>0, <1>11 DEF HandlerInv
  <2> QED BY <1>1, <1>2, <1>11, <2>1, ApiAssumption DEF Apart, Elsewhere
<1>12. ASSUME log # "doubtful" PROVE SoundInv'
  <2>1. \A j \in Conns : Carries(j)' => j # k /\ Carries(j) /\ conn'[j] = conn[j]
    BY <1>1, <1>2, ApiAssumption DEF Carries, Elsewhere
  <2>2. Carries(k) => /\ deliveries[c.msg.id] = 1 /\ received[c.msg.id] = 0
    BY <1>0, <1>12 DEF SoundInv, c
  <2>3. /\ received' \in [Ids -> {0, 1}]
        /\ \A id \in Ids : received'[id] = 1 => deliveries[id] = 1
    <3>1. \A id \in Ids : received'[id] # received[id] =>
            received'[id] = 1 /\ deliveries[id] = 1
      BY <1>8, <2>2
    <3> QED BY <1>0, <1>8, <1>12, <3>1 DEF SoundInv
  <2>4. ASSUME NEW j \in Conns, Carries(j)'
        PROVE  /\ deliveries[conn'[j].msg.id] = 1
               /\ received'[conn'[j].msg.id] = 0
    <3>1. conn[j].msg.id \in Ids /\ (Carries(k) => conn[j].msg.id # c.msg.id)
      BY <1>0, <1>12, <2>1, <2>4 DEF SoundInv, HandlerInv, Consumer, c
    <3> QED BY <1>0, <1>8, <1>12, <2>1, <2>4, <3>1 DEF SoundInv
  <2>5. ASSUME NEW i \in Conns, NEW j \in Conns, i # j, Carries(i)', Carries(j)'
        PROVE  conn'[i].msg.id # conn'[j].msg.id
    BY <1>0, <1>12, <2>1, <2>5 DEF SoundInv
  <2> QED BY <1>0, <1>12, <2>3, <2>4, <2>5 DEF SoundInv
<1>13. SoundInv'
  BY <1>0, <1>12 DEF SoundInv
<1> QED BY <1>3, <1>4, <1>9, <1>10, <1>11, <1>13 DEF ApiInv, HandlerInv

(* The client goes away; the handler does not notice.                      *)
LEMMA HangUpStep ==
  ASSUME ApiInv, NEW k \in Conns, HangUp(k)
  PROVE  ApiInv'
<1>0. /\ Shape /\ QueueInv /\ HandlerInv /\ ShutdownInv /\ SoundInv
      /\ UNCHANGED <<live, taken, acked, deliveries, server, why, closed,
                     outcome, received, held, written, log>>
      /\ conn' = [conn EXCEPT ![k].gone = TRUE] /\ conn[k].phase # "free"
  BY DEF ApiInv, HangUp, queue, process, users, store
<1>1. /\ DOMAIN conn' = Conns
      /\ \A j \in Conns :
           /\ DOMAIN conn'[j] = Fields
           /\ conn'[j].phase = conn[j].phase /\ conn'[j].req = conn[j].req
           /\ conn'[j].id = conn[j].id /\ conn'[j].msg = conn[j].msg
           /\ conn'[j].status = conn[j].status
  BY <1>0 DEF Shape, Fields
<1>2. Shape'
  BY <1>0, <1>1 DEF Shape
<1>3. ShutdownInv'
  BY <1>0, <1>1 DEF ShutdownInv
<1>4. /\ \A j \in Conns : Carries(j)' <=> Carries(j)
      /\ \A j \in Conns : Popping(j)' <=> Popping(j)
  BY <1>1 DEF Carries, Popping
<1>5. \A id : (Fresh(id)' <=> Fresh(id)) /\ (Idle(id)' <=> Idle(id))
  BY <1>0, <1>1, <1>4 DEF Fresh, Idle
<1>6. QueueInv'
  BY <1>0, <1>5 DEF QueueInv
<1>7. \A j \in Conns : Sender(j)' /\ Consumer(j)'
  BY <1>0, <1>1, <1>4, <1>5 DEF HandlerInv, Sender, Consumer
<1>8. \A i, j \in Conns : i # j => Apart(i, j)'
  BY <1>0, <1>1 DEF HandlerInv, Apart
<1>9. SoundInv'
  BY <1>0, <1>1, <1>4 DEF SoundInv
<1> QED BY <1>2, <1>3, <1>6, <1>7, <1>8, <1>9 DEF ApiInv, HandlerInv

(* A new request, an enqueue with an id nobody has used.                   *)
LEMMA SendStep ==
  ASSUME ApiInv, NEW k \in Conns, NEW req \in Requests, Send(k, req)
  PROVE  ApiInv'
<1>0. /\ Shape /\ QueueInv /\ HandlerInv /\ ShutdownInv /\ SoundInv /\ Accepting
      /\ UNCHANGED <<live, taken, acked, deliveries, server, why, closed, received,
                     held, written, log>>
      /\ conn[k].phase = "free"
  BY DEF ApiInv, Send, queue, process, store
<1>1. PICK id \in IF req.route = "enqueue"
                  THEN {i \in Ids : outcome[i] = "unsent"} ELSE {Nil} :
        /\ conn' = [conn EXCEPT ![k] =
                      [Free EXCEPT !.phase = "read", !.req = req, !.id = id]]
        /\ outcome' = [i \in Ids |-> IF i = id THEN "unknown" ELSE outcome[i]]
  BY DEF Send
<1>2. /\ Elsewhere(k)
      /\ conn'[k].phase = "read" /\ conn'[k].req = req /\ conn'[k].id = id
      /\ conn'[k].status = Nil /\ DOMAIN conn'[k] = Fields
  BY <1>0, <1>1 DEF Shape, Elsewhere, Free, Fields
<1>3. /\ id \in Ids \cup {Nil} /\ (id \in Ids <=> req.route = "enqueue")
      /\ id \in Ids => outcome[id] = "unsent" /\ Fresh(id)
  BY <1>0, <1>1, ApiAssumption DEF QueueInv
<1>4. Shape'
  BY <1>0, <1>2, <1>3 DEF Shape, Elsewhere
<1>5. ShutdownInv'
  BY <1>0, <1>2, ApiAssumption DEF ShutdownInv, Elsewhere, Accepting
<1>6. \A i : (Fresh(i)' <=> Fresh(i)) /\ (Idle(i)' <=> Idle(i))
  BY <1>0, <1>2 DEF Fresh, Idle, Popping, Elsewhere
<1>7. QueueInv'
  BY <1>0, <1>1, <1>6 DEF QueueInv, Outcomes
<1>8. ASSUME NEW j \in Conns
      PROVE  Sender(j)' /\ Consumer(j)'
  <2>1. CASE j = k
    <3>1. id \in Ids => outcome'[id] = "unknown" /\ Fresh(id)'
      BY <1>1, <1>3, <1>6
    <3>2. Sender(j)'
      BY <1>2, <2>1, <3>1 DEF Sender
    <3>3. Consumer(j)'
      BY <1>2, <2>1, ApiAssumption DEF Consumer, Carries, Popping
    <3> QED BY <3>2, <3>3
  <2>2. CASE j # k
    <3>1. conn'[j] = conn[j] /\ Sender(j) /\ Consumer(j)
      BY <1>0, <1>2, <2>2 DEF Elsewhere, HandlerInv
    <3>2. conn[j].id \in Ids => outcome'[conn[j].id] = "unknown"
      BY <1>1, <3>1 DEF Sender
    <3>3. Sender(j)'
      BY <1>0, <1>6, <3>1, <3>2 DEF Sender
    <3>4. Consumer(j)'
      BY <1>0, <3>1 DEF Consumer, Carries, Popping
    <3> QED BY <3>3, <3>4
  <2> QED BY <2>1, <2>2
<1>9. ASSUME NEW j \in Conns \ {k}
      PROVE  Apart(k, j)' /\ Apart(j, k)'
  <2>1. /\ conn'[j] = conn[j] /\ Sender(j)
    BY <1>0, <1>2 DEF Elsewhere, HandlerInv
  <2>2. id \in Ids => conn[j].id # id
    BY <1>3, <2>1 DEF Sender
  <2> QED BY <1>2, <1>3, <2>1, <2>2, ApiAssumption DEF Apart
<1>10. ASSUME NEW i \in Conns \ {k}, NEW j \in Conns \ {k}, i # j
       PROVE  Apart(i, j)'
  <2>1. conn'[i] = conn[i] /\ conn'[j] = conn[j] /\ Apart(i, j)
    BY <1>0, <1>2, <1>10 DEF Elsewhere, HandlerInv
  <2> QED BY <2>1 DEF Apart
<1>11. SoundInv'
  BY <1>0, <1>2, ApiAssumption DEF SoundInv, Carries, Elsewhere
<1> QED BY <1>4, <1>5, <1>7, <1>8, <1>9, <1>10, <1>11 DEF ApiInv, HandlerInv

-----------------------------------------------------------------------------
(* The steps of the shutdown leave handlers and queue alone.               *)
LEMMA ProcessStep ==
  ASSUME ApiInv,
         Signal \/ Drained \/ DrainTimeout \/ ListenError \/ CloseService
  PROVE  ApiInv'
<1>0. /\ Shape /\ QueueInv /\ HandlerInv /\ ShutdownInv /\ SoundInv
      /\ UNCHANGED <<live, taken, acked, deliveries, conn, outcome, received,
                     held, written, log>>
  BY DEF ApiInv, Signal, Drained, DrainTimeout, ListenError, Stop, CloseService,
         queue, users, store
<1>1. Shape' /\ QueueInv' /\ HandlerInv' /\ SoundInv'
  BY <1>0 DEF Shape, QueueInv, HandlerInv, SoundInv, Sender, Consumer, Apart,
              Carries, Popping, Fresh, Idle
<1>2. CASE Signal
  BY <1>0, <1>1, <1>2 DEF ApiInv, Signal, ShutdownInv
<1>3. CASE Drained
  BY <1>0, <1>1, <1>3 DEF ApiInv, Drained, Stop, ShutdownInv
<1>4. CASE DrainTimeout
  BY <1>0, <1>1, <1>4 DEF ApiInv, DrainTimeout, Stop, ShutdownInv
<1>5. CASE ListenError
  BY <1>0, <1>1, <1>5 DEF ApiInv, ListenError, Stop, ShutdownInv
<1>6. CASE CloseService
  BY <1>0, <1>1, <1>6 DEF ApiInv, CloseService, ShutdownInv
<1> QED BY <1>1, <1>2, <1>3, <1>4, <1>5, <1>6 DEF ApiInv

(* The process is gone.  A crash may move messages between live and taken, *)
(* and lose some, but none that was accepted.                              *)
LEMMA VanishStep ==
  ASSUME ApiInv, Exit \/ Crash
  PROVE  ApiInv'
<1>0. /\ Shape /\ QueueInv /\ SoundInv
      /\ UNCHANGED <<acked, deliveries, outcome, received, written>>
      /\ conn' = [k \in Conns |-> Free] /\ server' = "down" /\ ~closed'
      /\ held' = {}
      /\ log' # "doubtful" => log # "doubtful"
  BY DEF ApiInv, Exit, Crash, Vanish, LeaveLog, Q!Crash, queue, users
<1>1. \A k \in Conns : /\ conn'[k].phase = "free" /\ conn'[k].id = Nil
                       /\ conn'[k].status = Nil /\ DOMAIN conn'[k] = Fields
  BY <1>0 DEF Free, Fields
<1>2. /\ live' \cup taken' \subseteq live \cup taken
      /\ live' \cap taken' = {}
      /\ (live \cup taken) \cap acked \subseteq live' \cup taken'
  <2>1. CASE Exit
    BY <1>0, <2>1 DEF Exit, queue, QueueInv
  <2>2. CASE Crash
    BY <1>0, <2>2 DEF Crash, QueueInv
  <2> QED BY <2>1, <2>2
<1>3. \A id : (Fresh(id) => Fresh(id)') /\ (Idle(id) => Idle(id)')
  BY <1>0, <1>1 DEF Fresh, Idle, Popping
<1>4. QueueInv'
  BY <1>0, <1>2, <1>3 DEF QueueInv
<1>5. ShutdownInv' /\ Shape'
  BY <1>0, <1>1, ApiAssumption DEF ShutdownInv, Shape
<1>6. HandlerInv'
  BY <1>1, ApiAssumption
     DEF HandlerInv, Sender, Consumer, Apart, Carries, Popping
<1>7. ASSUME log # "doubtful" PROVE SoundInv'
  <2>1. \A m \in acked : m \in live' \cup taken' \/ deliveries[m.id] = 1
    BY <1>0, <1>2, <1>7 DEF SoundInv
  <2>2. \A k \in Conns : ~Carries(k)'
    BY <1>1, ApiAssumption DEF Carries
  <2> QED BY <1>0, <1>2, <1>7, <2>1, <2>2 DEF SoundInv
<1>8. SoundInv'
  BY <1>0, <1>7 DEF SoundInv
<1> QED BY <1>4, <1>5, <1>6, <1>8 DEF ApiInv

(* A start: the log becomes memory, and what 500 had said is void.  A      *)
(* message of a refused request was never written, so not even a log in    *)
(* doubt can bring it up.                                                  *)
LEMMA StartStep ==
  ASSUME ApiInv, Start
  PROVE  ApiInv'
<1>0. /\ Shape /\ QueueInv /\ HandlerInv /\ ShutdownInv /\ SoundInv
      /\ UNCHANGED <<acked, deliveries, written, log, closed, conn, received>>
      /\ server = "down" /\ server' = "serving" /\ held' = live'
      /\ outcome' = [id \in Ids |-> IF outcome[id] = "failed" THEN "unknown"
                                    ELSE outcome[id]]
  BY DEF ApiInv, Start
<1>1. /\ live' \cup taken' \subseteq written /\ live' \cap taken' = {}
      /\ log # "doubtful" => live' = live /\ taken' = taken
      /\ \A k \in Conns : Popping(k) => conn[k].msg \in taken
  BY <1>0 DEF Start, QueueInv, HandlerInv, Consumer
<1>2. Shape' /\ ShutdownInv'
  BY <1>0 DEF Shape, ShutdownInv
<1>3. \A id : Fresh(id)' <=> Fresh(id)
  BY <1>0 DEF Fresh
<1>4. QueueInv'
  BY <1>0, <1>1, <1>3 DEF QueueInv, Outcomes
<1>5. HandlerInv'
  <2>1. \A k \in Conns : conn[k].phase = "free"
    BY <1>0 DEF ShutdownInv
  <2>2. \A k \in Conns : conn[k].id = Nil /\ conn[k].status = Nil
    BY <1>0, <2>1 DEF Shape
  <2> QED BY <1>0, <2>1, <2>2, ApiAssumption
          DEF HandlerInv, Sender, Consumer, Apart, Carries, Popping
<1>6. SoundInv'
  BY <1>0, <1>1 DEF SoundInv, Carries
<1> QED BY <1>2, <1>4, <1>5, <1>6 DEF ApiInv

LEMMA ApiStep == ApiInv /\ [Next]_vars => ApiInv'
<1> SUFFICES ASSUME ApiInv, [Next]_vars PROVE ApiInv'
  OBVIOUS
<1>1. ASSUME NEW k \in Conns, Handle(k) PROVE ApiInv'
  BY <1>1, QuietSteps, FragmentStep, EnqueueCommitStep, EnqueueReturnStep,
     DequeueCommitStep, DequeueReturnStep, SyncFailsStep, ReplyStep DEF Handle
<1>2. ASSUME NEW k \in Conns, HangUp(k) PROVE ApiInv'
  BY <1>2, HangUpStep
<1>3. ASSUME NEW k \in Conns, NEW req \in Requests, Send(k, req) PROVE ApiInv'
  BY <1>3, SendStep
<1>4. CASE UNCHANGED vars
  BY <1>4 DEF vars, queue, process, store, users, ApiInv, ShutdownInv, Shape,
              QueueInv, HandlerInv, SoundInv, Sender, Consumer, Apart, Carries,
              Popping, Fresh, Idle
<1> QED BY <1>1, <1>2, <1>3, <1>4, ProcessStep, VanishStep, StartStep DEF Next

LEMMA ApiInvariant == Spec => []ApiInv
BY ApiInit, ApiStep, PTL DEF Spec

-----------------------------------------------------------------------------
(* A status code is the truth: what was refused with 400, 413 or 503 is    *)
(* nowhere and never will be, what was answered 500 is in nobody's hands   *)
(* until the next start, and as long as no process has started over a log  *)
(* with a fragment in it, what was answered 201 is in the log, taken or    *)
(* delivered, and what a consumer was sent no second one gets.             *)
THEOREM StatusIsTruthTheorem == Spec => []StatusIsTruth
<1>1. ApiInv => StatusIsTruth
  <2> SUFFICES ASSUME ApiInv, NEW id \in Ids
               PROVE  /\ outcome[id] = "refused" =>
                           /\ id \notin IdsOf(live \cup taken \cup held)
                           /\ deliveries[id] = 0
                      /\ outcome[id] = "failed" =>
                           id \notin IdsOf(held) /\ deliveries[id] = 0
                      /\ log # "doubtful" =>
                           /\ outcome[id] = "accepted" =>
                                \/ id \in IdsOf(live \cup taken)
                                \/ deliveries[id] = 1
                           /\ received[id] > 0 =>
                                /\ id \notin IdsOf(live \cup taken \cup held)
                                /\ received[id] = 1
    BY DEF StatusIsTruth
  <2>1. outcome[id] = "refused" =>
          id \notin IdsOf(live \cup taken \cup held) /\ deliveries[id] = 0
    BY DEF ApiInv, QueueInv, Fresh, IdsOf
  <2>2. outcome[id] = "failed" => id \notin IdsOf(held) /\ deliveries[id] = 0
    BY DEF ApiInv, QueueInv, Idle, IdsOf
  <2>3. log # "doubtful" /\ outcome[id] = "accepted" =>
          id \in IdsOf(live \cup taken) \/ deliveries[id] = 1
    BY DEF ApiInv, QueueInv, SoundInv, IdsOf
  <2>4. log # "doubtful" /\ received[id] > 0 =>
          id \notin IdsOf(live \cup taken \cup held) /\ received[id] = 1
    BY DEF ApiInv, QueueInv, SoundInv, IdsOf
  <2> QED BY <2>1, <2>2, <2>3, <2>4
<1> QED BY <1>1, ApiInvariant, PTL

(* 503 is written only if handlers outlived the shutdown timeout or the    *)
(* listener: "Shutdown, then Close" is the right order.                    *)
THEOREM RefusedOnlyWhenForcedTheorem == Spec => []RefusedOnlyWhenForced
<1>1. ApiInv => RefusedOnlyWhenForced
  BY DEF ApiInv, ShutdownInv, RefusedOnlyWhenForced
<1> QED BY <1>1, ApiInvariant, PTL

(* A message in a dequeue's response is lost only if its client is gone,   *)
(* or the process dies or runs out of time.                                *)
THEOREM ShutdownLosesNothingTheorem == Spec => ShutdownLosesNothing
<1> DEFINE Kept(k) ==
      Carries(k) /\ conn'[k].phase = "free" =>
        \/ received'[conn[k].msg.id] = received[conn[k].msg.id] + 1
        \/ conn[k].gone
        \/ server' = "down" /\ why' \in {"crash", "timeout", "listener"}
<1>1. ASSUME ApiInv, [Next]_vars, NEW k \in Conns, Carries(k),
             conn'[k].phase = "free"
      PROVE  Kept(k)
  <2>0. /\ Shape /\ ShutdownInv /\ QueueInv /\ Consumer(k)
        /\ conn[k].phase = "reply"
    BY <1>1, ApiAssumption DEF ApiInv, HandlerInv, Consumer, Carries
  <2>1. CASE Reply(k)
    <3>1. received' = IF ~conn[k].gone
                      THEN [received EXCEPT ![conn[k].msg.id] = @ + 1]
                      ELSE received
      BY <1>1, <2>1 DEF Reply, Carries
    <3> QED BY <1>1, <2>0, <3>1 DEF QueueInv, Consumer
  <2>2. CASE Exit
    BY <2>0, <2>2 DEF Exit, Vanish, ShutdownInv
  <2>3. CASE Crash
    BY <2>3 DEF Crash, Vanish
  <2>4. CASE ~Reply(k) /\ ~Exit /\ ~Crash
    <3>1. conn'[k].phase # "free"
      <4>1. CASE \E j \in Conns : Handle(j)
        <5>1. PICK j \in Conns : Handle(j)
          BY <4>1
        <5>2. CASE j # k
          BY <2>0, <5>1, <5>2
             DEF Handle, Decode, BodyFails, EnqueueCommit, EnqueueReturn,
                 DequeueCommit, DequeueReturn, DequeueEmpty, ServiceFails,
                 SyncFails, Refuse, Inspect, Reply, Answer, Goto, Shape
        <5>3. CASE j = k
          BY <2>0, <2>4, <5>1, <5>3
             DEF Handle, Decode, BodyFails, EnqueueCommit, EnqueueReturn,
                 DequeueCommit, DequeueReturn, DequeueEmpty, ServiceFails,
                 SyncFails, Refuse, Inspect, At
        <5> QED BY <5>2, <5>3
      <4>2. CASE \E j \in Conns : HangUp(j)
        BY <2>0, <4>2 DEF HangUp, Shape, Fields
      <4>3. CASE \E j \in Conns, req \in Requests : Send(j, req)
        BY <2>0, <4>3 DEF Send, Shape
      <4>4. CASE \/ Signal \/ Drained \/ DrainTimeout \/ ListenError
                 \/ CloseService \/ Start \/ UNCHANGED vars
        BY <2>0, <4>4 DEF Signal, Drained, DrainTimeout, ListenError, Stop,
                          CloseService, Start, vars
      <4> QED BY <1>1, <2>4, <4>1, <4>2, <4>3, <4>4 DEF Next
    <3> QED BY <1>1, <3>1
  <2> QED BY <2>1, <2>2, <2>3, <2>4
<1>2. ApiInv /\ [Next]_vars => [\A k \in Conns : Kept(k)]_vars
  BY <1>1
<1> QED BY <1>2, ApiInvariant, PTL DEF Spec, ShutdownLosesNothing
=============================================================================
