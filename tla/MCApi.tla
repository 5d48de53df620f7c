------------------------------- MODULE MCApi -------------------------------
(* Small instances of the HTTP layer.                                      *)
EXTENDS Api

Request(route, limit, body, delay) ==
  [route |-> route, limit |-> limit, body |-> body,
   blank |-> FALSE, priority |-> 0, delay |-> delay]

Enqueue(body, delay) == Request("enqueue", Nil, body, delay)

ApiRequests ==
  { Enqueue("json", 0), Enqueue("json", 2), Enqueue("large", 0),
    Enqueue("garbage", 0), Enqueue("stalled", 0),
    Request("dequeue", Nil, "none", 0),
    Request("messages", 3, "none", 0), Request("wal", 1, "none", 0),
    Request("stats", Nil, "none", 0) }
=============================================================================
