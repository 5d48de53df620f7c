--------------------------- MODULE MCQueueService ---------------------------
(* Small instances of the service.  Goroutines and UUIDs are only compared *)
(* for equality, so both are symmetric.                                    *)
EXTENDS QueueService, TLC

Req(priority, delay) == [blank |-> FALSE, priority |-> priority, delay |-> delay]

(* Second = 1, cap 1, half range 2: a delay of 2 would wrap to -2.         *)
EdgeRequests ==
  { Req(0, 0), Req(1, 1), Req(0, 2), Req(0, -1),
    [blank |-> TRUE, priority |-> 0, delay |-> 0] }

PlainRequests == {Req(0, 0)}
DelayRequests == {Req(0, 0), Req(0, 1)}

Symmetry == Permutations(Writers) \cup Permutations(Readers) \cup Permutations(Ids)
=============================================================================
