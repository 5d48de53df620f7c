------------------------------ MODULE MCWorker ------------------------------
(* The script of cmd/client against small backlogs; one unit is 250 ms.    *)
EXTENDS Worker

Job(priority, delay) == [priority |-> priority, delay |-> delay]

CheckoutScript == <<Job(1, 0), Job(5, 0), Job(10, 8), Job(5, 0), Job(10, 4)>>

(* One more with the backoff of the last and a lower priority: both can    *)
(* end during one call.                                                    *)
PairedScript == Append(CheckoutScript, Job(5, 4))

(* Another producer's message, due since before the worker started.        *)
Foreign(i, priority) ==
  [id |-> -i, seq |-> i, priority |-> priority,
   enqueuedAt |-> 0, availableAt |-> 0]

ShortBacklogs == {{}, {Foreign(1, 7)}, {Foreign(1, 0)}}
LongBacklog == {{Foreign(i, 7) : i \in 1..6}}
=============================================================================
