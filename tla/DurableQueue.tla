---------------------------- MODULE DurableQueue ----------------------------
(***************************************************************************)
(* What the queue service promises its users: one set of messages, with no *)
(* log, no heaps, no lock and no goroutines.  A message is inserted, then  *)
(* accepted (its Enqueue returns); it is taken, then handed over (its      *)
(* Dequeue returns).  A crash may lose what was not accepted, and may give *)
(* back what was taken and not handed over; nothing else.                  *)
(***************************************************************************)
EXTENDS Engine

CONSTANT Ids

VARIABLES
  now,         (* the wall clock                                           *)
  mode,        (* the tie-breaking mode; each start of the server picks it *)
  live,        (* messages that can be delivered                           *)
  taken,       (* messages some Dequeue removed and did not hand over      *)
  acked,       (* messages accepted so far                                 *)
  deliveries   (* how often each id was handed over                        *)

vars == <<now, mode, live, taken, acked, deliveries>>

Init ==
  /\ now = 0
  /\ mode \in Modes
  /\ live = {} /\ taken = {} /\ acked = {}
  /\ deliveries = [id \in Ids |-> 0]

Unused(id) ==
  /\ \A m \in live \cup taken \cup acked : m.id # id
  /\ deliveries[id] = 0

(* A new message is younger than everything live and due no earlier than   *)
(* now.                                                                    *)
Insert(m) ==
  /\ Unused(m.id)
  /\ m.enqueuedAt = now
  /\ m.availableAt >= now
  /\ \A x \in live : x.seq < m.seq
  /\ live' = live \cup {m}
  /\ UNCHANGED <<now, mode, taken, acked, deliveries>>

Accept(m) ==
  /\ m \in live
  /\ acked' = acked \cup {m}
  /\ UNCHANGED <<now, mode, live, taken, deliveries>>

Due == {m \in live : m.availableAt <= now}

(* The winner of the selection rule among all messages due now.            *)
Take(m) ==
  /\ m \in Best(mode, Due)
  /\ live' = live \ {m}
  /\ taken' = taken \cup {m}
  /\ UNCHANGED <<now, mode, acked, deliveries>>

HandOver(m) ==
  /\ m \in taken
  /\ taken' = taken \ {m}
  /\ deliveries' = [deliveries EXCEPT ![m.id] = @ + 1]
  /\ UNCHANGED <<now, mode, live, acked>>

Crash ==
  /\ live \cap acked \subseteq live'
  /\ live' \subseteq live \cup taken
  /\ taken' \subseteq taken
  /\ live' \cap taken' = {}
  /\ taken \cap acked \subseteq live' \cup taken'
  /\ UNCHANGED <<now, mode, acked, deliveries>>

Reopen ==
  /\ mode' \in Modes
  /\ UNCHANGED <<now, live, taken, acked, deliveries>>

Tick ==
  /\ now' > now
  /\ UNCHANGED <<mode, live, taken, acked, deliveries>>

Next ==
  \/ \E m \in live' : Insert(m)
  \/ \E m \in live : Accept(m) \/ Take(m)
  \/ \E m \in taken : HandOver(m)
  \/ Crash \/ Reopen \/ Tick

Spec == Init /\ [][Next]_vars
=============================================================================
