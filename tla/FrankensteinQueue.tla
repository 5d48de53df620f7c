-------------------------- MODULE FrankensteinQueue --------------------------
(***************************************************************************)
(* pkg/engine as it is built: two container/heap arrays of items, the      *)
(* index every item keeps for removal from the middle, the ID map and the  *)
(* arrival counter.  A call is one step (the queue's own mutex); callers   *)
(* pass a clock that does not go backwards, as the type's contract asks.   *)
(*                                                                         *)
(* Array positions count from 1, so the parent of j is j \div 2 and the    *)
(* children of i are 2i and 2i+1 (container/heap counts from 0).           *)
(***************************************************************************)
EXTENDS Engine, Sequences, FiniteSets

CONSTANTS
  Messages,   (* the messages callers may push; every id occurs here       *)
  Limits,     (* the limits callers may pass to Snapshot                   *)
  MaxTime,    (* bound: the last instant of the clock                      *)
  MaxOrder    (* bound: pushes that take effect                            *)

ASSUME BoundsAssumption == MaxTime \in Nat /\ MaxOrder \in Nat

ASSUME MessagesAssumption ==
  /\ \A m \in Messages : {m.seq, m.priority, m.availableAt} \subseteq Int
  /\ Limits \subseteq Int

VARIABLES
  q,       (* the FrankensteinQueue                                        *)
  clock,   (* the callers' clock                                           *)
  ret      (* the result of the last call                                  *)

vars == <<q, clock, ret>>

IDs == {m.id : m \in Messages}
None == [id |-> 0]

(* An item that is in no heap, as far as anyone can still tell.            *)
NoItem == [msg |-> None, order |-> 0, loc |-> "none", index |-> 0]

(* NewFrankensteinQueue: q.ready and q.delayed hold ids, q.item what the   *)
(* id's item holds, q.byID the keys of the map.                            *)
NewQueue(mode) ==
  [mode |-> mode, ready |-> <<>>, delayed |-> <<>>, byID |-> {},
   item |-> [id \in IDs |-> NoItem], nextOrder |-> 0]

-----------------------------------------------------------------------------
(* The comparators, total because arrival breaks the last tie.             *)
ReadyLess(mode, a, b) ==
  \/ Outranks(mode, a.msg, b.msg)
  \/ /\ a.msg.priority = b.msg.priority
     /\ a.msg.seq = b.msg.seq
     /\ IF mode = "LIFO" THEN a.order > b.order ELSE a.order < b.order

DelayedLess(a, b) ==
  \/ a.msg.availableAt < b.msg.availableAt
  \/ a.msg.availableAt = b.msg.availableAt /\ a.order < b.order

(* h is "ready" or "delayed", the heap and the location it stands for.     *)
ItemLess(s, h, a, b) ==
  IF h = "ready" THEN ReadyLess(s.mode, s.item[a], s.item[b])
                 ELSE DelayedLess(s.item[a], s.item[b])

Less(s, h, i, j) == ItemLess(s, h, s[h][i], s[h][j])

(* Mutant: a Swap that forgets the indices.                                *)
SwapWithoutIndex(s, h, i, j) ==
  [s EXCEPT ![h] = [@ EXCEPT ![i] = s[h][j], ![j] = s[h][i]]]

Swap(s, h, i, j) ==
  [s EXCEPT ![h] = [@ EXCEPT ![i] = s[h][j], ![j] = s[h][i]],
            !.item = [@ EXCEPT ![s[h][i]].index = j, ![s[h][j]].index = i]]

(* The Push method of a heap: append, and record where the item is.        *)
PushItem(s, h, id) ==
  [s EXCEPT ![h] = Append(@, id),
            !.item[id].loc = h, !.item[id].index = Len(s[h]) + 1]

(* The Pop method of a heap: cut off the last slot.                        *)
PopItem(s, h) ==
  LET n == Len(s[h])
  IN [s EXCEPT ![h] = SubSeq(@, 1, n - 1), !.item[s[h][n]].index = 0]

-----------------------------------------------------------------------------
(* container/heap.  A loop is a recursive function of the number of its    *)
(* rounds, and a round that would leave the loop changes nothing.  `at' is *)
(* the slot the sifted item has reached.                                   *)
UpRound(r, h) ==
  LET i == r.at \div 2
  IN IF r.at = 1 \/ ~Less(r.q, h, r.at, i) THEN r
     ELSE [q |-> Swap(r.q, h, i, r.at), at |-> i]

Up(s, h, j) ==
  LET run[k \in Nat] ==
        IF k = 0 THEN [q |-> s, at |-> j] ELSE UpRound(run[k - 1], h)
  IN run[j].q

(* down over the first n slots.                                            *)
DownRound(r, h, n) ==
  LET l == 2 * r.at
      j == IF l < n /\ Less(r.q, h, l + 1, l) THEN l + 1 ELSE l
  IN IF l > n \/ ~Less(r.q, h, j, r.at) THEN r
     ELSE [q |-> Swap(r.q, h, r.at, j), at |-> j]

Down(s, h, i, n) ==
  LET run[k \in Nat] ==
        IF k = 0 THEN [q |-> s, at |-> i] ELSE DownRound(run[k - 1], h, n)
  IN run[n]

HeapPush(s, h, id) == Up(PushItem(s, h, id), h, Len(s[h]) + 1)

HeapPop(s, h) ==
  LET n == Len(s[h])
  IN PopItem(Down(Swap(s, h, 1, n), h, 1, n - 1).q, h)

(* The last item replaces the removed one and moves down, or else up.      *)
HeapRemove(s, h, i) ==
  LET n == Len(s[h])
      swapped == Swap(s, h, i, n)
      sunk == Down(swapped, h, i, n - 1)
      fixed == IF sunk.at > i THEN sunk.q ELSE Up(sunk.q, h, i)
  IN PopItem(IF i = n THEN s ELSE fixed, h)

-----------------------------------------------------------------------------
(* Drop the id from the map; its item is garbage once no heap holds it.    *)
Delete(s, id) ==
  [s EXCEPT !.byID = @ \ {id}, !.item[id] = NoItem]

(* The top of the delayed heap moves to the ready heap if it has matured.  *)
PromoteRound(s, now) ==
  IF s.delayed = <<>> \/ ~Available(s.item[s.delayed[1]].msg, now) THEN s
  ELSE HeapPush(HeapPop(s, "delayed"), "ready", s.delayed[1])

(* Mutant: promotion stops after the first matured message.                *)
PromoteOne(s, now) == PromoteRound(s, now)

PromoteLocked(s, now) ==
  LET run[k \in Nat] == IF k = 0 THEN s ELSE PromoteRound(run[k - 1], now)
  IN run[Len(s.delayed)]

Push(m) ==
  /\ \/ /\ m.id \in q.byID
        /\ UNCHANGED q
     \/ /\ m.id \notin q.byID
        /\ q.nextOrder < MaxOrder
        /\ LET it == [NoItem EXCEPT !.msg = m, !.order = q.nextOrder]
           IN q' = [HeapPush([q EXCEPT !.item[m.id] = it], "delayed", m.id)
                      EXCEPT !.byID = @ \cup {m.id}, !.nextOrder = @ + 1]
  /\ ret' = <<"push">>
  /\ UNCHANGED clock

Pop(now) ==
  LET p == PromoteLocked(q, now)
  IN /\ \/ /\ p.ready = <<>>
           /\ q' = p
           /\ ret' = <<"pop", None>>
        \/ /\ p.ready # <<>>
           /\ q' = Delete(HeapPop(p, "ready"), p.ready[1])
           /\ ret' = <<"pop", p.item[p.ready[1]].msg>>
     /\ UNCHANGED clock

Peek(now) ==
  LET p == PromoteLocked(q, now)
  IN /\ q' = p
     /\ ret' = <<"peek", IF p.ready = <<>> THEN None ELSE p.item[p.ready[1]].msg>>
     /\ UNCHANGED clock

(* Len counts the map, not the heaps.                                      *)
Length ==
  /\ ret' = <<"len", Cardinality(q.byID)>>
  /\ UNCHANGED <<q, clock>>

AvailableLen(now) ==
  LET p == PromoteLocked(q, now)
  IN /\ q' = p
     /\ ret' = <<"availableLen", Len(p.ready)>>
     /\ UNCHANGED clock

Remove(id) ==
  /\ \/ /\ id \notin q.byID
        /\ UNCHANGED q
     \/ /\ id \in q.byID
        /\ q' = Delete(HeapRemove(q, q.item[id].loc, q.item[id].index), id)
  /\ ret' = <<"remove", id \in q.byID>>
  /\ UNCHANGED clock

(* orderedMessages: the items of one heap sorted by its comparator; the    *)
(* heap array is left as it is.                                            *)
Sorted(s, h) ==
  LET IsSortedBy(f) == \A i, j \in DOMAIN f : i < j => ItemLess(s, h, f[i], f[j])
      held == {s[h][i] : i \in DOMAIN s[h]}
  IN CHOOSE f \in [DOMAIN s[h] -> held] : IsSortedBy(f)

(* Mutant: the heap array is shown as it lies.                             *)
UnsortedMessages(s, h, limit) ==
  LET all == [i \in DOMAIN s[h] |-> s.item[s[h][i]].msg]
  IN IF limit > 0 /\ Len(all) > limit THEN SubSeq(all, 1, limit) ELSE all

OrderedMessages(s, h, limit) ==
  LET all == [i \in DOMAIN s[h] |-> s.item[Sorted(s, h)[i]].msg]
  IN IF limit > 0 /\ Len(all) > limit THEN SubSeq(all, 1, limit) ELSE all

Snapshot(now, limit) ==
  LET p == PromoteLocked(q, now)
  IN /\ q' = p
     /\ ret' = <<"snapshot",
          [ready |-> OrderedMessages(p, "ready", limit),
           delayed |-> OrderedMessages(p, "delayed", limit),
           readyTruncated |-> limit > 0 /\ Len(p.ready) > limit,
           delayedTruncated |-> limit > 0 /\ Len(p.delayed) > limit,
           readyLen |-> Len(p.ready),
           delayedLen |-> Len(p.delayed)]>>
     /\ UNCHANGED clock

Tick ==
  /\ clock < MaxTime
  /\ clock' = clock + 1
  /\ UNCHANGED <<q, ret>>

Init ==
  /\ q \in {NewQueue(mode) : mode \in Modes}
  /\ clock = 0
  /\ ret = <<"new">>

Next ==
  \/ \E m \in Messages : Push(m)
  \/ \E id \in IDs : Remove(id)
  \/ Pop(clock)
  \/ Peek(clock)
  \/ Length
  \/ AvailableLen(clock)
  \/ \E limit \in Limits : Snapshot(clock, limit)
  \/ Tick

Spec == Init /\ [][Next]_vars

-----------------------------------------------------------------------------
HeldBy(h) == {q.item[q[h][i]].msg : i \in DOMAIN q[h]}

(* The two heaps, seen as sets of messages, do what EngineSpec promises:   *)
(* every Pop, Peek, count, removal and snapshot returns what the selection *)
(* rule over the whole set prescribes, for any earlier sequence of calls.  *)
Abstract == INSTANCE EngineSpec
  WITH mode <- q.mode, ready <- HeldBy("ready"), delayed <- HeldBy("delayed")

ImplementsEngineSpec == Abstract!Spec

(* The bookkeeping that makes removal from the middle possible never goes  *)
(* stale: every item in a heap array knows its heap and its slot there, no *)
(* id is in two slots, the ID map holds exactly the ids in the two arrays, *)
(* and both arrays are heaps after any mix of pushes, pops and removals.   *)
HeapIntegrity ==
  /\ \A h \in {"ready", "delayed"} : \A i \in DOMAIN q[h] :
       /\ q.item[q[h][i]].loc = h
       /\ q.item[q[h][i]].index = i
       /\ i > 1 => ~Less(q, h, i, i \div 2)
  /\ q.byID = {q.ready[i] : i \in DOMAIN q.ready}
                \cup {q.delayed[i] : i \in DOMAIN q.delayed}

(* Repeated heap pops on a copy of the queue, with the clock standing.     *)
PopTop(s, h) ==
  IF s[h] = <<>> THEN s ELSE Delete(HeapPop(s, h), s[h][1])

Drain(s, h) ==
  LET rest[k \in Nat] == IF k = 0 THEN s ELSE PopTop(rest[k - 1], h)
  IN [k \in 1..Len(s[h]) |-> rest[k - 1].item[rest[k - 1][h][1]].msg]

(* "Ready holds visible messages in the exact order Pop would return them" *)
(* (View): sorting the heap array gives the order repeated Pops give, ties *)
(* on Seq included.                                                        *)
SnapshotIsDrainOrder ==
  OrderedMessages(PromoteLocked(q, clock), "ready", 0)
    = Drain(PromoteLocked(q, clock), "ready")
=============================================================================
