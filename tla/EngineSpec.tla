----------------------------- MODULE EngineSpec -----------------------------
(***************************************************************************)
(* What FrankensteinQueue promises its callers, with no heaps: two sets of *)
(* messages, the visible and the delayed ones, and for every call what it  *)
(* returns.  Each call is one step because the queue has its own mutex.    *)
(***************************************************************************)
EXTENDS Engine, Sequences, FiniteSets

CONSTANTS
  Messages,   (* the messages callers may push                             *)
  Limits      (* the limits callers may pass to Snapshot                   *)

VARIABLES
  mode,      (* fixed at construction                                      *)
  ready,     (* messages already promoted                                  *)
  delayed,   (* messages pushed and not yet promoted                       *)
  clock,     (* what callers pass as now; it never goes back               *)
  ret        (* the result of the last call                                *)

vars == <<mode, ready, delayed, clock, ret>>

None == [id |-> 0]   (* the (nil, false) of Pop and Peek                   *)

Held == ready \cup delayed
HeldIDs == {m.id : m \in Held}

Init ==
  /\ mode \in Modes
  /\ ready = {}
  /\ delayed = {}
  /\ clock = 0
  /\ ret = <<"new">>

Promoted(now) == ready \cup {m \in delayed : m.availableAt <= now}
Waiting(now) == {m \in delayed : m.availableAt > now}

(* Pushing an id already held changes nothing: the existing message wins.  *)
Push(m) ==
  /\ delayed' = IF m.id \in HeldIDs THEN delayed ELSE delayed \cup {m}
  /\ ret' = <<"push">>
  /\ UNCHANGED <<mode, ready, clock>>

(* The winner among everything visible at now leaves the queue.            *)
Pop(now) ==
  /\ delayed' = Waiting(now)
  /\ \/ /\ Promoted(now) = {}
        /\ ready' = {}
        /\ ret' = <<"pop", None>>
     \/ \E m \in Best(mode, Promoted(now)) :
          /\ ready' = Promoted(now) \ {m}
          /\ ret' = <<"pop", m>>
  /\ UNCHANGED <<mode, clock>>

Peek(now) ==
  /\ delayed' = Waiting(now)
  /\ ready' = Promoted(now)
  /\ \/ Promoted(now) = {} /\ ret' = <<"peek", None>>
     \/ \E m \in Best(mode, Promoted(now)) : ret' = <<"peek", m>>
  /\ UNCHANGED <<mode, clock>>

Length ==
  /\ ret' = <<"len", Cardinality(Held)>>
  /\ UNCHANGED <<mode, ready, delayed, clock>>

AvailableLen(now) ==
  /\ delayed' = Waiting(now)
  /\ ready' = Promoted(now)
  /\ ret' = <<"availableLen", Cardinality(Promoted(now))>>
  /\ UNCHANGED <<mode, clock>>

(* Remove takes the message with this id and no other, wherever it is.     *)
Remove(id) ==
  /\ ready' = {m \in ready : m.id # id}
  /\ delayed' = {m \in delayed : m.id # id}
  /\ ret' = <<"remove", id \in HeldIDs>>
  /\ UNCHANGED <<mode, clock>>

(* s shows the first elements of S, all of them or limit of them, in an    *)
(* order in which nothing listed or left out comes Before an earlier one.  *)
IsPage(s, S, limit, Before(_, _)) ==
  LET shown == {s[i] : i \in DOMAIN s}
  IN /\ Len(s) = IF limit > 0 /\ Cardinality(S) > limit
                 THEN limit ELSE Cardinality(S)
     /\ shown \subseteq S
     /\ Cardinality(shown) = Len(s)
     /\ \A i, j \in DOMAIN s : i < j => ~Before(s[j], s[i])
     /\ \A i \in DOMAIN s, m \in S \ shown : ~Before(m, s[i])

MaturesFirst(a, b) == a.availableAt < b.availableAt

(* Both lists and both counts come from the same instant; the counts are   *)
(* of the whole queue whatever the limit.                                  *)
Snapshot(now, limit) ==
  /\ delayed' = Waiting(now)
  /\ ready' = Promoted(now)
  /\ ret'[1] = "snapshot"
  /\ LET view == ret'[2]
         Wins(a, b) == Outranks(mode, a, b)
     IN /\ IsPage(view.ready, Promoted(now), limit, Wins)
        /\ IsPage(view.delayed, Waiting(now), limit, MaturesFirst)
        /\ view.readyLen = Cardinality(Promoted(now))
        /\ view.delayedLen = Cardinality(Waiting(now))
        /\ view.readyTruncated = (Len(view.ready) < view.readyLen)
        /\ view.delayedTruncated = (Len(view.delayed) < view.delayedLen)
  /\ UNCHANGED <<mode, clock>>

Tick ==
  /\ clock' > clock
  /\ UNCHANGED <<mode, ready, delayed, ret>>

Next ==
  \/ \E m \in Messages : Push(m) \/ Remove(m.id)
  \/ Pop(clock) \/ Peek(clock) \/ Length \/ AvailableLen(clock)
  \/ \E limit \in Limits : Snapshot(clock, limit)
  \/ Tick

Spec == Init /\ [][Next]_vars
=============================================================================
