------------------------------- MODULE Engine -------------------------------
(***************************************************************************)
(* What the two heaps of pkg/engine promise, as operators on sets of       *)
(* messages: the selection rule, lazy promotion, and the candidates Pop    *)
(* may return.  FrankensteinQueue implements these with heap arrays.       *)
(***************************************************************************)
EXTENDS Model

(* readyHeap.less on (Priority, Seq).  Messages with equal priority and    *)
(* equal Seq are left unordered here; the heaps order them by arrival.     *)
Outranks(mode, a, b) ==
  \/ a.priority > b.priority
  \/ /\ a.priority = b.priority
     /\ IF mode = "LIFO" THEN a.seq > b.seq ELSE a.seq < b.seq

(* The delayed messages that promoteLocked moves to the ready heap.        *)
Matured(delayed, now) == {m \in delayed : Available(m, now)}

(* The messages Pop may take from a set of visible ones.                   *)
Best(mode, visible) ==
  {m \in visible : \A x \in visible : ~Outranks(mode, x, m)}
=============================================================================
