------------------------------- MODULE Model -------------------------------
(***************************************************************************)
(* pkg/model: the message record, the queue modes, request validation and  *)
(* the arithmetic that turns a requested delay into AvailableAt.           *)
(*                                                                         *)
(* A message is [id, seq, priority, enqueuedAt, availableAt].  The payload *)
(* is opaque to the program and stands for the id; Status is always        *)
(* PENDING in this release and is left out.  Instants are integers.        *)
(***************************************************************************)
EXTENDS Integers

CONSTANTS
  Second,           (* time.Second, in clock units                         *)
  HalfRange,        (* 2^63 for the int64 behind time.Duration             *)
  MaxDelaySeconds   (* the largest accepted delay_seconds                  *)

(* What makes the cap "a correctness requirement, not a policy             *)
(* preference": the largest accepted delay fits in a time.Duration.        *)
ASSUME DelayCapAssumption ==
  /\ Second \in Nat \ {0}
  /\ HalfRange \in Nat
  /\ MaxDelaySeconds \in Nat
  /\ MaxDelaySeconds * Second < HalfRange

Modes == {"FIFO", "LIFO"}

(* int64 arithmetic: the representative of n in -HalfRange..HalfRange-1.   *)
Wrap(n) == ((n + HalfRange) % (2 * HalfRange)) - HalfRange

(* Mutant: no cap on the delay.                                            *)
ValidateWithoutCap(req) == ~req.blank /\ req.delay >= 0

(* EnqueueRequest.Validate; an empty payload is the Boolean `blank'.       *)
Validate(req) ==
  /\ ~req.blank
  /\ req.delay >= 0
  /\ req.delay <= MaxDelaySeconds

(* now.Add(time.Duration(req.DelaySeconds) * time.Second)                  *)
AvailableAt(now, delay) == now + Wrap(delay * Second)

(* Mutant: one instant early.                                              *)
AvailableEarly(m, now) == ~(now + 1 < m.availableAt)

(* Message.Available: the boundary is inclusive.                           *)
Available(m, now) == ~(now < m.availableAt)
=============================================================================
