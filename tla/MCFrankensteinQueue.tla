------------------------- MODULE MCFrankensteinQueue -------------------------
(* Four ids, two priorities, a shared Seq and two maturity times, one id   *)
(* offered with two different bodies.                                      *)
EXTENDS FrankensteinQueue

Msg(id, seq, priority, availableAt) ==
  [id |-> id, seq |-> seq, priority |-> priority,
   enqueuedAt |-> 0, availableAt |-> availableAt]

MixedMessages ==
  { Msg(1, 1, 5, 0), Msg(1, 4, 9, 1), Msg(2, 2, 5, 0),
    Msg(3, 2, 5, 1), Msg(4, 3, 9, 1) }
=============================================================================
