---------------------------- MODULE MCWalRecover ----------------------------
(* Files of up to four chunks over seven records: two messages under one   *)
(* id, a second id, a record of an older writer, tombstones, a record      *)
(* without id, and an operation this build does not know.                  *)
EXTENDS WalRecover

Enq(n, id, s, p) ==
  [op |-> "ENQUEUE", seq |-> n, id |-> id, msgSeq |-> s,
   priority |-> p, enqueuedAt |-> 1, availableAt |-> 2]

MCRecords ==
  { Enq(1, 1, 1, 5), Enq(3, 1, 2, 7), Enq(4, 2, 1, 5),
    [op |-> "ENQUEUE", seq |-> 2, id |-> 2, msgSeq |-> 0,
     priority |-> Nil, enqueuedAt |-> Nil, availableAt |-> Nil],
    DequeueRecord(5, 1),
    Enq(6, Nil, 3, 5),
    [op |-> "LEASE", seq |-> 7, id |-> 1] }

(* A tombstone is shorter; the window holds two or three records.          *)
MCBytes(rec) == IF rec.op = "ENQUEUE" THEN 3 ELSE 2

MCLimits == -1..2
=============================================================================
