------------------------------ MODULE WalTail ------------------------------
(***************************************************************************)
(* WAL.Tail: the newest records of the log, read from a window of fixed    *)
(* size at its end.  A record is given by the index of its chunk.          *)
(***************************************************************************)
EXTENDS Wal, SequencesExt

CONSTANTS
  Window,      (* tailWindowBytes                                          *)
  Bytes(_),    (* the length of a record's JSON object                     *)
  Limits       (* the maxRecords callers may pass                          *)

ASSUME WindowAssumption == Window \in Nat \ {0} /\ Limits \subseteq Int

(* A torn chunk stands for the shortest one.                               *)
ChunkSize(c) ==
  CASE c.part = "whole" -> Bytes(c.rec) + 1
    [] c.part = "nonl" -> Bytes(c.rec)
    [] c.part = "torn" -> 1

(* Where chunk i begins; Offset(f, Len(f) + 1) is the size of the file.    *)
Offset(f, i) ==
  LET end[k \in 0..Len(f)] == IF k = 0 THEN 0 ELSE end[k - 1] + ChunkSize(f[k])
  IN end[i - 1]

WindowStart(f) ==
  LET size == Offset(f, Len(f) + 1)
  IN IF size > Window THEN size - Window ELSE 0

(* Mutant: the first line is dropped although the window is the file.      *)
InWindowAlwaysDropping(f, i) == Offset(f, i) > WindowStart(f)

(* The line of chunk i is read whole.  Unless the window is the file, what *)
(* comes before its first newline is dropped: a line must begin after the  *)
(* first byte of the window.                                               *)
InWindow(f, i) == WindowStart(f) > 0 => Offset(f, i) > WindowStart(f)

(* Line by line, those that are not JSON are skipped; then the newest      *)
(* `limit' are kept, and a limit that is not positive asks for all.        *)
TailOf(f, limit) ==
  LET upto[k \in 0..Len(f)] ==
        IF k = 0 THEN <<>>
        ELSE IF Sound(f, k) /\ InWindow(f, k) THEN Append(upto[k - 1], k)
        ELSE upto[k - 1]
      kept == upto[Len(f)]
      capped == limit > 0 /\ Len(kept) > limit
  IN [records |-> IF capped
                  THEN SubSeq(kept, Len(kept) - limit + 1, Len(kept))
                  ELSE kept,
      truncated |-> WindowStart(f) > 0 \/ capped]

-----------------------------------------------------------------------------
(* What GET /wal shows of f: the newest records that replay, all of them   *)
(* unless it says truncated, and the last line whenever it replays and     *)
(* fits in the window with the newline before it, however the file is      *)
(* damaged and wherever the window cuts it.                                *)
TailShowsNewest(f, limit) ==
  LET t == TailOf(f, limit)
      shown == ToSet(t.records)
      all == {i \in 1..Len(f) : Sound(f, i)}
  IN /\ shown \subseteq all
     /\ \A i \in shown, j \in all : j > i => j \in shown
     /\ \A i, j \in DOMAIN t.records : i < j => t.records[i] < t.records[j]
     /\ limit > 0 => Cardinality(shown) <= limit
     /\ ~t.truncated => shown = all
     /\ Len(f) \in all /\ ChunkSize(f[Len(f)]) < Window => Len(f) \in shown
=============================================================================
