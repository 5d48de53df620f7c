-------------------------------- MODULE Wal --------------------------------
(***************************************************************************)
(* The log file of pkg/storage and what replaying it yields.               *)
(*                                                                         *)
(* The file is the sequence of chunks that append calls left in it.  A     *)
(* chunk is the record it came from and how much of its line is there:     *)
(*   "whole"  the JSON object and its newline                              *)
(*   "nonl"   the JSON object without its newline                          *)
(*   "torn"   a proper, non-empty prefix of the JSON object                *)
(* A line ends at a "whole" chunk or at the end of the file, so a chunk    *)
(* appended after a damaged one is glued to it: the file is opened with    *)
(* O_APPEND and Recover never truncates what it ignores.                   *)
(*                                                                         *)
(* A line made of two chunks never parses: a torn prefix leaves the outer  *)
(* object open, and a second object after a complete one is an error of    *)
(* json.Unmarshal.                                                         *)
(***************************************************************************)
EXTENDS Integers, Sequences

CONSTANT Nil  (* an absent optional field of a record (a nil pointer)      *)

ASSUME NilAssumption == Nil \notin Int

Parts == {"whole", "nonl", "torn"}

(* What can be left of a chunk that was written only in part.              *)
Fragments(part) == IF part = "whole" THEN {"nonl", "torn"} ELSE {"torn"}

Chunk(rec, part) == [rec |-> rec, part |-> part]

(* The ENQUEUE record of WriteEnqueue, stamped by appendLocked with the    *)
(* record counter n; the message's own ordering key travels as msgSeq.     *)
EnqueueRecord(n, m) ==
  [op |-> "ENQUEUE", seq |-> n, id |-> m.id, msgSeq |-> m.seq,
   priority |-> m.priority, enqueuedAt |-> m.enqueuedAt,
   availableAt |-> m.availableAt]

(* The tombstone of WriteDequeue: the envelope and the id.                 *)
DequeueRecord(n, id) == [op |-> "DEQUEUE", seq |-> n, id |-> id]

(* derefInt and derefTime: an omitted field reads as zero.                 *)
Deref(v) == IF v = Nil THEN 0 ELSE v

(* The message applyLine builds from an ENQUEUE record.  A record without  *)
(* msg_seq was written before the two counters were split.                 *)
MessageOf(rec) ==
  [id |-> rec.id,
   seq |-> IF rec.msgSeq = 0 THEN rec.seq ELSE rec.msgSeq,
   priority |-> Deref(rec.priority),
   enqueuedAt |-> Deref(rec.enqueuedAt),
   availableAt |-> Deref(rec.availableAt)]

(* Chunk i is a line of its own and parses.                                *)
Sound(f, i) ==
  /\ f[i].part # "torn"
  /\ f[i].part = "nonl" => i = Len(f)
  /\ i > 1 => f[i - 1].part = "whole"

(* A line before the last one does not parse: Recover gives up.            *)
Corrupt(f) ==
  \E i \in 2..(Len(f) - 1) : f[i].part = "whole" /\ f[i - 1].part # "whole"

(* The record on chunk i is replayed and inserts, or removes, the id.      *)
Enqueues(f, i, id) ==
  Sound(f, i) /\ f[i].rec.op = "ENQUEUE" /\ f[i].rec.id = id
Dequeues(f, i, id) ==
  Sound(f, i) /\ f[i].rec.op = "DEQUEUE" /\ f[i].rec.id = id

(* Chunk i is the record that put its id into the live set for good: no    *)
(* tombstone follows, and no earlier ENQUEUE of the id was still live.     *)
(* A record without an id (Nil) is skipped.                                *)
LiveAt(f, i) ==
  LET id == f[i].rec.id
  IN /\ Enqueues(f, i, id) /\ id # Nil
     /\ \A j \in (i + 1)..Len(f) : ~Dequeues(f, j, id)
     /\ \A k \in 1..(i - 1) :
          Enqueues(f, k, id) => \E j \in (k + 1)..(i - 1) : Dequeues(f, j, id)

(* "The live set is every ENQUEUE without a matching DEQUEUE".             *)
Live(f) == {MessageOf(f[i].rec) : i \in {j \in 1..Len(f) : LiveAt(f, j)}}

(* The record numbers that survive a replay; the next append continues     *)
(* after the largest.                                                      *)
RecordSeqs(f) == {f[i].rec.seq : i \in {j \in 1..Len(f) : Sound(f, j)}}

(* n is the largest element of S, or zero when S is empty.                 *)
IsLast(n, S) == n \in S \cup {0} /\ \A k \in S : k <= n
=============================================================================
