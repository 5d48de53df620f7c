----------------------------- MODULE WalRecover -----------------------------
(***************************************************************************)
(* WAL.Recover, step by step: the scanner loop with its one line of        *)
(* lookahead, applyLine, and the final sort.  It runs on any file, the     *)
(* ones no version of the writer produces included (unknown operations,    *)
(* records without an id, records of an older writer, glued lines), and is *)
(* compared with the closed form Live of module Wal.                       *)
(***************************************************************************)
EXTENDS WalTail

CONSTANTS
  Records,    (* the records a line may hold                               *)
  MaxChunks   (* bound: the longest file that is replayed                  *)

ASSUME MaxChunksAssumption == MaxChunks \in Nat

(* Sequence numbers are uint64, ids strings (only their order matters); a  *)
(* line whose fields have other types is a line that does not parse.       *)
ASSUME RecordsAssumption ==
  \A r \in Records :
    /\ r.seq \in Nat
    /\ r.id \in Int \cup {Nil}
    /\ r.op = "ENQUEUE" => r.msgSeq \in Nat
    /\ Bytes(r) \in Nat \ {0}

VARIABLES
  file,      (* the log, unchanged by a replay                             *)
  pos,       (* chunks the scanner has consumed                            *)
  pending,   (* the line held back, <<first chunk, last chunk>>, or <<>>   *)
  live,      (* messages folded so far                                     *)
  maxSeq,    (* largest record number seen                                 *)
  out,       (* the returned slice                                         *)
  outcome    (* "scanning", "ok" or "corrupt"                              *)

vars == <<file, pos, pending, live, maxSeq, out, outcome>>

Files == UNION {[1..n -> [rec : Records, part : Parts]] : n \in 0..MaxChunks}

Init ==
  /\ file \in Files
  /\ pos = 0
  /\ pending = <<>>
  /\ live = {}
  /\ maxSeq = 0
  /\ out = <<>>
  /\ outcome = "scanning"

-----------------------------------------------------------------------------
(* The last chunk of the line that starts after chunk p.                   *)
LineEnd(p) ==
  CHOOSE e \in (p + 1)..Len(file) :
    /\ e = Len(file) \/ file[e].part = "whole"
    /\ \A k \in (p + 1)..(e - 1) : file[k].part # "whole"

(* json.Unmarshal accepts the line: one chunk, and all of it.              *)
Parses(line) == line[1] = line[2] /\ file[line[1]].part # "torn"

(* Mutant: a second ENQUEUE of a live id replaces the first.               *)
FoldLastWins(rec) ==
  CASE rec.op = "ENQUEUE" /\ rec.id # Nil ->
         {m \in live : m.id # rec.id} \cup {MessageOf(rec)}
    [] rec.op = "DEQUEUE" /\ rec.id # Nil -> {m \in live : m.id # rec.id}
    [] OTHER -> live

(* What the operation of a record does to the live messages.               *)
Fold(rec) ==
  CASE rec.op = "ENQUEUE" /\ rec.id # Nil /\ (\A m \in live : m.id # rec.id) ->
         live \cup {MessageOf(rec)}
    [] rec.op = "DEQUEUE" /\ rec.id # Nil -> {m \in live : m.id # rec.id}
    [] OTHER -> live

ApplyLine(line) ==
  LET rec == file[line[1]].rec
  IN /\ maxSeq' = IF rec.seq > maxSeq THEN rec.seq ELSE maxSeq
     /\ live' = Fold(rec)

(* Mutant: a line that does not parse is skipped wherever it is.           *)
ScanSkipping ==
  /\ outcome = "scanning"
  /\ pos < Len(file)
  /\ IF pending = <<>> \/ ~Parses(pending)
     THEN UNCHANGED <<live, maxSeq>> ELSE ApplyLine(pending)
  /\ pending' = <<pos + 1, LineEnd(pos)>>
  /\ pos' = LineEnd(pos)
  /\ UNCHANGED <<file, out, outcome>>

(* scanner.Scan returns a line: the one held back must now be good.        *)
Scan ==
  /\ outcome = "scanning"
  /\ pos < Len(file)
  /\ \/ /\ pending # <<>> => Parses(pending)
        /\ IF pending = <<>> THEN UNCHANGED <<live, maxSeq>> ELSE ApplyLine(pending)
        /\ pending' = <<pos + 1, LineEnd(pos)>>
        /\ pos' = LineEnd(pos)
        /\ UNCHANGED outcome
     \/ /\ pending # <<>> /\ ~Parses(pending)
        /\ outcome' = "corrupt"
        /\ UNCHANGED <<pos, pending, live, maxSeq>>
  /\ UNCHANGED <<file, out>>

SeqThenID(a, b) == a.seq < b.seq \/ (a.seq = b.seq /\ a.id < b.id)
Ascending(s) == \A i, j \in DOMAIN s : i < j => SeqThenID(s[i], s[j])

(* slices.SortFunc over the collected messages.                            *)
Sorted(messages) == CHOOSE s \in SetToSeqs(messages) : Ascending(s)

(* End of file: the last line is applied if it parses and ignored if not.  *)
Finish ==
  /\ outcome = "scanning"
  /\ pos = Len(file)
  /\ IF pending # <<>> /\ Parses(pending)
     THEN ApplyLine(pending) ELSE UNCHANGED <<live, maxSeq>>
  /\ out' = Sorted(live')
  /\ outcome' = "ok"
  /\ UNCHANGED <<file, pos, pending>>

Done == outcome # "scanning" /\ UNCHANGED vars

Next == Scan \/ Finish \/ Done

Spec == Init /\ [][Next]_vars

-----------------------------------------------------------------------------
(* The fold computes the closed form: when Recover succeeds it returns     *)
(* exactly the ENQUEUEs without a matching DEQUEUE, in (seq, id) order,    *)
(* and leaves the record counter at the largest record number replayed,    *)
(* so duplicate, orphan, unknown and pre-split records are all harmless.   *)
RecoverReturnsLive ==
  outcome = "ok" =>
    /\ ToSet(out) = Live(file)
    /\ Ascending(out)
    /\ IsLast(maxSeq, RecordSeqs(file))

(* One line of lookahead separates a torn tail from mid-file corruption:   *)
(* Recover fails exactly when a line before the last one does not parse.   *)
FailsOnlyOnCorruption ==
  /\ outcome = "corrupt" => Corrupt(file)
  /\ outcome = "ok" => ~Corrupt(file)

(* Every file is also read from its end, with and without a limit: Tail    *)
(* shows the newest records that replay (TailShowsNewest).                 *)
TailIsNewest == \A limit \in Limits : TailShowsNewest(file, limit)
=============================================================================
