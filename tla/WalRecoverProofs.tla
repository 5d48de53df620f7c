-------------------------- MODULE WalRecoverProofs --------------------------
(***************************************************************************)
(* WAL.Recover is correct on every file, of any length and with records of *)
(* any kind: the fold over the lines computes the closed form Live, the    *)
(* sort puts it in (seq, id) order, and the scan fails exactly on files    *)
(* that are damaged before their last line.  WAL.Tail shows the newest     *)
(* records of every file, for any window and limit.                        *)
(***************************************************************************)
EXTENDS WalRecover, FiniteSetTheorems, SequenceTheorems, WellFoundedInduction,
        TLAPS

-----------------------------------------------------------------------------
(* A sequence of all elements of a finite set, each once, holds exactly    *)
(* the set.                                                                *)
LEMMA SeqsCover ==
  ASSUME NEW S, IsFiniteSet(S), NEW s \in SetToSeqs(S)
  PROVE  ToSet(s) = S
<1> DEFINE D == 1..Cardinality(S)
<1>1. Cardinality(S) \in Nat
  BY FS_CardinalityType
<1>2. IsFiniteSet(D) /\ Cardinality(D) = Cardinality(S)
  BY <1>1, FS_Interval
<1>3. s \in Injection(D, S)
  BY DEF SetToSeqs, Injection, IsInjective
<1>4. s \in Surjection(D, S)
  BY <1>2, <1>3, FS_Injection
<1> QED BY <1>3, <1>4 DEF ToSet, Surjection, Injection

(* (seq, id) is a strict total order on messages with different ids, so    *)
(* the sort has a result.  The place of a message is the number of those   *)
(* that do not follow it.                                                  *)
LEMMA SortExists ==
  ASSUME NEW S, IsFiniteSet(S),
         \A m \in S : m.seq \in Nat /\ m.id \in Int,
         \A m, x \in S : m.id = x.id => m = x
  PROVE  \E s \in SetToSeqs(S) : Ascending(s)
<1> DEFINE Upto(x) == {y \in S : y = x \/ SeqThenID(y, x)}
           n == Cardinality(S)
           Rank == [x \in S |-> Cardinality(Upto(x))]
           s == [i \in 1..n |-> CHOOSE x \in S : Rank[x] = i]
<1>0. n \in Nat
  BY FS_CardinalityType
<1>1. ASSUME NEW x \in S, NEW y \in S
      PROVE  x = y \/ SeqThenID(x, y) \/ SeqThenID(y, x)
  BY DEF SeqThenID
<1>2. ASSUME NEW x \in S
      PROVE  /\ IsFiniteSet(Upto(x))
             /\ Cardinality(Upto(x)) \in 1..n
  <2>1. Upto(x) \in SUBSET S /\ x \in Upto(x)
    OBVIOUS
  <2>2. /\ IsFiniteSet(Upto(x)) /\ Cardinality(Upto(x)) <= n
    BY <2>1, FS_Subset
  <2>3. Cardinality(Upto(x)) \in Nat /\ Cardinality(Upto(x)) # 0
    BY <2>1, <2>2, FS_CardinalityType, FS_EmptySet
  <2> HIDE DEF Upto, n
  <2> QED BY <1>0, <2>2, <2>3
<1>3. ASSUME NEW x \in S, NEW y \in S, SeqThenID(x, y)
      PROVE  Rank[x] < Rank[y]
  <2>1. Upto(x) \in SUBSET Upto(y)
    BY <1>3 DEF SeqThenID
  <2>2. y \in Upto(y) /\ y \notin Upto(x)
    BY <1>3 DEF SeqThenID
  <2>3. /\ Cardinality(Upto(x)) <= Cardinality(Upto(y))
        /\ Cardinality(Upto(x)) # Cardinality(Upto(y))
    BY <1>2, <2>1, <2>2, FS_Subset
  <2>4. Cardinality(Upto(x)) \in 1..n /\ Cardinality(Upto(y)) \in 1..n
    BY <1>2
  <2> HIDE DEF Upto, n
  <2> QED BY <1>0, <2>3, <2>4
<1>4. Rank \in [S -> 1..n]
  BY <1>2
<1> HIDE DEF Rank, Upto
<1>5. Rank \in Injection(S, 1..n)
  <2>1. ASSUME NEW x \in S, NEW y \in S, Rank[x] = Rank[y]
        PROVE  x = y
    BY <1>0, <1>1, <1>3, <1>4, <2>1
  <2> QED BY <1>4, <2>1 DEF Injection, IsInjective
<1>6. Rank \in Surjection(S, 1..n)
  <2>1. IsFiniteSet(1..n) /\ Cardinality(1..n) = n
    BY <1>0, FS_Interval
  <2> QED BY <1>5, <2>1, FS_Injection
<1>7. ASSUME NEW i \in 1..n
      PROVE  s[i] \in S /\ Rank[s[i]] = i
  <2>1. \E x \in S : Rank[x] = i
    BY <1>6 DEF Surjection
  <2> QED BY <2>1
<1> HIDE DEF s, n
<1>8. s \in SetToSeqs(S)
  <2>1. s \in [1..n -> S]
    BY <1>7 DEF s
  <2> QED BY <1>7, <2>1 DEF SetToSeqs, n
<1>9. ASSUME NEW i \in 1..n, NEW j \in 1..n, i < j
      PROVE  SeqThenID(s[i], s[j])
  <2>1. s[i] \in S /\ s[j] \in S /\ Rank[s[i]] = i /\ Rank[s[j]] = j
    BY <1>7
  <2>2. s[i] # s[j] /\ ~SeqThenID(s[j], s[i])
    BY <1>0, <1>3, <1>9, <2>1
  <2> QED BY <1>1, <2>1, <2>2
<1>10. DOMAIN s = 1..n
  BY DEF s
<1> QED BY <1>8, <1>9, <1>10 DEF Ascending

(* What slices.SortFunc returns: all the messages, in order.               *)
LEMMA SortedFacts ==
  ASSUME NEW S, IsFiniteSet(S),
         \A m \in S : m.seq \in Nat /\ m.id \in Int,
         \A m, x \in S : m.id = x.id => m = x
  PROVE  ToSet(Sorted(S)) = S /\ Ascending(Sorted(S))
<1>1. \E s \in SetToSeqs(S) : Ascending(s)
  BY SortExists
<1>2. Sorted(S) \in SetToSeqs(S) /\ Ascending(Sorted(S))
  BY <1>1 DEF Sorted
<1> QED BY <1>2, SeqsCover

-----------------------------------------------------------------------------
(* A non-empty set of naturals has a least element.                        *)
LEMMA LeastNatural ==
  ASSUME NEW T \in SUBSET Nat, T # {}
  PROVE  \E x \in T : \A y \in T : x <= y
<1> DEFINE R == {p \in Nat \X Nat : p[1] < p[2]}
<1>1. IsWellFoundedOn(R, Nat)
  BY NatLessThanWellFounded DEF OpToRel
<1>2. \A x, y \in Nat : y < x => <<y, x>> \in R
  OBVIOUS
<1> HIDE DEF R
<1>3. PICK x \in T : \A y \in T : ~(<<y, x>> \in R)
  BY <1>1, WFMin
<1>4. \A y \in T : ~(y < x)
  BY <1>2, <1>3
<1> QED BY <1>3, <1>4

Chunks == [rec : Records, part : Parts]
Logs == Seq(Chunks)

LEMMA FilesAreLogs == Files \subseteq Logs
<1> SUFFICES ASSUME NEW n \in 0..MaxChunks,
                    NEW f \in [1..n -> Chunks]
             PROVE  f \in Logs
  BY DEF Files, Chunks
<1>1. n \in Nat
  BY MaxChunksAssumption
<1> QED BY <1>1, SeqDef DEF Logs

LEMMA ChunkType ==
  ASSUME NEW f \in Logs, NEW i \in 1..Len(f)
  PROVE  f[i].rec \in Records /\ f[i].part \in Parts
<1>1. f[i] \in Chunks
  BY DEF Logs
<1> QED BY <1>1 DEF Chunks

(* Before the end of the file there is always a next line, and it ends at  *)
(* the first newline.                                                      *)
LEMMA LineEndFacts ==
  ASSUME file \in Logs, NEW p \in 0..(Len(file) - 1)
  PROVE  /\ LineEnd(p) \in (p + 1)..Len(file)
         /\ LineEnd(p) = Len(file) \/ file[LineEnd(p)].part = "whole"
         /\ \A k \in (p + 1)..(LineEnd(p) - 1) : file[k].part # "whole"
<1> DEFINE Ends == {e \in (p + 1)..Len(file) :
                      e = Len(file) \/ file[e].part = "whole"}
<1>0. Len(file) \in Nat
  BY DEF Logs
<1>1. Len(file) \in Ends /\ Ends \subseteq Nat
  BY <1>0
<1>2. PICK e \in Ends : \A y \in Ends : e <= y
  BY <1>1, LeastNatural
<1>3. \A k \in (p + 1)..(e - 1) : file[k].part # "whole"
  BY <1>0, <1>2
<1> QED BY <1>2, <1>3 DEF LineEnd

-----------------------------------------------------------------------------
(* The fold after n records, as a closed form that does not look at later  *)
(* chunks (module Wal's Sound does, at the last one).                      *)
Inserts(f, i) == f[i].rec.op = "ENQUEUE" /\ f[i].rec.id # Nil
Removed(f, k, n) ==
  \E j \in (k + 1)..n : f[j].rec.op = "DEQUEUE" /\ f[j].rec.id = f[k].rec.id
Holds(f, i, n) ==
  /\ Inserts(f, i) /\ ~Removed(f, i, n)
  /\ \A k \in 1..(i - 1) :
       Inserts(f, k) /\ f[k].rec.id = f[i].rec.id => Removed(f, k, i - 1)
Standing(f, n) == {i \in 1..n : Holds(f, i, n)}

(* live and maxSeq are what the first n records make of them; and an       *)
(* ENQUEUE that is not removed is represented by one that stands, itself   *)
(* or an earlier one of the same id.                                       *)
Folded(f, n, messages, last) ==
  /\ messages = {MessageOf(f[i].rec) : i \in Standing(f, n)}
  /\ \A k \in 1..n : Inserts(f, k) =>
       Removed(f, k, n) \/ \E i \in Standing(f, n) : f[i].rec.id = f[k].rec.id
  /\ IsLast(last, {f[i].rec.seq : i \in 1..n})

LEMMA FoldedNothing ==
  ASSUME NEW f \in Logs
  PROVE  Folded(f, 0, {}, 0)
BY DEF Folded, Standing, IsLast

(* At most one record of an id stands.                                     *)
LEMMA StandingUnique ==
  ASSUME NEW f \in Logs, NEW n \in 0..Len(f),
         NEW i \in Standing(f, n), NEW j \in Standing(f, n),
         f[i].rec.id = f[j].rec.id
  PROVE  i = j
<1>1. ASSUME NEW a \in Standing(f, n), NEW b \in Standing(f, n), a < b,
             f[a].rec.id = f[b].rec.id
      PROVE  FALSE
  <2>1. Removed(f, a, b - 1)
    BY <1>1 DEF Standing, Holds
  <2>2. Removed(f, a, n)
    BY <2>1 DEF Removed, Standing, Logs
  <2> QED BY <2>2 DEF Standing, Holds
<1> QED BY <1>1 DEF Standing, Logs

(* One more record leaves the standing ones alone, except that a tombstone *)
(* removes those of its id, and stands itself if it inserts an id of which *)
(* no record stands.                                                       *)
LEMMA StandingStep ==
  ASSUME NEW f \in Logs, NEW n \in 0..(Len(f) - 1),
         \A k \in 1..n : Inserts(f, k) =>
           \/ Removed(f, k, n)
           \/ \E i \in Standing(f, n) : f[i].rec.id = f[k].rec.id
  PROVE  LET r == f[n + 1].rec
             gone(i) == r.op = "DEQUEUE" /\ r.id = f[i].rec.id
         IN /\ \A k \in 1..n : Removed(f, k, n + 1) <=> Removed(f, k, n) \/ gone(k)
            /\ \A i \in 1..n : i \in Standing(f, n + 1)
                 <=> i \in Standing(f, n) /\ ~gone(i)
            /\ n + 1 \in Standing(f, n + 1) <=>
                 /\ Inserts(f, n + 1)
                 /\ \A i \in Standing(f, n) : f[i].rec.id # r.id
            /\ Standing(f, n + 1) \subseteq 1..n \cup {n + 1}
            /\ Standing(f, n) \subseteq 1..n
<1> DEFINE r == f[n + 1].rec
           gone(i) == r.op = "DEQUEUE" /\ r.id = f[i].rec.id
<1>0. Len(f) \in Nat /\ n \in Nat
  BY DEF Logs
<1>1. ASSUME NEW k \in 1..n
      PROVE  Removed(f, k, n + 1) <=> Removed(f, k, n) \/ gone(k)
  <2>1. (k + 1)..(n + 1) = (k + 1)..n \cup {n + 1}
    BY <1>0
  <2> QED BY <2>1 DEF Removed
<1>2. ASSUME NEW i \in 1..n
      PROVE  i \in Standing(f, n + 1) <=> i \in Standing(f, n) /\ ~gone(i)
  BY <1>0, <1>1 DEF Standing, Holds
<1>3. ~Removed(f, n + 1, n + 1)
  BY <1>0 DEF Removed
<1>4. n + 1 \in Standing(f, n + 1) <=>
        /\ Inserts(f, n + 1)
        /\ \A k \in 1..n :
             Inserts(f, k) /\ f[k].rec.id = r.id => Removed(f, k, n)
  BY <1>0, <1>3 DEF Standing, Holds
<1>5. (\A k \in 1..n :
         Inserts(f, k) /\ f[k].rec.id = r.id => Removed(f, k, n))
      <=> \A i \in Standing(f, n) : f[i].rec.id # r.id
  BY DEF Standing, Holds
<1>6. /\ Standing(f, n + 1) \subseteq 1..n \cup {n + 1}
      /\ Standing(f, n) \subseteq 1..n
  BY <1>0 DEF Standing
<1> QED BY <1>1, <1>2, <1>4, <1>5, <1>6

(* applyLine folds one more record.                                        *)
LEMMA FoldStep ==
  ASSUME NEW f \in Logs, NEW n \in 0..(Len(f) - 1), NEW last \in Nat,
         Folded(f, n, live, last)
  PROVE  LET r == f[n + 1].rec
         IN Folded(f, n + 1, Fold(r), IF r.seq > last THEN r.seq ELSE last)
<1> DEFINE r == f[n + 1].rec
           gone(i) == r.op = "DEQUEUE" /\ r.id = f[i].rec.id
           here == {i \in Standing(f, n) : f[i].rec.id = r.id}
           after == Fold(r)
<1>0. Len(f) \in Nat /\ n \in Nat /\ n + 1 \in 1..Len(f)
  BY DEF Logs
<1>1. /\ \A k \in 1..n : Removed(f, k, n + 1) <=> Removed(f, k, n) \/ gone(k)
      /\ \A i \in 1..n : i \in Standing(f, n + 1)
           <=> i \in Standing(f, n) /\ ~gone(i)
      /\ n + 1 \in Standing(f, n + 1) <=> Inserts(f, n + 1) /\ here = {}
      /\ Standing(f, n + 1) \subseteq 1..n \cup {n + 1}
      /\ Standing(f, n) \subseteq 1..n
  BY StandingStep DEF Folded
<1>2. \A i \in Standing(f, n) : f[i].rec.id # Nil
  BY DEF Standing, Holds, Inserts
<1>3. live = {MessageOf(f[i].rec) : i \in Standing(f, n)}
  BY DEF Folded
<1>4. \A rec : MessageOf(rec).id = rec.id
  BY DEF MessageOf
<1>5. (\A m \in live : m.id # r.id) <=> here = {}
  BY <1>3, <1>4
<1>6. after = {MessageOf(f[i].rec) : i \in Standing(f, n + 1)}
  <2>1. CASE Inserts(f, n + 1) /\ here = {}
    <3>1. Standing(f, n + 1) = Standing(f, n) \cup {n + 1}
      BY <1>1, <2>1 DEF Inserts
    <3>2. after = live \cup {MessageOf(r)}
      BY <1>5, <2>1 DEF Fold, Inserts
    <3> QED BY <1>3, <3>1, <3>2
  <2>2. CASE r.op = "DEQUEUE" /\ r.id # Nil
    <3>1. Standing(f, n + 1) = {i \in Standing(f, n) : f[i].rec.id # r.id}
      BY <1>1, <2>2 DEF Inserts
    <3>2. after = {m \in live : m.id # r.id}
      BY <2>2 DEF Fold
    <3> QED BY <1>3, <1>4, <3>1, <3>2
  <2>3. CASE /\ ~(Inserts(f, n + 1) /\ here = {})
             /\ ~(r.op = "DEQUEUE" /\ r.id # Nil)
    <3>1. \A i \in Standing(f, n) : ~gone(i)
      BY <1>2, <2>3
    <3>2. Standing(f, n + 1) = Standing(f, n)
      BY <1>0, <1>1, <2>3, <3>1
    <3>3. after = live
      BY <1>5, <2>3 DEF Fold, Inserts
    <3> QED BY <1>3, <3>2, <3>3
  <2> QED BY <2>1, <2>2, <2>3
<1>7. ASSUME NEW k \in 1..(n + 1), Inserts(f, k)
      PROVE  \/ Removed(f, k, n + 1)
             \/ \E i \in Standing(f, n + 1) : f[i].rec.id = f[k].rec.id
  <2>1. CASE k \in 1..n
    BY <1>1, <1>7, <2>1 DEF Folded
  <2>2. CASE k = n + 1
    BY <1>1, <1>7, <2>2 DEF Inserts
  <2> QED BY <1>0, <2>1, <2>2
<1>8. IsLast(IF r.seq > last THEN r.seq ELSE last,
             {f[i].rec.seq : i \in 1..(n + 1)})
  <2>1. 1..(n + 1) = 1..n \cup {n + 1}
    BY <1>0
  <2>2. \A i \in 1..(n + 1) : f[i] \in Chunks
    BY <1>0 DEF Logs
  <2>3. \A i \in 1..(n + 1) : f[i].rec.seq \in Nat
    BY <2>2, RecordsAssumption DEF Chunks
  <2>4. /\ last \in {f[i].rec.seq : i \in 1..n} \cup {0}
        /\ \A i \in 1..n : f[i].rec.seq <= last
    BY DEF Folded, IsLast
  <2>5. CASE r.seq > last
    BY <2>1, <2>3, <2>4, <2>5 DEF IsLast
  <2>6. CASE ~(r.seq > last)
    BY <2>1, <2>3, <2>4, <2>6 DEF IsLast
  <2> QED BY <2>5, <2>6
<1> HIDE DEF after
<1>9. Folded(f, n + 1, after, IF r.seq > last THEN r.seq ELSE last)
  BY <1>6, <1>7, <1>8 DEF Folded
<1> QED BY <1>9 DEF after

(* The folded messages have different ids, and can be sorted.              *)
LEMMA FoldedMessages ==
  ASSUME NEW f \in Logs, NEW n \in 0..Len(f), NEW messages, NEW last,
         Folded(f, n, messages, last)
  PROVE  /\ IsFiniteSet(messages)
         /\ \A m \in messages : m.seq \in Nat /\ m.id \in Int
         /\ \A m, x \in messages : m.id = x.id => m = x
<1>0. Len(f) \in Nat /\ n \in Nat
  BY DEF Logs
<1>1. messages = {MessageOf(f[i].rec) : i \in Standing(f, n)}
  BY DEF Folded
<1>2. IsFiniteSet(messages)
  <2>1. IsFiniteSet(Standing(f, n))
    <3>1. IsFiniteSet(1..n)
      BY <1>0, FS_Interval
    <3> QED BY <3>1, FS_Subset DEF Standing
  <2> DEFINE g == [i \in Standing(f, n) |-> MessageOf(f[i].rec)]
  <2>2. g \in Surjection(Standing(f, n), messages)
    BY <1>1 DEF Surjection
  <2> QED BY <2>1, <2>2, FS_Surjection
<1>3. ASSUME NEW i \in Standing(f, n)
      PROVE  /\ MessageOf(f[i].rec).seq \in Nat
             /\ MessageOf(f[i].rec).id \in Int
             /\ MessageOf(f[i].rec).id = f[i].rec.id
  <2>1. i \in 1..Len(f) /\ Inserts(f, i)
    BY <1>0 DEF Standing, Holds
  <2>2. f[i].rec \in Records
    BY <2>1, ChunkType
  <2> QED BY <2>1, <2>2, RecordsAssumption DEF MessageOf, Inserts
<1>4. ASSUME NEW m \in messages, NEW x \in messages, m.id = x.id
      PROVE  m = x
  <2>1. PICK i \in Standing(f, n) : m = MessageOf(f[i].rec)
    BY <1>1
  <2>2. PICK j \in Standing(f, n) : x = MessageOf(f[j].rec)
    BY <1>1
  <2>3. f[i].rec.id = f[j].rec.id
    BY <1>3, <1>4, <2>1, <2>2
  <2> QED BY <2>1, <2>2, <2>3, StandingUnique
<1> QED BY <1>1, <1>2, <1>3, <1>4

(* When the lines that parse are exactly the first n chunks, the fold over *)
(* them is what module Wal says the file means.                            *)
LEMMA FoldedIsLive ==
  ASSUME NEW f \in Logs, NEW n \in 0..Len(f), NEW messages, NEW last,
         Folded(f, n, messages, last),
         \A i \in 1..Len(f) : Sound(f, i) <=> i <= n
  PROVE  messages = Live(f) /\ IsLast(last, RecordSeqs(f))
<1>0. Len(f) \in Nat /\ n \in Nat
  BY DEF Logs
<1>1. ASSUME NEW i \in 1..Len(f)
      PROVE  LiveAt(f, i) <=> i \in Standing(f, n)
  <2>1. CASE i > n
    BY <1>0, <2>1 DEF LiveAt, Enqueues, Standing
  <2>2. CASE i <= n
    <3>1. Enqueues(f, i, f[i].rec.id) /\ f[i].rec.id # Nil <=> Inserts(f, i)
      BY <2>2 DEF Enqueues, Inserts
    <3>2. (\A j \in (i + 1)..Len(f) : ~Dequeues(f, j, f[i].rec.id))
          <=> ~Removed(f, i, n)
      BY <1>0, <2>2 DEF Dequeues, Removed
    <3>3. ASSUME NEW k \in 1..(i - 1), f[i].rec.id # Nil
          PROVE  /\ Enqueues(f, k, f[i].rec.id) <=>
                      Inserts(f, k) /\ f[k].rec.id = f[i].rec.id
                 /\ f[k].rec.id = f[i].rec.id =>
                      (Removed(f, k, i - 1) <=>
                        \E j \in (k + 1)..(i - 1) : Dequeues(f, j, f[i].rec.id))
      BY <1>0, <2>2, <3>3 DEF Dequeues, Enqueues, Inserts, Removed
    <3> QED BY <1>0, <2>2, <3>1, <3>2, <3>3 DEF LiveAt, Standing, Holds
  <2> QED BY <1>0, <2>1, <2>2
<1>2. {j \in 1..Len(f) : LiveAt(f, j)} = Standing(f, n)
  BY <1>0, <1>1 DEF Standing
<1>3. {j \in 1..Len(f) : Sound(f, j)} = 1..n
  BY <1>0
<1> QED BY <1>2, <1>3 DEF Folded, Live, RecordSeqs

-----------------------------------------------------------------------------
(* The scanner between two lines.  All but the line held back parsed, so   *)
(* each of them is one whole chunk: n chunks are applied, the held line    *)
(* runs from chunk n + 1 to pos and has no newline before its end.         *)
ScannedTo(n) ==
  /\ pos \in 0..Len(file)
  /\ IF pending = <<>> THEN pos = 0 /\ n = 0
     ELSE pending = <<n + 1, pos>> /\ n < pos
  /\ \A i \in 1..n : file[i].part = "whole"
  /\ \A i \in (n + 1)..(pos - 1) : file[i].part # "whole"
  /\ pos \in {0, Len(file)} \/ file[pos].part = "whole"
  /\ maxSeq \in Nat
  /\ Folded(file, n, live, maxSeq)

RecoverInv ==
  /\ file \in Logs
  /\ outcome \in {"scanning", "ok", "corrupt"}
  /\ outcome = "scanning" => \E n \in 0..Len(file) : ScannedTo(n)
  /\ RecoverReturnsLive
  /\ FailsOnlyOnCorruption

LEMMA RecoverInit == Init => RecoverInv
<1> SUFFICES ASSUME Init PROVE RecoverInv
  OBVIOUS
<1>1. file \in Logs
  BY FilesAreLogs DEF Init
<1>2. ScannedTo(0) /\ 0 \in 0..Len(file)
  BY <1>1, FoldedNothing DEF Init, ScannedTo, Logs
<1> QED BY <1>1, <1>2
        DEF Init, RecoverInv, RecoverReturnsLive, FailsOnlyOnCorruption

(* applyLine of a line of one chunk.                                       *)
LEMMA ApplyLineStep ==
  ASSUME file \in Logs, NEW n \in 0..(Len(file) - 1), maxSeq \in Nat,
         Folded(file, n, live, maxSeq), ApplyLine(<<n + 1, n + 1>>)
  PROVE  maxSeq' \in Nat /\ Folded(file, n + 1, live', maxSeq')
<1>1. /\ maxSeq' = IF file[n + 1].rec.seq > maxSeq
                   THEN file[n + 1].rec.seq ELSE maxSeq
      /\ live' = Fold(file[n + 1].rec)
  BY DEF ApplyLine
<1>2. n + 1 \in 1..Len(file)
  BY DEF Logs
<1>3. file[n + 1].rec \in Records
  BY <1>2, ChunkType
<1> QED BY <1>1, <1>3, FoldStep, RecordsAssumption

(* scanner.Scan returns another line.                                      *)
LEMMA ScanStep ==
  ASSUME RecoverInv, Scan
  PROVE  RecoverInv'
<1>0. file \in Logs /\ Len(file) \in Nat /\ file' = file /\ out' = out
  BY DEF RecoverInv, Scan, Logs
<1>1. PICK n \in 0..Len(file) : ScannedTo(n)
  BY DEF RecoverInv, Scan
<1>2. pos \in 0..(Len(file) - 1)
  BY <1>0, <1>1 DEF Scan, ScannedTo
<1>3. CASE pending = <<>> \/ Parses(pending)
  <2>1. /\ pending' = <<pos + 1, LineEnd(pos)>> /\ pos' = LineEnd(pos)
        /\ outcome' = "scanning"
        /\ IF pending = <<>> THEN UNCHANGED <<live, maxSeq>>
           ELSE ApplyLine(pending)
    BY <1>3 DEF Scan
  <2>2. /\ pos' \in (pos + 1)..Len(file)
        /\ pos' = Len(file) \/ file[pos'].part = "whole"
        /\ \A k \in (pos + 1)..(pos' - 1) : file[k].part # "whole"
    BY <1>0, <1>2, <2>1, LineEndFacts
  <2>3. /\ \A i \in 1..pos : file[i].part = "whole"
        /\ maxSeq' \in Nat
        /\ Folded(file, pos, live', maxSeq')
    <3>1. CASE pending = <<>>
      BY <1>1, <2>1, <3>1 DEF ScannedTo
    <3>2. CASE pending # <<>>
      <4>1. pending = <<n + 1, pos>> /\ n < pos /\ Parses(pending)
        BY <1>1, <1>3, <3>2 DEF ScannedTo
      <4>2. pos = n + 1
        BY <4>1 DEF Parses
      <4>3. file[pos].part = "whole"
        BY <1>0, <1>1, <1>2, <4>2 DEF ScannedTo
      <4>4. maxSeq' \in Nat /\ Folded(file, n + 1, live', maxSeq')
        BY <1>0, <1>1, <1>2, <2>1, <3>2, <4>1, <4>2, ApplyLineStep
           DEF ScannedTo
      <4> QED BY <1>0, <1>1, <4>2, <4>3, <4>4 DEF ScannedTo
    <3> QED BY <3>1, <3>2
  <2>4. PICK p \in 0..Len(file) : p = pos
    BY <1>0, <1>2
  <2>5. ScannedTo(p)'
    BY <1>0, <1>2, <2>1, <2>2, <2>3, <2>4 DEF ScannedTo
  <2> QED BY <1>0, <2>1, <2>5
          DEF RecoverInv, RecoverReturnsLive, FailsOnlyOnCorruption
<1>4. CASE pending # <<>> /\ ~Parses(pending)
  <2>1. outcome' = "corrupt"
    BY <1>4 DEF Scan
  <2>2. pending = <<n + 1, pos>> /\ n < pos
    BY <1>1, <1>4 DEF ScannedTo
  <2>3. file[pos].part = "whole"
    BY <1>1, <1>2, <2>2 DEF ScannedTo
  <2>4. n + 1 # pos
    BY <1>4, <2>2, <2>3 DEF Parses
  <2>5. pos \in 2..(Len(file) - 1) /\ file[pos - 1].part # "whole"
    BY <1>0, <1>1, <1>2, <2>2, <2>4 DEF ScannedTo
  <2>6. Corrupt(file)
    BY <2>3, <2>5 DEF Corrupt
  <2> QED BY <1>0, <2>1, <2>6
          DEF RecoverInv, RecoverReturnsLive, FailsOnlyOnCorruption
<1> QED BY <1>3, <1>4

(* At the end of the file the first n chunks are lines, or n + 1 of them   *)
(* if the line held back parses; nothing else is, and no line before the   *)
(* last is broken.                                                         *)
LEMMA AtTheEnd ==
  ASSUME file \in Logs, NEW n \in 0..Len(file), ScannedTo(n),
         pos = Len(file)
  PROVE  LET k == IF pending # <<>> /\ Parses(pending) THEN n + 1 ELSE n
         IN /\ k \in 0..Len(file)
            /\ \A i \in 1..Len(file) : Sound(file, i) <=> i <= k
            /\ ~Corrupt(file)
<1> DEFINE k == IF pending # <<>> /\ Parses(pending) THEN n + 1 ELSE n
<1>0. Len(file) \in Nat
  BY DEF Logs
<1>1. ~Corrupt(file)
  BY <1>0 DEF Corrupt, ScannedTo
<1>2. CASE pending = <<>>
  BY <1>1, <1>2 DEF ScannedTo
<1>3. CASE pending # <<>> /\ Parses(pending)
  <2>1. pos = n + 1 /\ file[pos].part # "torn" /\ k = pos
    BY <1>3 DEF ScannedTo, Parses
  <2>2. \A i \in 1..Len(file) : Sound(file, i)
    BY <1>0, <2>1 DEF ScannedTo, Sound
  <2> QED BY <1>0, <1>1, <2>1, <2>2
<1>4. CASE pending # <<>> /\ ~Parses(pending)
  <2>1. k = n /\ pending = <<n + 1, pos>> /\ n < pos
    BY <1>4 DEF ScannedTo
  <2>2. \A i \in 1..n : Sound(file, i)
    BY <1>0, <2>1 DEF ScannedTo, Sound
  <2>3. \A i \in (n + 2)..Len(file) : ~Sound(file, i)
    BY <1>0 DEF ScannedTo, Sound
  <2>4. ~Sound(file, n + 1)
    <3>1. CASE n + 1 = pos
      BY <1>4, <2>1, <3>1 DEF Parses, Sound
    <3>2. CASE n + 1 # pos
      <4>1. file[n + 1].part # "whole" /\ n + 1 # Len(file)
            /\ n + 1 \in 1..Len(file)
        BY <1>0, <2>1, <3>2 DEF ScannedTo
      <4>2. file[n + 1].part \in {"nonl", "torn"}
        BY <4>1, ChunkType DEF Parts
      <4> QED BY <4>1, <4>2 DEF Sound
    <3> QED BY <3>1, <3>2
  <2> QED BY <1>0, <1>1, <2>1, <2>2, <2>3, <2>4
<1> QED BY <1>2, <1>3, <1>4

(* The last line and the sort.                                             *)
LEMMA FinishStep ==
  ASSUME RecoverInv, Finish
  PROVE  RecoverInv'
<1>0. /\ file \in Logs /\ Len(file) \in Nat /\ file' = file
      /\ pos = Len(file) /\ outcome' = "ok" /\ out' = Sorted(live')
  BY DEF RecoverInv, Finish, Logs
<1>1. PICK n \in 0..Len(file) : ScannedTo(n)
  BY DEF RecoverInv, Finish
<1> DEFINE k == IF pending # <<>> /\ Parses(pending) THEN n + 1 ELSE n
<1>2. /\ k \in 0..Len(file)
      /\ \A i \in 1..Len(file) : Sound(file, i) <=> i <= k
      /\ ~Corrupt(file)
  BY <1>0, <1>1, AtTheEnd
<1>3. Folded(file, k, live', maxSeq')
  <2>1. CASE pending # <<>> /\ Parses(pending)
    <3>1. pending = <<n + 1, n + 1>> /\ n \in 0..(Len(file) - 1)
      BY <1>0, <1>1, <2>1 DEF ScannedTo, Parses
    <3>2. ApplyLine(<<n + 1, n + 1>>)
      BY <2>1, <3>1 DEF Finish
    <3> QED BY <1>0, <1>1, <2>1, <3>1, <3>2, ApplyLineStep DEF ScannedTo
  <2>2. CASE ~(pending # <<>> /\ Parses(pending))
    BY <1>1, <2>2 DEF ScannedTo, Finish
  <2> QED BY <2>1, <2>2
<1> HIDE DEF k
<1>4. live' = Live(file) /\ IsLast(maxSeq', RecordSeqs(file))
  BY <1>0, <1>2, <1>3, FoldedIsLive
<1>5. ToSet(out') = live' /\ Ascending(out')
  BY <1>0, <1>2, <1>3, FoldedMessages, SortedFacts
<1>6. RecoverReturnsLive'
  BY <1>0, <1>4, <1>5 DEF RecoverReturnsLive
<1> QED BY <1>0, <1>2, <1>6 DEF RecoverInv, FailsOnlyOnCorruption

LEMMA RecoverStep == RecoverInv /\ [Next]_vars => RecoverInv'
<1> SUFFICES ASSUME RecoverInv, [Next]_vars PROVE RecoverInv'
  OBVIOUS
<1>1. CASE Scan
  BY <1>1, ScanStep
<1>2. CASE Finish
  BY <1>2, FinishStep
<1>3. CASE UNCHANGED vars
  BY <1>3 DEF vars, RecoverInv, RecoverReturnsLive, FailsOnlyOnCorruption,
              ScannedTo
<1> QED BY <1>1, <1>2, <1>3 DEF Next, Done

LEMMA RecoverInvariant == Spec => []RecoverInv
BY RecoverInit, RecoverStep, PTL DEF Spec

(* For every file, of any length and any records: when Recover succeeds it *)
(* returns exactly the ENQUEUEs without a matching DEQUEUE, in (seq, id)   *)
(* order, and the counter is the largest record number replayed.           *)
THEOREM RecoverReturnsLiveTheorem == Spec => []RecoverReturnsLive
<1>1. RecoverInv => RecoverReturnsLive
  BY DEF RecoverInv
<1> QED BY <1>1, RecoverInvariant, PTL

(* Recover gives up exactly on files with a broken line before the last:   *)
(* one line of lookahead is enough to tell a torn tail from corruption.    *)
THEOREM FailsOnlyOnCorruptionTheorem == Spec => []FailsOnlyOnCorruption
<1>1. RecoverInv => FailsOnlyOnCorruption
  BY DEF RecoverInv
<1> QED BY <1>1, RecoverInvariant, PTL

-----------------------------------------------------------------------------
(* Tail.  Induction on the naturals, for a set instead of a predicate.     *)
LEMMA Induction ==
  ASSUME NEW T, 0 \in T, \A n \in Nat : n \in T => n + 1 \in T
  PROVE  \A n \in Nat : n \in T
<1> DEFINE Rest == Nat \ T
<1> SUFFICES ASSUME Rest # {} PROVE FALSE
  OBVIOUS
<1>1. PICK x \in Rest : \A y \in Rest : x <= y
  <2>1. Rest \in SUBSET Nat
    OBVIOUS
  <2> HIDE DEF Rest
  <2> QED BY <2>1, LeastNatural
<1>2. x # 0 /\ x - 1 \in Nat /\ (x - 1) + 1 = x
  BY <1>1
<1> QED BY <1>1, <1>2

(* A loop over 1..n whose rounds stay in S has a state after every round.  *)
IsLoop(g, n, S, s, step) ==
  /\ g \in [0..n -> S] /\ g[0] = s
  /\ \A k \in 1..n : k - 1 \in 0..n /\ g[k] = step[k][g[k - 1]]

LEMMA Loop ==
  ASSUME NEW n \in Nat, NEW S, NEW s \in S, NEW step \in [1..n -> [S -> S]]
  PROVE  \E g : IsLoop(g, n, S, s, step)
<1> DEFINE Upto(g, m) == /\ g \in [0..m -> S] /\ g[0] = s
                         /\ \A k \in 1..m : g[k] = step[k][g[k - 1]]
           T == {m \in Nat : m <= n => \E g : Upto(g, m)}
<1>1. 0 \in T
  <2>1. Upto([k \in 0..0 |-> s], 0)
    OBVIOUS
  <2> QED BY <2>1
<1>2. ASSUME NEW m \in Nat, m \in T PROVE m + 1 \in T
  <2> SUFFICES ASSUME m + 1 <= n PROVE \E g : Upto(g, m + 1)
    OBVIOUS
  <2>1. PICK g : Upto(g, m)
    BY <1>2
  <2> DEFINE e == [k \in 0..(m + 1) |-> IF k = m + 1 THEN step[m + 1][g[m]] ELSE g[k]]
  <2>2. step[m + 1][g[m]] \in S
    <3>1. m + 1 \in 1..n /\ g[m] \in S
      BY <2>1
    <3> QED BY <3>1
  <2>3. Upto(e, m + 1)
    BY <2>1, <2>2
  <2> HIDE DEF e, Upto
  <2> QED BY <2>3
<1>3. n \in T
  <2> HIDE DEF T
  <2> QED BY <1>1, <1>2, Induction
<1>4. PICK g : Upto(g, n)
  BY <1>3
<1>5. IsLoop(g, n, S, s, step)
  BY <1>4 DEF IsLoop
<1> QED BY <1>5

-----------------------------------------------------------------------------
(* A chunk is at least a byte long, so chunks begin further and further in.*)
LEMMA ChunkSizes ==
  ASSUME NEW f \in Logs, NEW i \in 1..Len(f)
  PROVE  ChunkSize(f[i]) \in Nat /\ ChunkSize(f[i]) > 0
<1>1. f[i].rec \in Records /\ f[i].part \in Parts
  BY ChunkType DEF Chunks
<1> QED BY <1>1, RecordsAssumption DEF ChunkSize, Parts

LEMMA OffsetFacts ==
  ASSUME NEW f \in Logs
  PROVE  /\ Offset(f, 1) = 0
         /\ \A i \in 1..Len(f) : Offset(f, i + 1) = Offset(f, i) + ChunkSize(f[i])
         /\ \A i \in 1..(Len(f) + 1) : Offset(f, i) \in Nat
<1> DEFINE n == Len(f)
           step == [k \in 1..n |-> [x \in Nat |-> x + ChunkSize(f[k])]]
           end == CHOOSE end : end = [k \in 0..n |->
                    IF k = 0 THEN 0 ELSE end[k - 1] + ChunkSize(f[k])]
<1>1. n \in Nat
  BY DEF Logs
<1>2. step \in [1..n -> [Nat -> Nat]]
  BY ChunkSizes
<1>3. PICK g : IsLoop(g, n, Nat, 0, step)
  <2> HIDE DEF step, n
  <2> QED BY <1>1, <1>2, Loop
<1>4. \A k \in 1..n : g[k] = g[k - 1] + ChunkSize(f[k])
  <2> SUFFICES ASSUME NEW k \in 1..n PROVE g[k] = g[k - 1] + ChunkSize(f[k])
    OBVIOUS
  <2>1. g[k] = step[k][g[k - 1]] /\ g[k - 1] \in Nat
    BY <1>1, <1>3 DEF IsLoop
  <2> QED BY <2>1
<1>5. g = [k \in 0..n |-> IF k = 0 THEN 0 ELSE g[k - 1] + ChunkSize(f[k])]
  BY <1>1, <1>3, <1>4 DEF IsLoop
<1>6. end = [k \in 0..n |-> IF k = 0 THEN 0 ELSE end[k - 1] + ChunkSize(f[k])]
  BY <1>5
<1>7. \A i : Offset(f, i) = end[i - 1]
  BY DEF Offset
<1> HIDE DEF end
<1>8. end[0] = 0 /\ \A k \in 1..n : end[k] = end[k - 1] + ChunkSize(f[k])
  BY <1>1, <1>6
<1> DEFINE T == {k \in Nat : k <= n => end[k] \in Nat}
<1>9. \A k \in Nat : k \in T
  <2>1. 0 \in T
    BY <1>8
  <2>2. ASSUME NEW k \in Nat, k \in T PROVE k + 1 \in T
    <3> SUFFICES ASSUME k + 1 <= n PROVE end[k + 1] \in Nat
      OBVIOUS
    <3>1. k + 1 \in 1..n /\ (k + 1) - 1 = k /\ end[k] \in Nat
      BY <1>1, <2>2
    <3> QED BY <1>8, <3>1, ChunkSizes
  <2> HIDE DEF T
  <2> QED BY <2>1, <2>2, Induction
<1>10. ASSUME NEW i \in 1..n PROVE Offset(f, i + 1) = Offset(f, i) + ChunkSize(f[i])
  <2>1. (i + 1) - 1 = i
    OBVIOUS
  <2> QED BY <1>7, <1>8, <2>1
<1>11. ASSUME NEW i \in 1..(n + 1) PROVE Offset(f, i) \in Nat
  <2>1. i - 1 \in Nat /\ i - 1 <= n
    BY <1>1
  <2>2. i - 1 \in T
    <3> HIDE DEF T
    <3> QED BY <1>9, <2>1
  <2> QED BY <1>7, <2>1, <2>2
<1> QED BY <1>7, <1>8, <1>10, <1>11

LEMMA OffsetsGrow ==
  ASSUME NEW f \in Logs, NEW i \in 1..Len(f), NEW j \in 1..Len(f), i < j
  PROVE  Offset(f, i) < Offset(f, j)
<1> DEFINE T == {k \in Nat : i + 1 + k <= Len(f) => Offset(f, i) < Offset(f, i + 1 + k)}
<1>0. Len(f) \in Nat /\ \A k \in 1..Len(f) : Offset(f, k) \in Nat
  BY OffsetFacts DEF Logs
<1>1. ASSUME NEW k \in 1..Len(f), k + 1 <= Len(f) PROVE Offset(f, k) < Offset(f, k + 1)
  BY <1>0, OffsetFacts, ChunkSizes
<1>2. 0 \in T
  <2>1. i + 1 + 0 = i + 1
    OBVIOUS
  <2> QED BY <1>1, <2>1
<1>3. ASSUME NEW k \in Nat, k \in T PROVE k + 1 \in T
  <2> SUFFICES ASSUME i + 1 + (k + 1) <= Len(f)
               PROVE  Offset(f, i) < Offset(f, i + 1 + (k + 1))
    OBVIOUS
  <2> DEFINE m == i + 1 + k
  <2>1. m \in 1..Len(f) /\ m + 1 \in 1..Len(f) /\ i + 1 + (k + 1) = m + 1
    BY <1>0
  <2>2. Offset(f, i) < Offset(f, m)
    BY <1>3, <2>1
  <2> HIDE DEF m
  <2>3. Offset(f, m) < Offset(f, m + 1)
    BY <1>0, <1>1, <2>1
  <2> QED BY <1>0, <2>1, <2>2, <2>3
<1>4. j - i - 1 \in Nat /\ i + 1 + (j - i - 1) = j
  BY <1>0
<1>5. j - i - 1 \in T
  <2> HIDE DEF T
  <2> QED BY <1>2, <1>3, <1>4, Induction
<1> QED BY <1>0, <1>4, <1>5

-----------------------------------------------------------------------------
(* s lists, in order, the sound lines of the window among the first k.     *)
Keeps(f, k) == Sound(f, k) /\ InWindow(f, k)
KeptUpto(f, k, s) ==
  /\ s \in Seq(Nat)
  /\ \A i \in 1..Len(s) : s[i] \in 1..k /\ Keeps(f, s[i])
  /\ \A x \in 1..k : Keeps(f, x) => \E i \in 1..Len(s) : s[i] = x
  /\ \A i, j \in 1..Len(s) : i < j => s[i] < s[j]

LEMMA KeptRound ==
  ASSUME NEW f, NEW k \in Nat, NEW s, KeptUpto(f, k, s),
         NEW t, t = IF Keeps(f, k + 1) THEN Append(s, k + 1) ELSE s
  PROVE  KeptUpto(f, k + 1, t)
<1>0. s \in Seq(Nat) /\ Len(s) \in Nat /\ \A i \in 1..Len(s) : s[i] \in Nat
  BY DEF KeptUpto
<1>1. \A x \in 1..(k + 1) : x \in 1..k \/ x = k + 1
  OBVIOUS
<1>2. CASE Keeps(f, k + 1)
  <2>1. /\ t \in Seq(Nat) /\ Len(t) = Len(s) + 1 /\ t[Len(s) + 1] = k + 1
        /\ \A i \in 1..Len(s) : t[i] = s[i]
    BY <1>0, <1>2
  <2>2. \A i \in 1..Len(t) : i \in 1..Len(s) \/ i = Len(s) + 1
    BY <1>0, <2>1
  <2>3. \A i \in 1..Len(t) : t[i] \in 1..(k + 1) /\ Keeps(f, t[i])
    BY <1>2, <2>1, <2>2 DEF KeptUpto
  <2>4. \A x \in 1..(k + 1) : Keeps(f, x) => \E i \in 1..Len(t) : t[i] = x
    <3> SUFFICES ASSUME NEW x \in 1..(k + 1), Keeps(f, x)
                 PROVE  \E i \in 1..Len(t) : t[i] = x
      OBVIOUS
    <3>1. CASE x \in 1..k
      <4>1. PICK i \in 1..Len(s) : s[i] = x
        BY <3>1 DEF KeptUpto
      <4>2. i \in 1..Len(t) /\ t[i] = x
        BY <1>0, <2>1, <4>1
      <4> QED BY <4>2
    <3>2. CASE x = k + 1
      <4>1. Len(s) + 1 \in 1..Len(t)
        BY <1>0, <2>1
      <4> QED BY <2>1, <3>2, <4>1
    <3> QED BY <1>1, <3>1, <3>2
  <2>5. \A i, j \in 1..Len(t) : i < j => t[i] < t[j]
    <3> SUFFICES ASSUME NEW i \in 1..Len(t), NEW j \in 1..Len(t), i < j
                 PROVE  t[i] < t[j]
      OBVIOUS
    <3>1. i \in 1..Len(s)
      BY <1>0, <2>1
    <3>2. s[i] \in 1..k /\ t[i] = s[i]
      BY <2>1, <3>1 DEF KeptUpto
    <3>3. CASE j \in 1..Len(s)
      BY <2>1, <3>1, <3>3 DEF KeptUpto
    <3>4. CASE j = Len(s) + 1
      BY <2>1, <3>2, <3>4
    <3> QED BY <2>2, <3>3, <3>4
  <2> QED BY <2>1, <2>3, <2>4, <2>5 DEF KeptUpto
<1>3. CASE ~Keeps(f, k + 1)
  BY <1>1, <1>3 DEF KeptUpto
<1> QED BY <1>2, <1>3

(* What Tail returns, in terms of the list of all lines it keeps.          *)
LEMMA TailFacts ==
  ASSUME NEW f \in Logs
  PROVE  \E kept :
           /\ KeptUpto(f, Len(f), kept)
           /\ \A limit : TailOf(f, limit) =
                [records |-> IF limit > 0 /\ Len(kept) > limit
                             THEN SubSeq(kept, Len(kept) - limit + 1, Len(kept))
                             ELSE kept,
                 truncated |-> WindowStart(f) > 0 \/ (limit > 0 /\ Len(kept) > limit)]
<1> DEFINE n == Len(f)
           S == Seq(Nat)
           step == [k \in 1..n |-> [x \in S |-> IF Keeps(f, k) THEN Append(x, k) ELSE x]]
           upto == CHOOSE upto : upto = [k \in 0..n |->
                     IF k = 0 THEN <<>>
                     ELSE IF Sound(f, k) /\ InWindow(f, k) THEN Append(upto[k - 1], k)
                     ELSE upto[k - 1]]
<1>1. n \in Nat /\ <<>> \in S
  BY DEF Logs
<1>2. step \in [1..n -> [S -> S]]
  <2>1. \A k \in 1..n : \A x \in S : Append(x, k) \in S
    BY <1>1
  <2> HIDE DEF S, n
  <2> QED BY <2>1
<1>3. PICK g : IsLoop(g, n, S, <<>>, step)
  <2> HIDE DEF step, n, S
  <2> QED BY <1>1, <1>2, Loop
<1>4. ASSUME NEW k \in 1..n
      PROVE  g[k] = IF Sound(f, k) /\ InWindow(f, k) THEN Append(g[k - 1], k) ELSE g[k - 1]
  <2>1. g[k] = step[k][g[k - 1]] /\ g[k - 1] \in S
    BY <1>1, <1>3 DEF IsLoop
  <2> HIDE DEF S
  <2> QED BY <2>1 DEF Keeps
<1>5. g = [k \in 0..n |->
             IF k = 0 THEN <<>>
             ELSE IF Sound(f, k) /\ InWindow(f, k) THEN Append(g[k - 1], k)
             ELSE g[k - 1]]
  <2>1. g \in [0..n -> S] /\ g[0] = <<>>
    BY <1>3 DEF IsLoop
  <2>2. \A k \in 0..n : k # 0 => k \in 1..n
    BY <1>1
  <2> HIDE DEF S, n
  <2> QED BY <1>4, <2>1, <2>2
<1>6. upto = [k \in 0..n |->
                IF k = 0 THEN <<>>
                ELSE IF Sound(f, k) /\ InWindow(f, k) THEN Append(upto[k - 1], k)
                ELSE upto[k - 1]]
  BY <1>5
<1> DEFINE kept == upto[n]
<1>7. \A limit : TailOf(f, limit) =
        [records |-> IF limit > 0 /\ Len(kept) > limit
                     THEN SubSeq(kept, Len(kept) - limit + 1, Len(kept))
                     ELSE kept,
         truncated |-> WindowStart(f) > 0 \/ (limit > 0 /\ Len(kept) > limit)]
  BY DEF TailOf
<1> HIDE DEF upto
<1> DEFINE T == {k \in Nat : k <= n => KeptUpto(f, k, upto[k])}
<1>8. 0 \in T
  <2>1. upto[0] = <<>>
    BY <1>1, <1>6
  <2>2. KeptUpto(f, 0, <<>>)
    BY DEF KeptUpto
  <2> QED BY <2>1, <2>2
<1>9. ASSUME NEW k \in Nat, k \in T PROVE k + 1 \in T
  <2> SUFFICES ASSUME k + 1 <= n PROVE KeptUpto(f, k + 1, upto[k + 1])
    OBVIOUS
  <2>1. k + 1 \in 0..n /\ k + 1 # 0 /\ (k + 1) - 1 = k /\ KeptUpto(f, k, upto[k])
    BY <1>1, <1>9
  <2>2. upto[k + 1] = IF Keeps(f, k + 1) THEN Append(upto[k], k + 1) ELSE upto[k]
    BY <1>6, <2>1 DEF Keeps
  <2> QED BY <2>1, <2>2, KeptRound
<1>10. n \in T
  <2> HIDE DEF T
  <2> QED BY <1>1, <1>8, <1>9, Induction
<1>11. KeptUpto(f, n, kept)
  BY <1>1, <1>10
<1> HIDE DEF kept
<1> QED BY <1>7, <1>11

-----------------------------------------------------------------------------
(* Once a line is in the window, so are the later ones.                    *)
LEMMA WindowFacts ==
  ASSUME NEW f \in Logs
  PROVE  /\ WindowStart(f) \in Nat
         /\ \A i, j \in 1..Len(f) : i < j /\ InWindow(f, i) => InWindow(f, j)
         /\ Len(f) > 0 /\ ChunkSize(f[Len(f)]) < Window => InWindow(f, Len(f))
<1> DEFINE n == Len(f)
<1>1. n \in Nat /\ \A i \in 1..n : Offset(f, i) \in Nat
  BY OffsetFacts DEF Logs
<1>2. Offset(f, n + 1) \in Nat
  BY <1>1, OffsetFacts
<1>3. WindowStart(f) \in Nat
  BY <1>2, WindowAssumption DEF WindowStart
<1>4. ASSUME NEW i \in 1..n, NEW j \in 1..n, i < j, InWindow(f, i) PROVE InWindow(f, j)
  <2>1. Offset(f, i) < Offset(f, j)
    BY <1>4, OffsetsGrow
  <2> QED BY <1>1, <1>3, <1>4, <2>1 DEF InWindow
<1>5. ASSUME n > 0, ChunkSize(f[n]) < Window PROVE InWindow(f, n)
  <2>1. n \in 1..n
    BY <1>1, <1>5
  <2>2. Offset(f, n + 1) = Offset(f, n) + ChunkSize(f[n])
    BY <2>1, OffsetFacts
  <2>3. ChunkSize(f[n]) \in Nat /\ Offset(f, n) \in Nat
    BY <1>1, <2>1, ChunkSizes
  <2> QED BY <1>2, <1>5, <2>2, <2>3, WindowAssumption DEF WindowStart, InWindow
<1> QED BY <1>3, <1>4, <1>5

LEMMA TailNewest ==
  ASSUME NEW f \in Logs, NEW limit \in Int
  PROVE  TailShowsNewest(f, limit)
<1> DEFINE n == Len(f)
           all == {i \in 1..n : Sound(f, i)}
           t == TailOf(f, limit)
           r == t.records
           shown == ToSet(r)
<1>0. n \in Nat
  BY DEF Logs
<1>1. PICK kept :
        /\ KeptUpto(f, n, kept)
        /\ t = [records |-> IF limit > 0 /\ Len(kept) > limit
                            THEN SubSeq(kept, Len(kept) - limit + 1, Len(kept))
                            ELSE kept,
                truncated |-> WindowStart(f) > 0 \/ (limit > 0 /\ Len(kept) > limit)]
  <2> HIDE DEF t
  <2> QED BY TailFacts DEF t
<1> DEFINE m == Len(kept)
           d == IF limit > 0 /\ m > limit THEN m - limit ELSE 0
<1>2. kept \in Seq(Nat) /\ m \in Nat /\ \A i \in 1..m : kept[i] \in Nat
  BY <1>1 DEF KeptUpto
<1>3. /\ r = IF limit > 0 /\ m > limit THEN SubSeq(kept, m - limit + 1, m) ELSE kept
      /\ t.truncated <=> WindowStart(f) > 0 \/ (limit > 0 /\ m > limit)
  <2> HIDE DEF t
  <2> QED BY <1>1
<1>4. d \in Nat /\ (m > 0 => d < m) /\ d <= m /\ (limit > 0 => m - d <= limit)
  BY <1>2
<1> HIDE DEF t
<1>5. /\ DOMAIN r = 1..(m - d)
      /\ \A i \in 1..(m - d) : i + d \in 1..m /\ r[i] = kept[i + d]
  <2>1. CASE limit > 0 /\ m > limit
    <3> DEFINE a == m - limit + 1
    <3>1. a \in Int /\ a \in 1..m /\ d = a - 1 /\ m - a + 1 = m - d
      BY <1>2, <2>1
    <3>2. r = SubSeq(kept, a, m) /\ \A i \in a..m : kept[i] \in Nat
      BY <1>2, <1>3, <2>1, <3>1
    <3> HIDE DEF a, m, d, r
    <3>3. /\ SubSeq(kept, a, m) \in Seq(Nat)
          /\ Len(SubSeq(kept, a, m)) = IF a <= m THEN m - a + 1 ELSE 0
          /\ \A i \in 1..(m - a + 1) : SubSeq(kept, a, m)[i] = kept[a + i - 1]
      BY <1>2, <3>1, <3>2, SubSeqProperties
    <3>4. \A i \in 1..(m - d) : a + i - 1 = i + d
      BY <1>2, <3>1
    <3> QED BY <1>2, <1>4, <3>1, <3>2, <3>3, <3>4
  <2>2. CASE ~(limit > 0 /\ m > limit)
    <3>1. r = kept /\ d = 0
      BY <1>3, <2>2
    <3> QED BY <1>2, <3>1
  <2> QED BY <2>1, <2>2
<1> HIDE DEF r, d, m
<1>6. /\ \A i \in 1..m : kept[i] \in 1..n /\ Sound(f, kept[i]) /\ InWindow(f, kept[i])
      /\ \A x \in 1..n : Sound(f, x) /\ InWindow(f, x) => \E i \in 1..m : kept[i] = x
      /\ \A i, j \in 1..m : i < j => kept[i] < kept[j]
  BY <1>1 DEF KeptUpto, Keeps, m
<1>7. shown = {r[i] : i \in 1..(m - d)}
  BY <1>5 DEF ToSet
<1> HIDE DEF shown
<1>8. shown \subseteq all
  BY <1>5, <1>6, <1>7
<1>9. \A b \in 1..m : b > d => kept[b] \in shown
  <2> SUFFICES ASSUME NEW b \in 1..m, b > d PROVE kept[b] \in shown
    OBVIOUS
  <2>1. b - d \in 1..(m - d) /\ (b - d) + d = b
    BY <1>2, <1>4
  <2> QED BY <1>5, <1>7, <2>1
<1>10. ASSUME NEW i \in shown, NEW j \in all, j > i PROVE j \in shown
  <2>1. PICK a \in 1..(m - d) : i = kept[a + d] /\ a + d \in 1..m
    BY <1>5, <1>7
  <2>2. InWindow(f, j)
    BY <1>6, <1>10, <2>1, WindowFacts
  <2>3. PICK b \in 1..m : kept[b] = j
    BY <1>6, <2>2
  <2>4. ~(b < a + d) /\ b # a + d
    BY <1>2, <1>6, <1>10, <2>1, <2>3
  <2>5. b > d
    BY <1>2, <1>4, <2>1, <2>4
  <2> QED BY <1>9, <2>3, <2>5
<1>11. \A i, j \in DOMAIN r : i < j => r[i] < r[j]
  BY <1>2, <1>4, <1>5, <1>6
<1>12. limit > 0 => Cardinality(shown) <= limit
  <2> DEFINE D == 1..(m - d)
             g == [i \in D |-> r[i]]
  <2>1. m - d \in Nat
    BY <1>2, <1>4
  <2>2. IsFiniteSet(D) /\ Cardinality(D) = m - d
    BY <2>1, FS_Interval
  <2>3. g \in Surjection(D, shown)
    BY <1>7 DEF Surjection
  <2>4. IsFiniteSet(shown) /\ Cardinality(shown) <= Cardinality(D)
    <3> HIDE DEF g, D
    <3> QED BY <2>2, <2>3, FS_Surjection
  <2>5. Cardinality(shown) \in Nat
    BY <2>4, FS_CardinalityType
  <2> QED BY <1>4, <2>1, <2>2, <2>4, <2>5
<1>13. ASSUME ~t.truncated PROVE shown = all
  <2>1. WindowStart(f) = 0 /\ d = 0
    BY <1>3, <1>13, WindowFacts DEF d
  <2>2. \A x \in all : \E i \in 1..m : kept[i] = x
    BY <1>6, <2>1 DEF InWindow
  <2>3. \A x \in all : x \in shown
    BY <1>9, <2>1, <2>2
  <2> QED BY <1>8, <2>3
<1>14. ASSUME n \in all, ChunkSize(f[n]) < Window PROVE n \in shown
  <2>1. InWindow(f, n) /\ Sound(f, n) /\ n \in 1..n
    BY <1>0, <1>14, WindowFacts
  <2>2. PICK b \in 1..m : kept[b] = n
    BY <1>6, <2>1
  <2>3. ~(b < m)
    <3> SUFFICES ASSUME b < m PROVE FALSE
      OBVIOUS
    <3>1. m \in 1..m /\ kept[m] \in 1..n /\ kept[b] < kept[m]
      BY <1>2, <1>6
    <3> QED BY <1>0, <2>2, <3>1
  <2>4. b = m /\ m > d
    BY <1>2, <1>4, <2>2, <2>3
  <2> QED BY <1>9, <2>2, <2>4
<1>15. /\ shown = ToSet(TailOf(f, limit).records) /\ r = TailOf(f, limit).records
       /\ t = TailOf(f, limit)
  BY DEF shown, r, t
<1> HIDE DEF all
<1>16. all = {i \in 1..Len(f) : Sound(f, i)}
  BY DEF all
<1> QED BY <1>8, <1>10, <1>11, <1>12, <1>13, <1>14, <1>15, <1>16 DEF TailShowsNewest

(* For every file a replay can meet, of any length and damaged in any way, *)
(* every window size and every limit: what Tail returns are the newest     *)
(* records that replay, in log order, all of them unless it says           *)
(* truncated, and the last line whenever it fits in the window.            *)
THEOREM TailIsNewestTheorem == Spec => []TailIsNewest
<1>1. RecoverInv => TailIsNewest
  <2>1. ASSUME RecoverInv, NEW limit \in Limits PROVE TailShowsNewest(file, limit)
    BY <2>1, TailNewest, WindowAssumption DEF RecoverInv
  <2> QED BY <2>1 DEF TailIsNewest
<1> QED BY <1>1, RecoverInvariant, PTL
=============================================================================
