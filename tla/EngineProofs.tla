---------------------------- MODULE EngineProofs ----------------------------
(***************************************************************************)
(* FrankensteinQueue keeps its heaps in order and does what EngineSpec     *)
(* promises, for any messages, any limits and queues of any size.          *)
(*                                                                         *)
(* A loop of the code (sift up, sift down, promote, drain) is a recursive  *)
(* function of its number of rounds.  Iteration gives the function from a  *)
(* set of loop states that a round does not leave, the loop's invariant;   *)
(* Induction then shows the loop has come to its end after as many rounds  *)
(* as the model runs.                                                      *)
(***************************************************************************)
EXTENDS FrankensteinQueue, FiniteSetTheorems, SequenceTheorems,
        WellFoundedInduction, TLAPS

HeapNames == {"ready", "delayed"}

Items == [msg : Messages \cup {None}, order : Nat,
          loc : HeapNames \cup {"none"}, index : Nat]

Queues == [mode : Modes, ready : Seq(IDs), delayed : Seq(IDs),
           byID : SUBSET IDs, item : [IDs -> Items], nextOrder : Nat]

Slots(s, h) == 1..Len(s[h])
Ids(s, h) == {s[h][i] : i \in Slots(s, h)}

LEMMA HeapTypes ==
  ASSUME NEW s \in Queues, NEW h \in HeapNames
  PROVE  /\ s[h] \in Seq(IDs) /\ Len(s[h]) \in Nat
         /\ \A i \in Slots(s, h) : s[h][i] \in IDs
<1>1. CASE h = "ready"
  BY <1>1 DEF Queues, Slots
<1>2. CASE h = "delayed"
  BY <1>2 DEF Queues, Slots
<1> QED BY <1>1, <1>2 DEF HeapNames

(* s with other contents in heap h and in the items.                       *)
With(s, h, a, b) == [s EXCEPT ![h] = a, !.item = b]

LEMMA WithFacts ==
  ASSUME NEW s \in Queues, NEW h \in HeapNames,
         NEW a \in Seq(IDs), NEW b \in [IDs -> Items],
         NEW t, t = With(s, h, a, b)
  PROVE  /\ t \in Queues
         /\ t[h] = a /\ t.item = b
         /\ \A g \in HeapNames \ {h} : t[g] = s[g]
         /\ t.mode = s.mode /\ t.byID = s.byID /\ t.nextOrder = s.nextOrder
<1>1. CASE h = "ready"
  BY <1>1 DEF Queues, HeapNames, With
<1>2. CASE h = "delayed"
  BY <1>2 DEF Queues, HeapNames, With
<1> QED BY <1>1, <1>2 DEF HeapNames

LEMMA SwapFacts ==
  ASSUME NEW s \in Queues, NEW h \in HeapNames,
         NEW i \in Slots(s, h), NEW j \in Slots(s, h),
         NEW t, t = Swap(s, h, i, j)
  PROVE  /\ t \in Queues
         /\ t.mode = s.mode /\ t.byID = s.byID /\ t.nextOrder = s.nextOrder
         /\ \A g \in HeapNames \ {h} : t[g] = s[g]
         /\ Len(t[h]) = Len(s[h])
         /\ \A k \in Slots(s, h) :
              t[h][k] = IF k = j THEN s[h][i] ELSE IF k = i THEN s[h][j] ELSE s[h][k]
         /\ \A id \in IDs :
              /\ t.item[id].msg = s.item[id].msg /\ t.item[id].order = s.item[id].order
              /\ t.item[id].loc = s.item[id].loc
              /\ id \notin {s[h][i], s[h][j]} => t.item[id] = s.item[id]
         /\ t.item[s[h][j]].index = i
         /\ s[h][i] # s[h][j] => t.item[s[h][i]].index = j
<1> DEFINE a == [s[h] EXCEPT ![i] = s[h][j], ![j] = s[h][i]]
           b == [s.item EXCEPT ![s[h][i]].index = j, ![s[h][j]].index = i]
<1>0. /\ s.item \in [IDs -> Items] /\ s[h][i] \in IDs /\ s[h][j] \in IDs
      /\ i \in Nat /\ j \in Nat /\ s[h] \in Seq(IDs)
  BY HeapTypes DEF Queues, Slots
<1>1. a \in Seq(IDs)
  BY HeapTypes DEF Slots
<1>2. b \in [IDs -> Items]
  <2>1. \A it \in Items, n \in Nat : [it EXCEPT !.index = n] \in Items
    BY DEF Items
  <2> QED BY <1>0, <2>1
<1>3. t = With(s, h, a, b)
  BY DEF Swap, With
<1>4. Len(a) = Len(s[h]) /\ \A k \in Slots(s, h) :
        a[k] = IF k = j THEN s[h][i] ELSE IF k = i THEN s[h][j] ELSE s[h][k]
  BY <1>0 DEF Slots
<1>5. /\ \A id \in IDs :
           /\ b[id].msg = s.item[id].msg /\ b[id].order = s.item[id].order
           /\ b[id].loc = s.item[id].loc
           /\ id \notin {s[h][i], s[h][j]} => b[id] = s.item[id]
      /\ b[s[h][j]].index = i
      /\ s[h][i] # s[h][j] => b[s[h][i]].index = j
  BY <1>0 DEF Items
<1> HIDE DEF a, b
<1>6. /\ t \in Queues
      /\ t[h] = a /\ t.item = b
      /\ \A g \in HeapNames \ {h} : t[g] = s[g]
      /\ t.mode = s.mode /\ t.byID = s.byID /\ t.nextOrder = s.nextOrder
  BY <1>1, <1>2, <1>3, WithFacts
<1> QED BY <1>4, <1>5, <1>6

-----------------------------------------------------------------------------
(* Induction on the naturals, for a set instead of a predicate.            *)
LEMMA Induction ==
  ASSUME NEW T, 0 \in T, \A n \in Nat : n \in T => n + 1 \in T
  PROVE  \A n \in Nat : n \in T
<1> DEFINE R == {p \in Nat \X Nat : p[1] < p[2]}
           Rest == Nat \ T
<1> SUFFICES ASSUME Rest # {} PROVE FALSE
  OBVIOUS
<1>1. IsWellFoundedOn(R, Nat)
  BY NatLessThanWellFounded DEF OpToRel
<1>2. \A x, y \in Nat : y < x => <<y, x>> \in R
  OBVIOUS
<1>3. Rest \subseteq Nat
  OBVIOUS
<1> HIDE DEF R
<1>4. PICK x \in Rest : \A y \in Rest : ~(<<y, x>> \in R)
  <2> HIDE DEF Rest
  <2> QED BY <1>1, <1>3, WFMin
<1>5. x # 0 /\ x - 1 \in Nat
  BY <1>4
<1>6. <<x - 1, x>> \in R
  BY <1>2, <1>4, <1>5
<1> QED BY <1>4, <1>5, <1>6

(* A loop that keeps its states in S has a state after every number of     *)
(* rounds.                                                                 *)
IsRun(f, S, step, s) ==
  /\ f \in [Nat -> S] /\ f[0] = s
  /\ \A k \in Nat : k # 0 => k - 1 \in Nat /\ f[k] = step[f[k - 1]]

LEMMA Iteration ==
  ASSUME NEW S, NEW step \in [S -> S], NEW s \in S
  PROVE  \E f : IsRun(f, S, step, s)
<1> DEFINE Run(g, n) == /\ g \in [0..n -> S] /\ g[0] = s
                        /\ \A k \in 0..(n - 1) : g[k + 1] = step[g[k]]
           T == {n \in Nat : \E g : Run(g, n)}
<1>1. \A n \in Nat : n \in T
  <2>1. 0 \in T
    <3>1. Run([k \in 0..0 |-> s], 0)
      OBVIOUS
    <3> QED BY <3>1
  <2>2. ASSUME NEW n \in Nat, n \in T PROVE n + 1 \in T
    <3>1. PICK g : Run(g, n)
      BY <2>2
    <3> DEFINE e == [k \in 0..(n + 1) |-> IF k = n + 1 THEN step[g[n]] ELSE g[k]]
    <3>2. Run(e, n + 1)
      BY <3>1
    <3>3. \E d : Run(d, n + 1)
      <4> HIDE DEF Run, e
      <4> QED BY <3>2
    <3> QED BY <3>3
  <2> HIDE DEF T
  <2> QED BY <2>1, <2>2, Induction
<1>2. ASSUME NEW n \in Nat, NEW g, NEW e, Run(g, n), Run(e, n + 1)
      PROVE  g[n] = e[n]
  <2> DEFINE A == {k \in Nat : k <= n => g[k] = e[k]}
  <2>1. 0 \in A
    BY <1>2
  <2>2. ASSUME NEW k \in Nat, k \in A PROVE k + 1 \in A
    BY <1>2, <2>2
  <2>3. \A k \in Nat : k \in A
    <3> HIDE DEF A
    <3> QED BY <2>1, <2>2, Induction
  <2> QED BY <2>3
<1> DEFINE F == [n \in Nat |-> CHOOSE g : Run(g, n)]
           f == [n \in Nat |-> F[n][n]]
<1>3. \A n \in Nat : Run(F[n], n)
  BY <1>1
<1> HIDE DEF F
<1>4. f \in [Nat -> S] /\ f[0] = s
  BY <1>3
<1>5. ASSUME NEW k \in Nat PROVE f[k + 1] = step[f[k]]
  <2>1. Run(F[k], k) /\ Run(F[k + 1], k + 1)
    <3> HIDE DEF Run
    <3> QED BY <1>3
  <2>2. F[k][k] = F[k + 1][k]
    <3> HIDE DEF Run
    <3> QED BY <1>2, <2>1
  <2>3. F[k + 1][k + 1] = step[F[k + 1][k]]
    BY <2>1
  <2> QED BY <2>2, <2>3
<1> HIDE DEF f
<1>6. ASSUME NEW k \in Nat, k # 0 PROVE k - 1 \in Nat /\ f[k] = step[f[k - 1]]
  <2>1. k - 1 \in Nat /\ (k - 1) + 1 = k
    BY <1>6
  <2> QED BY <1>5, <2>1
<1>7. IsRun(f, S, step, s)
  BY <1>4, <1>6 DEF IsRun
<1> QED BY <1>7

-----------------------------------------------------------------------------
(* Both comparators are strict weak orders on items with a message, and    *)
(* total on items of different arrival.                                    *)
LEMMA LessOrders ==
  ASSUME NEW s \in Queues, NEW h \in HeapNames, NEW a \in IDs, NEW b \in IDs,
         s.item[a].msg \in Messages, s.item[b].msg \in Messages
  PROVE  /\ ItemLess(s, h, a, b) => ~ItemLess(s, h, b, a)
         /\ s.item[a].order # s.item[b].order =>
              ItemLess(s, h, a, b) \/ ItemLess(s, h, b, a)
<1>1. /\ {s.item[a].order, s.item[b].order} \subseteq Int
      /\ {s.item[a].msg.seq, s.item[b].msg.seq} \subseteq Int
      /\ {s.item[a].msg.priority, s.item[b].msg.priority} \subseteq Int
      /\ {s.item[a].msg.availableAt, s.item[b].msg.availableAt} \subseteq Int
  BY MessagesAssumption DEF Queues, Items
<1> QED BY <1>1 DEF ItemLess, ReadyLess, DelayedLess, Outranks

LEMMA LessTransitive ==
  ASSUME NEW s \in Queues, NEW h \in HeapNames,
         NEW a \in IDs, NEW b \in IDs, NEW c \in IDs,
         s.item[a].msg \in Messages, s.item[b].msg \in Messages,
         s.item[c].msg \in Messages,
         ~ItemLess(s, h, b, a), ~ItemLess(s, h, c, b)
  PROVE  ~ItemLess(s, h, c, a)
<1>1. /\ {s.item[a].order, s.item[b].order, s.item[c].order} \subseteq Int
      /\ {s.item[a].msg.seq, s.item[b].msg.seq, s.item[c].msg.seq} \subseteq Int
      /\ {s.item[a].msg.priority, s.item[b].msg.priority,
          s.item[c].msg.priority} \subseteq Int
      /\ {s.item[a].msg.availableAt, s.item[b].msg.availableAt,
          s.item[c].msg.availableAt} \subseteq Int
  BY MessagesAssumption DEF Queues, Items
<1> QED BY <1>1 DEF ItemLess, ReadyLess, DelayedLess, Outranks

-----------------------------------------------------------------------------
(* Every item in the heap knows its heap and its slot, and has a message.  *)
Placed(s, h) ==
  \A i \in Slots(s, h) :
    /\ s.item[s[h][i]].loc = h /\ s.item[s[h][i]].index = i
    /\ s.item[s[h][i]].msg \in Messages

(* t is s with the first n slots of heap h in another order.               *)
Sifted(s, t, h, n) ==
  /\ t \in Queues
  /\ t.mode = s.mode /\ t.byID = s.byID /\ t.nextOrder = s.nextOrder
  /\ \A g \in HeapNames \ {h} : t[g] = s[g]
  /\ Len(t[h]) = Len(s[h]) /\ Ids(t, h) = Ids(s, h)
  /\ \A i \in Slots(s, h) : i > n => t[h][i] = s[h][i]
  /\ \A id \in IDs :
       /\ t.item[id].msg = s.item[id].msg /\ t.item[id].order = s.item[id].order
       /\ t.item[id].loc = s.item[id].loc
       /\ id \notin Ids(s, h) => t.item[id] = s.item[id]
  /\ Placed(t, h)

LEMMA SiftedNot ==
  ASSUME NEW s \in Queues, NEW h \in HeapNames, NEW n \in Nat, Placed(s, h)
  PROVE  Sifted(s, s, h, n)
BY DEF Sifted

LEMMA SiftedTwice ==
  ASSUME NEW s \in Queues, NEW h \in HeapNames, NEW n \in Nat, NEW t, NEW u,
         Sifted(s, t, h, n), Sifted(t, u, h, n)
  PROVE  Sifted(s, u, h, n)
BY DEF Sifted, Slots

LEMMA SiftedLess ==
  ASSUME NEW s \in Queues, NEW h \in HeapNames, NEW n \in Nat, NEW t,
         Sifted(s, t, h, n), NEW a \in IDs, NEW b \in IDs
  PROVE  ItemLess(t, h, a, b) <=> ItemLess(s, h, a, b)
BY DEF Sifted, ItemLess, ReadyLess, DelayedLess

LEMMA SwapSifts ==
  ASSUME NEW s \in Queues, NEW h \in HeapNames, Placed(s, h),
         NEW n \in Nat, NEW i \in Slots(s, h), NEW j \in Slots(s, h),
         i <= n, j <= n
  PROVE  Sifted(s, Swap(s, h, i, j), h, n)
<1> DEFINE t == Swap(s, h, i, j)
           a == s[h]
<1>1. /\ t \in Queues
      /\ t.mode = s.mode /\ t.byID = s.byID /\ t.nextOrder = s.nextOrder
      /\ \A g \in HeapNames \ {h} : t[g] = s[g]
  BY SwapFacts
<1>2. /\ Len(a) \in Nat /\ \A k \in 1..Len(a) : a[k] \in IDs
      /\ i \in 1..Len(a) /\ j \in 1..Len(a)
  BY HeapTypes DEF Slots
<1>3. Len(t[h]) = Len(a) /\ \A k \in 1..Len(a) :
        t[h][k] = IF k = j THEN a[i] ELSE IF k = i THEN a[j] ELSE a[k]
  BY SwapFacts DEF Slots
<1> HIDE DEF t, a
<1>4. Ids(t, h) = Ids(s, h)
  <2>1. Ids(s, h) = {a[k] : k \in 1..Len(a)} /\ Ids(t, h) = {t[h][k] : k \in 1..Len(a)}
    BY <1>3 DEF Ids, Slots, a
  <2> QED BY <2>1, <1>2, <1>3
<1>6. \A id \in IDs :
        /\ t.item[id].msg = s.item[id].msg /\ t.item[id].order = s.item[id].order
        /\ t.item[id].loc = s.item[id].loc
        /\ id # a[i] /\ id # a[j] => t.item[id] = s.item[id]
  BY SwapFacts DEF t, a
<1>7. t.item[a[j]].index = i
  BY SwapFacts DEF t, a
<1>8. a[i] # a[j] => t.item[a[i]].index = j
  BY SwapFacts DEF t, a
<1>9. \A k, l \in 1..Len(a) : a[k] = a[l] => k = l
  BY <1>2 DEF Placed, Slots, a
<1>10. \A k \in 1..Len(a) : /\ s.item[a[k]].loc = h /\ s.item[a[k]].index = k
                            /\ s.item[a[k]].msg \in Messages
  BY DEF Placed, Slots, a
<1>11. Placed(t, h)
  <2> SUFFICES ASSUME NEW k \in 1..Len(a)
               PROVE  /\ t.item[t[h][k]].loc = h /\ t.item[t[h][k]].index = k
                      /\ t.item[t[h][k]].msg \in Messages
    BY <1>3 DEF Placed, Slots
  <2>1. CASE k = j
    BY <2>1, <1>2, <1>3, <1>6, <1>7, <1>8, <1>9, <1>10
  <2>2. CASE k # j /\ k = i
    BY <2>2, <1>2, <1>3, <1>6, <1>7, <1>10
  <2>3. CASE k # j /\ k # i
    BY <2>3, <1>2, <1>3, <1>6, <1>9, <1>10
  <2> QED BY <2>1, <2>2, <2>3
<1>12. \A k \in Slots(s, h) : k > n => t[h][k] = s[h][k]
  BY <1>2, <1>3 DEF Slots, a
<1>13. a[i] \in Ids(s, h) /\ a[j] \in Ids(s, h)
  BY <1>2 DEF Ids, Slots, a
<1>14. Len(t[h]) = Len(s[h])
  BY <1>3 DEF a
<1>15. Sifted(s, t, h, n)
  BY <1>1, <1>4, <1>6, <1>11, <1>12, <1>13, <1>14 DEF Sifted
<1> QED BY <1>15 DEF t

-----------------------------------------------------------------------------
(* The order of the slots of one heap, before and after a Swap.            *)
LEMMA SlotOrder ==
  ASSUME NEW s \in Queues, NEW h \in HeapNames, Placed(s, h)
  PROVE  /\ \A x, y \in Slots(s, h) : Less(s, h, x, y) => ~Less(s, h, y, x)
         /\ \A x, y, z \in Slots(s, h) :
              ~Less(s, h, y, x) /\ ~Less(s, h, z, y) => ~Less(s, h, z, x)
<1>1. \A x \in Slots(s, h) : s[h][x] \in IDs /\ s.item[s[h][x]].msg \in Messages
  BY HeapTypes DEF Placed
<1>2. ASSUME NEW x \in Slots(s, h), NEW y \in Slots(s, h)
      PROVE  Less(s, h, x, y) => ~Less(s, h, y, x)
  BY <1>1, LessOrders DEF Less
<1>3. ASSUME NEW x \in Slots(s, h), NEW y \in Slots(s, h), NEW z \in Slots(s, h)
      PROVE  ~Less(s, h, y, x) /\ ~Less(s, h, z, y) => ~Less(s, h, z, x)
  BY <1>1, LessTransitive DEF Less
<1> QED BY <1>2, <1>3

Swapped(i, j, k) == IF k = j THEN i ELSE IF k = i THEN j ELSE k

LEMMA SwapLess ==
  ASSUME NEW s \in Queues, NEW h \in HeapNames, Placed(s, h),
         NEW i \in Slots(s, h), NEW j \in Slots(s, h),
         NEW x \in Slots(s, h), NEW y \in Slots(s, h)
  PROVE  Less(Swap(s, h, i, j), h, x, y)
           <=> Less(s, h, Swapped(i, j, x), Swapped(i, j, y))
<1> DEFINE t == Swap(s, h, i, j)
<1>1. Len(s[h]) \in Nat
  BY HeapTypes
<1>2. Sifted(s, t, h, Len(s[h]))
  BY <1>1, SwapSifts DEF Slots
<1>3. \A k \in Slots(s, h) : t[h][k] = s[h][Swapped(i, j, k)]
  BY SwapFacts DEF Swapped
<1>4. \A k \in Slots(s, h) : Swapped(i, j, k) \in Slots(s, h)
  BY DEF Swapped
<1>5. \A k \in Slots(s, h) : s[h][k] \in IDs
  BY HeapTypes
<1> HIDE DEF t
<1>6. Less(t, h, x, y) <=> ItemLess(s, h, t[h][x], t[h][y])
  BY <1>1, <1>2, <1>3, <1>4, <1>5, SiftedLess DEF Less
<1>7. Less(t, h, x, y) <=> Less(s, h, Swapped(i, j, x), Swapped(i, j, y))
  BY <1>3, <1>6 DEF Less
<1> QED BY <1>7 DEF t

LEMMA Halves ==
  ASSUME NEW k \in Nat, k > 1
  PROVE  /\ k \div 2 \in Nat /\ 1 <= k \div 2 /\ k \div 2 < k
         /\ k = 2 * (k \div 2) \/ k = 2 * (k \div 2) + 1
OBVIOUS

-----------------------------------------------------------------------------
(* The first n slots are a heap.                                           *)
Heap(s, h, n) == \A k \in 2..n : ~Less(s, h, k, k \div 2)

(* They are one but for the item in slot j, which may have to move up.     *)
HeapBut(s, h, j, n) ==
  \A k \in 2..n :
    /\ k # j => ~Less(s, h, k, k \div 2)
    /\ k \div 2 = j /\ j > 1 => ~Less(s, h, k, j \div 2)

UpRuns(s, h, n) ==
  {r \in [q : Queues, at : 1..n] : Sifted(s, r.q, h, n) /\ HeapBut(r.q, h, r.at, n)}

UpDone(r, h) == r.at = 1 \/ ~Less(r.q, h, r.at, r.at \div 2)

LEMMA UpKeeps ==
  ASSUME NEW s \in Queues, NEW h \in HeapNames, NEW n \in Slots(s, h),
         NEW r \in UpRuns(s, h, n)
  PROVE  /\ UpRound(r, h) \in UpRuns(s, h, n)
         /\ UpDone(r, h) \/ UpRound(r, h).at < r.at
         /\ UpDone(r, h) => UpRound(r, h) = r
<1>1. CASE UpDone(r, h)
  BY <1>1 DEF UpDone, UpRound
<1>2. CASE ~UpDone(r, h)
  <2> DEFINE j == r.at
             i == j \div 2
             p == r.q
             u == Swap(p, h, i, j)
             B(x, y) == Less(p, h, x, y)
  <2>1. /\ p \in Queues /\ Sifted(s, p, h, n) /\ HeapBut(p, h, j, n)
        /\ j \in 1..n /\ n \in Nat /\ Placed(p, h) /\ Slots(p, h) = Slots(s, h)
        /\ 1..n \subseteq Slots(p, h)
    BY HeapTypes DEF UpRuns, Sifted, Slots
  <2>2. j > 1 /\ B(j, i) /\ i \in 1..n /\ i < j /\ (j = 2 * i \/ j = 2 * i + 1)
    BY <1>2, <2>1, Halves DEF UpDone
  <2>3. UpRound(r, h) = [q |-> u, at |-> i]
    BY <2>2 DEF UpRound
  <2>4. Sifted(s, u, h, n)
    <3>1. Sifted(p, u, h, n)
      BY <2>1, <2>2, SwapSifts
    <3> QED BY <2>1, <3>1, SiftedTwice
  <2>5. u \in Queues
    BY <2>4 DEF Sifted
  <2>6. HeapBut(u, h, i, n)
    <3>1. \A x, y \in 1..n : Less(u, h, x, y) <=> B(Swapped(i, j, x), Swapped(i, j, y))
      BY <2>1, <2>2, SwapLess
    <3>2. /\ \A x, y \in 1..n : B(x, y) => ~B(y, x)
          /\ \A x, y, z \in 1..n : ~B(y, x) /\ ~B(z, y) => ~B(z, x)
      BY <2>1, SlotOrder
    <3>3. \A k \in 2..n : /\ k # j => ~B(k, k \div 2)
                          /\ k \div 2 = j /\ j > 1 => ~B(k, i)
      BY <2>1 DEF HeapBut
    <3> HIDE DEF B, u, p, i, j
    <3>4. ASSUME NEW k \in 2..n, k # i PROVE ~Less(u, h, k, k \div 2)
      <4>1. k \div 2 \in 1..n /\ k \div 2 < k
        BY <2>1, Halves
      <4>2. CASE k = j
        BY <4>1, <4>2, <2>1, <2>2, <3>1, <3>2 DEF Swapped, i
      <4>3. CASE k # j /\ k \div 2 = i
        <5>1. ~B(k, i)
          BY <4>3, <3>3
        <5>2. ~B(i, j)
          BY <2>1, <2>2, <3>2
        <5>3. ~B(k, j)
          BY <5>1, <5>2, <2>1, <2>2, <3>2
        <5> QED BY <5>3, <4>1, <4>3, <3>1, <3>4, <2>1, <2>2 DEF Swapped
      <4>4. CASE k # j /\ k \div 2 = j
        BY <4>1, <4>4, <2>1, <2>2, <3>1, <3>3, <3>4 DEF Swapped
      <4>5. CASE k # j /\ k \div 2 # i /\ k \div 2 # j
        BY <4>1, <4>5, <2>1, <2>2, <3>1, <3>3, <3>4 DEF Swapped
      <4> QED BY <4>2, <4>3, <4>4, <4>5
    <3>5. ASSUME NEW k \in 2..n, k \div 2 = i, i > 1 PROVE ~Less(u, h, k, i \div 2)
      <4>1. i \div 2 \in 1..n /\ i \div 2 < i /\ k > i
        BY <3>5, <2>1, <2>2, Halves
      <4>2. ~B(i, i \div 2)
        BY <3>5, <2>1, <2>2, <3>3
      <4>3. CASE k = j
        BY <4>1, <4>2, <4>3, <2>1, <2>2, <3>1 DEF Swapped
      <4>4. CASE k # j
        <5>1. ~B(k, i)
          BY <4>4, <3>3, <3>5
        <5>2. ~B(k, i \div 2)
          BY <5>1, <4>1, <4>2, <2>1, <2>2, <3>2
        <5> QED BY <5>2, <4>1, <4>4, <2>1, <2>2, <3>1 DEF Swapped
      <4> QED BY <4>3, <4>4
    <3> QED BY <3>4, <3>5 DEF HeapBut
  <2> HIDE DEF u, i, j
  <2>7. [q |-> u, at |-> i] \in UpRuns(s, h, n)
    BY <2>2, <2>4, <2>5, <2>6 DEF UpRuns
  <2> QED BY <1>2, <2>2, <2>3, <2>7 DEF j
<1> QED BY <1>1, <1>2

(* up: the item of slot j finds its place.                                 *)
LEMMA UpFacts ==
  ASSUME NEW s \in Queues, NEW h \in HeapNames, Placed(s, h),
         NEW n \in Slots(s, h), NEW j \in 1..n, HeapBut(s, h, j, n)
  PROVE  Sifted(s, Up(s, h, j), h, n) /\ Heap(Up(s, h, j), h, n)
<1> DEFINE S == UpRuns(s, h, n)
           step == [r \in S |-> UpRound(r, h)]
           start == [q |-> s, at |-> j]
           run == CHOOSE run : run = [k \in Nat |->
                    IF k = 0 THEN start ELSE UpRound(run[k - 1], h)]
<1>0. n \in Nat /\ j \in Nat
  BY DEF Slots
<1>1. start \in S
  BY <1>0, SiftedNot DEF UpRuns
<1>2. step \in [S -> S]
  BY UpKeeps
<1>3. PICK f : IsRun(f, S, step, start)
  <2> HIDE DEF S, step, start
  <2> QED BY <1>1, <1>2, Iteration
<1>4. f = [k \in Nat |-> IF k = 0 THEN start ELSE UpRound(f[k - 1], h)]
  <2> HIDE DEF S, start
  <2> QED BY <1>3 DEF IsRun
<1>5. run = [k \in Nat |-> IF k = 0 THEN start ELSE UpRound(run[k - 1], h)]
  <2> HIDE DEF start
  <2> QED BY <1>4
<1>6. Up(s, h, j) = run[j].q
  BY DEF Up
<1> HIDE DEF run
<1>7. run[0] = start /\ \A k \in Nat : run[k + 1] = UpRound(run[k], h)
  <2> HIDE DEF start
  <2> QED BY <1>5
<1> DEFINE T == {k \in Nat : run[k] \in S /\ (UpDone(run[k], h) \/ run[k].at + k <= j)}
<1>8. 0 \in T
  BY <1>0, <1>1, <1>7
<1>9. ASSUME NEW k \in Nat, k \in T PROVE k + 1 \in T
  <2>1. /\ run[k] \in S /\ run[k + 1] = UpRound(run[k], h)
        /\ run[k + 1] \in S
        /\ UpDone(run[k], h) \/ run[k + 1].at < run[k].at
        /\ UpDone(run[k], h) => run[k + 1] = run[k]
    BY <1>7, <1>9, UpKeeps
  <2>2. run[k].at \in Nat /\ run[k + 1].at \in Nat
    BY <1>0, <2>1 DEF UpRuns
  <2> QED BY <1>0, <1>9, <2>1, <2>2
<1>10. j \in T
  <2> HIDE DEF T
  <2> QED BY <1>0, <1>8, <1>9, Induction
<1>11. run[j] \in S /\ run[j].at \in 1..n
  BY <1>10 DEF UpRuns
<1>12. UpDone(run[j], h)
  BY <1>0, <1>10, <1>11
<1>13. Heap(run[j].q, h, n)
  BY <1>11, <1>12 DEF UpDone, UpRuns, HeapBut, Heap
<1> QED BY <1>6, <1>11, <1>13 DEF UpRuns

-----------------------------------------------------------------------------
(* The first n slots are a heap but for the item in slot i, which may have *)
(* to move further down, and, until it has moved, for its place below the  *)
(* parent of the slot i0 where it started.                                 *)
HeapSink(s, h, i0, i, n) ==
  \A k \in 2..n :
    /\ k \div 2 # i /\ (k # i0 \/ i # i0) => ~Less(s, h, k, k \div 2)
    /\ k \div 2 = i /\ i > 1 => ~Less(s, h, k, i \div 2)

DownRuns(s, h, i0, n) ==
  {r \in [q : Queues, at : i0..Len(s[h])] :
     Sifted(s, r.q, h, n) /\ HeapSink(r.q, h, i0, r.at, n)}

LesserChild(r, h, n) ==
  IF 2 * r.at < n /\ Less(r.q, h, 2 * r.at + 1, 2 * r.at) THEN 2 * r.at + 1 ELSE 2 * r.at

DownDone(r, h, n) == 2 * r.at > n \/ ~Less(r.q, h, LesserChild(r, h, n), r.at)

LEMMA DownKeeps ==
  ASSUME NEW s \in Queues, NEW h \in HeapNames, NEW n \in 0..Len(s[h]),
         NEW i0 \in Slots(s, h), NEW r \in DownRuns(s, h, i0, n)
  PROVE  /\ DownRound(r, h, n) \in DownRuns(s, h, i0, n)
         /\ DownDone(r, h, n) \/ DownRound(r, h, n).at > r.at
         /\ DownDone(r, h, n) => DownRound(r, h, n) = r
<1>1. CASE DownDone(r, h, n)
  BY <1>1 DEF DownDone, DownRound, LesserChild
<1>2. CASE ~DownDone(r, h, n)
  <2> DEFINE i == r.at
             j == LesserChild(r, h, n)
             p == r.q
             u == Swap(p, h, i, j)
             B(x, y) == Less(p, h, x, y)
  <2>0. Len(s[h]) \in Nat /\ n \in Nat /\ n <= Len(s[h]) /\ i0 \in Nat /\ i0 >= 1
    BY HeapTypes DEF Slots
  <2>1. /\ p \in Queues /\ Sifted(s, p, h, n) /\ HeapSink(p, h, i0, i, n)
        /\ i \in i0..Len(s[h]) /\ Placed(p, h) /\ Slots(p, h) = Slots(s, h)
        /\ 1..n \subseteq Slots(p, h) /\ Slots(p, h) = 1..Len(s[h])
    BY <2>0 DEF DownRuns, Sifted, Slots
  <2>2. /\ i \in 1..n /\ j \in 2..n /\ i < j /\ (j = 2 * i \/ j = 2 * i + 1) /\ j \div 2 = i
        /\ B(j, i)
    BY <1>2, <2>0, <2>1 DEF DownDone, LesserChild
  <2>3. DownRound(r, h, n) = [q |-> u, at |-> j]
    BY <1>2 DEF DownRound, DownDone, LesserChild
  <2>4. Sifted(s, u, h, n)
    <3>1. Sifted(p, u, h, n)
      BY <2>0, <2>1, <2>2, SwapSifts
    <3> QED BY <2>0, <2>1, <3>1, SiftedTwice
  <2>5. u \in Queues
    BY <2>4 DEF Sifted
  <2>6. HeapSink(u, h, i0, j, n)
    <3>1. \A x, y \in 1..n : Less(u, h, x, y) <=> B(Swapped(i, j, x), Swapped(i, j, y))
      <4>1. i \in Slots(p, h) /\ j \in Slots(p, h) /\ p \in Queues /\ Placed(p, h)
        BY <2>0, <2>1, <2>2
      <4> HIDE DEF i, j, p
      <4> QED BY <2>1, <4>1, SwapLess
    <3>2. /\ \A x, y \in 1..n : B(x, y) => ~B(y, x)
          /\ \A x, y, z \in 1..n : ~B(y, x) /\ ~B(z, y) => ~B(z, x)
      BY <2>1, SlotOrder
    <3>3. \A k \in 2..n : /\ k \div 2 # i /\ (k # i0 \/ i # i0) => ~B(k, k \div 2)
                          /\ k \div 2 = i /\ i > 1 => ~B(k, i \div 2)
      BY <2>1 DEF HeapSink
    <3>4. \A k \in 2..n : k \div 2 = i /\ k # j => ~B(k, j)
      <4> SUFFICES ASSUME NEW k \in 2..n, k \div 2 = i, k # j PROVE ~B(k, j)
        OBVIOUS
      <4>1. k = 2 * i \/ k = 2 * i + 1
        BY Halves
      <4>2. CASE k = 2 * i
        BY <4>2, <2>0, <2>1, <2>2, <3>2 DEF LesserChild
      <4>3. CASE k = 2 * i + 1
        BY <4>3, <2>0, <2>1, <2>2 DEF LesserChild
      <4> QED BY <4>1, <4>2, <4>3
    <3> HIDE DEF B, u, p, i, j
    <3>5. ASSUME NEW k \in 2..n, k \div 2 # j PROVE ~Less(u, h, k, k \div 2)
      <4>1. k \div 2 \in 1..n /\ k \div 2 < k
        BY <2>0, Halves
      <4>2. CASE k = j
        BY <4>1, <4>2, <2>0, <2>2, <3>1, <3>2 DEF Swapped
      <4>3. CASE k # j /\ k \div 2 = i
        BY <4>1, <4>3, <2>0, <2>2, <3>1, <3>4, <3>5 DEF Swapped
      <4>4. CASE k = i
        BY <4>1, <4>4, <2>0, <2>1, <2>2, <3>1, <3>3 DEF Swapped
      <4>5. CASE k # j /\ k # i /\ k \div 2 # i
        <5>1. k # i0 \/ i # i0
          BY <4>5
        <5>2. ~B(k, k \div 2)
          BY <4>5, <5>1, <3>3
        <5> QED BY <5>2, <4>1, <4>5, <2>0, <2>2, <3>1, <3>5 DEF Swapped
      <4> QED BY <4>2, <4>3, <4>4, <4>5
    <3>6. ASSUME NEW k \in 2..n, k \div 2 = j PROVE ~Less(u, h, k, j \div 2)
      <4>1. k > j /\ j > i /\ i >= i0 /\ i # j
        BY <3>6, <2>0, <2>1, <2>2, Halves
      <4>2. ~B(k, j)
        BY <4>1, <3>3, <3>6, <2>0
      <4> QED BY <4>1, <4>2, <2>0, <2>2, <3>1 DEF Swapped
    <3> QED BY <3>5, <3>6 DEF HeapSink
  <2> HIDE DEF u, i, j
  <2>7. [q |-> u, at |-> j] \in DownRuns(s, h, i0, n)
    BY <2>0, <2>1, <2>2, <2>4, <2>5, <2>6 DEF DownRuns
  <2> QED BY <1>2, <2>0, <2>2, <2>3, <2>7 DEF i
<1> QED BY <1>1, <1>2

(* down: the item of slot i finds its place below, or has not moved and    *)
(* may have to move up.                                                    *)
LEMMA DownFacts ==
  ASSUME NEW s \in Queues, NEW h \in HeapNames, Placed(s, h),
         NEW n \in 0..Len(s[h]), NEW i \in Slots(s, h), HeapSink(s, h, i, i, n),
         NEW r, r = Down(s, h, i, n)
  PROVE  /\ Sifted(s, r.q, h, n) /\ r.at \in Nat
         /\ r.at > i \/ i = 1 => Heap(r.q, h, n)
         /\ ~(r.at > i) => HeapBut(r.q, h, i, n)
<1> DEFINE S == DownRuns(s, h, i, n)
           step == [x \in S |-> DownRound(x, h, n)]
           start == [q |-> s, at |-> i]
           run == CHOOSE run : run = [k \in Nat |->
                    IF k = 0 THEN start ELSE DownRound(run[k - 1], h, n)]
<1>0. Len(s[h]) \in Nat /\ n \in Nat /\ i \in Nat /\ i >= 1 /\ i <= Len(s[h])
  BY HeapTypes DEF Slots
<1>1. start \in S
  BY <1>0, SiftedNot DEF DownRuns
<1>2. step \in [S -> S]
  BY DownKeeps
<1>3. PICK f : IsRun(f, S, step, start)
  <2> HIDE DEF S, step, start
  <2> QED BY <1>1, <1>2, Iteration
<1>4. f = [k \in Nat |-> IF k = 0 THEN start ELSE DownRound(f[k - 1], h, n)]
  <2> HIDE DEF S, start
  <2> QED BY <1>3 DEF IsRun
<1>5. run = [k \in Nat |-> IF k = 0 THEN start ELSE DownRound(run[k - 1], h, n)]
  <2> HIDE DEF start
  <2> QED BY <1>4
<1>6. r = run[n]
  BY DEF Down
<1> HIDE DEF run
<1>7. run[0] = start /\ \A k \in Nat : run[k + 1] = DownRound(run[k], h, n)
  <2> HIDE DEF start
  <2> QED BY <1>5
<1> DEFINE T == {k \in Nat : run[k] \in S /\ (DownDone(run[k], h, n) \/ run[k].at >= i + k)}
<1>8. 0 \in T
  <2>1. run[0] \in S /\ run[0].at = i
    BY <1>1, <1>7
  <2> QED BY <1>0, <2>1
<1>9. ASSUME NEW k \in Nat, k \in T PROVE k + 1 \in T
  <2>1. /\ run[k] \in S /\ run[k + 1] = DownRound(run[k], h, n)
        /\ run[k + 1] \in S
        /\ DownDone(run[k], h, n) \/ run[k + 1].at > run[k].at
        /\ DownDone(run[k], h, n) => run[k + 1] = run[k]
    BY <1>7, <1>9, DownKeeps
  <2>2. run[k].at \in Nat /\ run[k + 1].at \in Nat
    BY <1>0, <2>1 DEF DownRuns
  <2> QED BY <1>0, <1>9, <2>1, <2>2
<1>10. n \in T
  <2> HIDE DEF T
  <2> QED BY <1>0, <1>8, <1>9, Induction
<1>11. r \in S /\ r.at \in i..Len(s[h])
  BY <1>6, <1>10 DEF DownRuns
<1>12. DownDone(r, h, n)
  BY <1>0, <1>6, <1>10, <1>11 DEF DownDone
<1>13. /\ r.q \in Queues /\ Sifted(s, r.q, h, n) /\ HeapSink(r.q, h, i, r.at, n)
       /\ Placed(r.q, h) /\ Slots(r.q, h) = 1..Len(s[h])
  BY <1>11 DEF DownRuns, Sifted, Slots
<1> HIDE DEF S, T
<1>14. ASSUME NEW k \in 2..n, k \div 2 = r.at PROVE ~Less(r.q, h, k, r.at)
  <2> DEFINE l == 2 * r.at
             j == LesserChild(r, h, n)
  <2>1. (k = l \/ k = l + 1) /\ r.at \in Nat
    BY <1>0, <1>11, <1>14, Halves
  <2>2. l <= n /\ ~Less(r.q, h, j, r.at)
    BY <1>0, <1>12, <1>14, <2>1 DEF DownDone
  <2>3. \A x, y \in 1..n : Less(r.q, h, x, y) => ~Less(r.q, h, y, x)
    BY <1>0, <1>13, SlotOrder
  <2>4. \A x, y, z \in 1..n :
          ~Less(r.q, h, y, x) /\ ~Less(r.q, h, z, y) => ~Less(r.q, h, z, x)
    BY <1>0, <1>13, SlotOrder
  <2>5. j \in 1..n /\ r.at \in 1..n
    BY <1>0, <1>11, <2>1, <2>2 DEF LesserChild
  <2>6. k = j \/ ~Less(r.q, h, k, j)
    BY <1>0, <2>1, <2>3 DEF LesserChild
  <2> HIDE DEF j
  <2> QED BY <2>2, <2>4, <2>5, <2>6
<1>15. \A k \in 2..n : k # i \/ r.at # i => ~Less(r.q, h, k, k \div 2)
  BY <1>13, <1>14 DEF HeapSink
<1>16. r.at > i \/ i = 1 => Heap(r.q, h, n)
  BY <1>0, <1>11, <1>15 DEF Heap
<1>17. ~(r.at > i) => HeapBut(r.q, h, i, n)
  BY <1>0, <1>11, <1>13, <1>15 DEF HeapBut, HeapSink
<1> QED BY <1>0, <1>11, <1>13, <1>16, <1>17

-----------------------------------------------------------------------------
(* Heap h is in order: the bookkeeping of its items, and the heap property.*)
InOrder(s, h) == Placed(s, h) /\ Heap(s, h, Len(s[h]))

(* t is s without id in heap h.                                            *)
Taken(s, t, h, id) ==
  /\ t \in Queues
  /\ t.mode = s.mode /\ t.byID = s.byID /\ t.nextOrder = s.nextOrder
  /\ \A g \in HeapNames \ {h} : t[g] = s[g]
  /\ Len(t[h]) = Len(s[h]) - 1 /\ Ids(t, h) = Ids(s, h) \ {id}
  /\ \A x \in IDs :
       /\ t.item[x].msg = s.item[x].msg /\ t.item[x].order = s.item[x].order
       /\ t.item[x].loc = s.item[x].loc
       /\ x \notin Ids(s, h) => t.item[x] = s.item[x]
  /\ InOrder(t, h)

(* t is s with id added to heap h.                                         *)
Added(s, t, h, id) ==
  /\ t \in Queues
  /\ t.mode = s.mode /\ t.byID = s.byID /\ t.nextOrder = s.nextOrder
  /\ \A g \in HeapNames \ {h} : t[g] = s[g]
  /\ Len(t[h]) = Len(s[h]) + 1 /\ Ids(t, h) = Ids(s, h) \cup {id}
  /\ \A x \in IDs :
       /\ t.item[x].msg = s.item[x].msg /\ t.item[x].order = s.item[x].order
       /\ x \notin Ids(s, h) \cup {id} => t.item[x] = s.item[x]
  /\ InOrder(t, h)

LEMMA SlotsDiffer ==
  ASSUME NEW s \in Queues, NEW h \in HeapNames, Placed(s, h)
  PROVE  \A x, y \in Slots(s, h) : s[h][x] = s[h][y] => x = y
BY DEF Placed

PutAt(it, h, n) == [it EXCEPT !.loc = h, !.index = n]

LEMMA PutAtFacts ==
  ASSUME NEW it \in Items, NEW h \in HeapNames, NEW n \in Nat
  PROVE  /\ PutAt(it, h, n) \in Items
         /\ PutAt(it, h, n).loc = h /\ PutAt(it, h, n).index = n
         /\ PutAt(it, h, n).msg = it.msg /\ PutAt(it, h, n).order = it.order
BY DEF PutAt, Items

(* The Push method of a heap.                                              *)
LEMMA PushItemFacts ==
  ASSUME NEW s \in Queues, NEW h \in HeapNames, NEW id \in IDs,
         NEW t, t = PushItem(s, h, id)
  PROVE  /\ t \in Queues
         /\ t.mode = s.mode /\ t.byID = s.byID /\ t.nextOrder = s.nextOrder
         /\ \A g \in HeapNames \ {h} : t[g] = s[g]
         /\ Len(t[h]) = Len(s[h]) + 1 /\ t[h][Len(s[h]) + 1] = id
         /\ \A k \in Slots(s, h) : t[h][k] = s[h][k]
         /\ \A x \in IDs :
              /\ t.item[x].msg = s.item[x].msg /\ t.item[x].order = s.item[x].order
              /\ x # id => t.item[x] = s.item[x]
         /\ t.item[id].loc = h /\ t.item[id].index = Len(s[h]) + 1
<1> DEFINE a == Append(s[h], id)
           it == PutAt(s.item[id], h, Len(s[h]) + 1)
           b == [s.item EXCEPT ![id] = it]
<1>1. /\ s.item \in [IDs -> Items] /\ s[h] \in Seq(IDs) /\ Len(s[h]) \in Nat
      /\ s.item[id] \in Items
  BY HeapTypes DEF Queues
<1>2. /\ a \in Seq(IDs) /\ Len(a) = Len(s[h]) + 1 /\ a[Len(s[h]) + 1] = id
      /\ \A k \in Slots(s, h) : a[k] = s[h][k]
  BY <1>1 DEF Slots
<1>3. /\ it \in Items /\ it.loc = h /\ it.index = Len(s[h]) + 1
      /\ it.msg = s.item[id].msg /\ it.order = s.item[id].order
  <2>1. Len(s[h]) + 1 \in Nat
    BY <1>1
  <2> QED BY <1>1, <2>1, PutAtFacts
<1>4. t = With(s, h, a, b)
  <2>1. CASE h = "ready"
    BY <2>1, <1>1 DEF PushItem, With, Queues, Items, PutAt
  <2>2. CASE h = "delayed"
    BY <2>2, <1>1 DEF PushItem, With, Queues, Items, PutAt
  <2> QED BY <2>1, <2>2 DEF HeapNames
<1> HIDE DEF a, it
<1>5. b \in [IDs -> Items] /\ b[id] = it /\ \A x \in IDs : x # id => b[x] = s.item[x]
  BY <1>1, <1>3
<1> HIDE DEF b
<1>6. /\ t \in Queues
      /\ t[h] = a /\ t.item = b
      /\ \A g \in HeapNames \ {h} : t[g] = s[g]
      /\ t.mode = s.mode /\ t.byID = s.byID /\ t.nextOrder = s.nextOrder
  BY <1>2, <1>4, <1>5, WithFacts
<1> QED BY <1>2, <1>3, <1>5, <1>6

(* The Pop method of a heap.                                               *)
LEMMA PopItemFacts ==
  ASSUME NEW s \in Queues, NEW h \in HeapNames, Len(s[h]) > 0,
         NEW t, t = PopItem(s, h)
  PROVE  /\ t \in Queues
         /\ t.mode = s.mode /\ t.byID = s.byID /\ t.nextOrder = s.nextOrder
         /\ \A g \in HeapNames \ {h} : t[g] = s[g]
         /\ Len(t[h]) = Len(s[h]) - 1
         /\ \A k \in Slots(t, h) : t[h][k] = s[h][k]
         /\ \A x \in IDs :
              /\ t.item[x].msg = s.item[x].msg /\ t.item[x].order = s.item[x].order
              /\ t.item[x].loc = s.item[x].loc
              /\ x # s[h][Len(s[h])] => t.item[x] = s.item[x]
<1> DEFINE n == Len(s[h])
           a == SubSeq(s[h], 1, n - 1)
           id == s[h][n]
           it == [s.item[id] EXCEPT !.index = 0]
           b == [s.item EXCEPT ![id] = it]
<1>1. /\ s.item \in [IDs -> Items] /\ s[h] \in Seq(IDs) /\ n \in Nat /\ id \in IDs
      /\ s.item[id] \in Items
  BY HeapTypes DEF Queues, Slots
<1>2. /\ a \in Seq(IDs) /\ Len(a) = n - 1 /\ \A k \in 1..(n - 1) : a[k] = s[h][k]
  BY <1>1
<1>3. /\ it \in Items /\ it.loc = s.item[id].loc
      /\ it.msg = s.item[id].msg /\ it.order = s.item[id].order
  BY <1>1 DEF Items
<1>4. t = With(s, h, a, b)
  <2>1. CASE h = "ready"
    BY <2>1, <1>1 DEF PopItem, With, Queues, Items
  <2>2. CASE h = "delayed"
    BY <2>2, <1>1 DEF PopItem, With, Queues, Items
  <2> QED BY <2>1, <2>2 DEF HeapNames
<1> HIDE DEF a, it, id
<1>5. b \in [IDs -> Items] /\ b[id] = it /\ \A x \in IDs : x # id => b[x] = s.item[x]
  BY <1>1, <1>3
<1> HIDE DEF b
<1>6. /\ t \in Queues
      /\ t[h] = a /\ t.item = b
      /\ \A g \in HeapNames \ {h} : t[g] = s[g]
      /\ t.mode = s.mode /\ t.byID = s.byID /\ t.nextOrder = s.nextOrder
  BY <1>1, <1>2, <1>4, <1>5, WithFacts
<1>7. \A x \in IDs :
        /\ t.item[x].msg = s.item[x].msg /\ t.item[x].order = s.item[x].order
        /\ t.item[x].loc = s.item[x].loc
        /\ x # id => t.item[x] = s.item[x]
  BY <1>3, <1>5, <1>6
<1>8. Len(t[h]) = n - 1 /\ \A k \in Slots(t, h) : t[h][k] = s[h][k]
  BY <1>2, <1>6 DEF Slots
<1> QED BY <1>6, <1>7, <1>8 DEF id

-----------------------------------------------------------------------------
(* heap.Push.                                                              *)
LEMMA HeapPushFacts ==
  ASSUME NEW s \in Queues, NEW h \in HeapNames, InOrder(s, h),
         NEW id \in IDs, id \notin Ids(s, h), s.item[id].msg \in Messages
  PROVE  Added(s, HeapPush(s, h, id), h, id)
<1> DEFINE n == Len(s[h]) + 1
           p == PushItem(s, h, id)
           t == Up(p, h, n)
<1>1. Len(s[h]) \in Nat /\ \A k \in Slots(s, h) : s[h][k] \in IDs /\ s[h][k] # id
  BY HeapTypes DEF Ids
<1>2. /\ p \in Queues
      /\ p.mode = s.mode /\ p.byID = s.byID /\ p.nextOrder = s.nextOrder
      /\ \A g \in HeapNames \ {h} : p[g] = s[g]
      /\ Len(p[h]) = n /\ p[h][n] = id
      /\ \A k \in Slots(s, h) : p[h][k] = s[h][k]
      /\ \A x \in IDs :
           /\ p.item[x].msg = s.item[x].msg /\ p.item[x].order = s.item[x].order
           /\ x # id => p.item[x] = s.item[x]
      /\ p.item[id].loc = h /\ p.item[id].index = n
  BY PushItemFacts
<1> HIDE DEF p
<1>3. Slots(p, h) = 1..n /\ Slots(s, h) = 1..(n - 1) /\ n \in Nat
  BY <1>1, <1>2 DEF Slots
<1> HIDE DEF n
<1>4. Placed(p, h)
  <2> SUFFICES ASSUME NEW k \in 1..n
               PROVE  /\ p.item[p[h][k]].loc = h /\ p.item[p[h][k]].index = k
                      /\ p.item[p[h][k]].msg \in Messages
    BY <1>3 DEF Placed
  <2>1. CASE k = n
    BY <2>1, <1>2
  <2>2. CASE k # n
    <3>1. k \in Slots(s, h)
      BY <2>2, <1>3
    <3> QED BY <3>1, <1>1, <1>2 DEF InOrder, Placed
  <2> QED BY <2>1, <2>2
<1>5. \A a, b \in IDs : ItemLess(p, h, a, b) <=> ItemLess(s, h, a, b)
  BY <1>2 DEF ItemLess, ReadyLess, DelayedLess
<1>6. HeapBut(p, h, n, n)
  <2> SUFFICES ASSUME NEW k \in 2..n
               PROVE  /\ k # n => ~Less(p, h, k, k \div 2)
                      /\ k \div 2 # n
    BY DEF HeapBut
  <2>1. k \div 2 \in 1..n /\ k \div 2 < k
    BY <1>3, Halves
  <2>2. ASSUME k # n PROVE ~Less(p, h, k, k \div 2)
    <3>1. k \in Slots(s, h) /\ k \div 2 \in Slots(s, h) /\ k \in 2..Len(s[h])
      BY <1>1, <1>3, <2>1, <2>2 DEF Slots, n
    <3>2. ~Less(s, h, k, k \div 2)
      BY <3>1 DEF InOrder, Heap
    <3> QED BY <3>1, <3>2, <1>1, <1>2, <1>5 DEF Less
  <2> QED BY <2>1, <2>2, <1>3
<1>7. Sifted(p, t, h, n) /\ Heap(t, h, n)
  <2>1. n \in Slots(p, h) /\ n \in 1..n
    BY <1>1, <1>3 DEF n
  <2> QED BY <2>1, <1>2, <1>4, <1>6, UpFacts
<1>8. HeapPush(s, h, id) = t
  BY DEF HeapPush, n, p
<1> HIDE DEF t
<1>9. Ids(p, h) = Ids(s, h) \cup {id}
  <2>1. \A k \in 1..n : k = n \/ k \in Slots(s, h)
    BY <1>3
  <2>2. Slots(s, h) \subseteq 1..n /\ n \in 1..n
    BY <1>1, <1>3 DEF n
  <2> QED BY <2>1, <2>2, <1>2, <1>3 DEF Ids
<1>10. Added(s, t, h, id)
  <2>1. Len(t[h]) = Len(s[h]) + 1 /\ Len(t[h]) = n
    BY <1>2, <1>7 DEF Sifted, n
  <2>2. InOrder(t, h)
    BY <1>7, <2>1 DEF Sifted, InOrder
  <2>3. \A x \in IDs :
           /\ t.item[x].msg = s.item[x].msg /\ t.item[x].order = s.item[x].order
           /\ x \notin Ids(s, h) \cup {id} => t.item[x] = s.item[x]
    BY <1>2, <1>7, <1>9 DEF Sifted
  <2> QED BY <1>2, <1>7, <1>9, <2>1, <2>2, <2>3 DEF Sifted, Added
<1> QED BY <1>8, <1>10

(* Whatever rearranged the heap, cutting off the last slot takes its item. *)
LEMMA CutLast ==
  ASSUME NEW s \in Queues, NEW h \in HeapNames, NEW d,
         Len(s[h]) > 0, Sifted(s, d, h, Len(s[h])),
         Heap(d, h, Len(s[h]) - 1), NEW id, d[h][Len(s[h])] = id
  PROVE  Taken(s, PopItem(d, h), h, id)
<1> DEFINE n == Len(s[h])
           t == PopItem(d, h)
<1>1. /\ d \in Queues /\ Len(d[h]) = n /\ n \in Nat /\ n > 0
      /\ Placed(d, h) /\ Ids(d, h) = Ids(s, h) /\ Slots(d, h) = 1..n
  BY HeapTypes DEF Sifted, Slots
<1>2. /\ t \in Queues
      /\ t.mode = d.mode /\ t.byID = d.byID /\ t.nextOrder = d.nextOrder
      /\ \A g \in HeapNames \ {h} : t[g] = d[g]
      /\ Len(t[h]) = n - 1
      /\ \A k \in Slots(t, h) : t[h][k] = d[h][k]
      /\ \A x \in IDs :
           /\ t.item[x].msg = d.item[x].msg /\ t.item[x].order = d.item[x].order
           /\ t.item[x].loc = d.item[x].loc
           /\ x # id => t.item[x] = d.item[x]
  BY <1>1, PopItemFacts
<1> HIDE DEF t
<1>3. Slots(t, h) = 1..(n - 1)
  BY <1>2 DEF Slots
<1>4. \A k \in 1..n : d[h][k] \in IDs /\ (d[h][k] = id => k = n)
  BY <1>1, HeapTypes, SlotsDiffer
<1>5. Ids(t, h) = Ids(s, h) \ {id}
  <2>1. Ids(d, h) = {d[h][k] : k \in 1..n} /\ Ids(t, h) = {d[h][k] : k \in 1..(n - 1)}
    BY <1>1, <1>2, <1>3 DEF Ids
  <2> QED BY <2>1, <1>1, <1>4
<1>6. Placed(t, h)
  <2> SUFFICES ASSUME NEW k \in 1..(n - 1)
               PROVE  /\ t.item[t[h][k]].loc = h /\ t.item[t[h][k]].index = k
                      /\ t.item[t[h][k]].msg \in Messages
    BY <1>3 DEF Placed
  <2>1. k \in 1..n /\ d[h][k] # id /\ d[h][k] \in IDs /\ t[h][k] = d[h][k]
    BY <1>1, <1>2, <1>3, <1>4
  <2> QED BY <2>1, <1>1, <1>2 DEF Placed
<1>7. Heap(t, h, n - 1)
  <2>1. \A a, b \in IDs : ItemLess(t, h, a, b) <=> ItemLess(d, h, a, b)
    BY <1>2 DEF ItemLess, ReadyLess, DelayedLess
  <2> SUFFICES ASSUME NEW k \in 2..(n - 1) PROVE ~Less(t, h, k, k \div 2)
    BY DEF Heap
  <2>2. k \in 1..(n - 1) /\ k \div 2 \in 1..(n - 1) /\ k \in 1..n /\ k \div 2 \in 1..n
    BY <1>1, Halves
  <2>3. ~Less(d, h, k, k \div 2)
    BY DEF Heap
  <2> QED BY <2>1, <2>2, <2>3, <1>2, <1>3, <1>4 DEF Less
<1>8. \A x \in IDs :
        /\ t.item[x].msg = s.item[x].msg /\ t.item[x].order = s.item[x].order
        /\ t.item[x].loc = s.item[x].loc
        /\ x \notin Ids(s, h) => t.item[x] = s.item[x]
  <2>1. id \in Ids(s, h)
    BY <1>1 DEF Ids
  <2> QED BY <2>1, <1>2 DEF Sifted
<1>9. Taken(s, t, h, id)
  BY <1>1, <1>2, <1>5, <1>6, <1>7, <1>8 DEF Taken, Sifted, InOrder
<1> QED BY <1>9 DEF t

LEMMA SiftedMore ==
  ASSUME NEW s, NEW t, NEW h, NEW n \in Nat, NEW m \in Nat, n <= m, Sifted(s, t, h, n),
         Len(s[h]) \in Nat
  PROVE  Sifted(s, t, h, m)
BY DEF Sifted, Slots

(* heap.Pop takes the first slot.                                          *)
LEMMA HeapPopFacts ==
  ASSUME NEW s \in Queues, NEW h \in HeapNames, InOrder(s, h), Len(s[h]) > 0
  PROVE  Taken(s, HeapPop(s, h), h, s[h][1])
<1> DEFINE n == Len(s[h])
           w == Swap(s, h, 1, n)
           r == Down(w, h, 1, n - 1)
<1>1. /\ n \in Nat /\ n > 0 /\ Slots(s, h) = 1..n /\ Placed(s, h)
      /\ 1 \in Slots(s, h) /\ n \in Slots(s, h)
  BY HeapTypes DEF InOrder, Slots
<1>2. /\ Sifted(s, w, h, n) /\ w[h][n] = s[h][1]
  BY <1>1, SwapSifts, SwapFacts
<1>3. /\ w \in Queues /\ Placed(w, h) /\ Len(w[h]) = n /\ Slots(w, h) = 1..n
  BY <1>1, <1>2 DEF Sifted, Slots
<1>4. HeapSink(w, h, 1, 1, n - 1)
  <2> SUFFICES ASSUME NEW k \in 2..(n - 1), k \div 2 # 1
               PROVE  ~Less(w, h, k, k \div 2)
    BY DEF HeapSink
  <2>1. k \div 2 \in 1..n /\ k \div 2 < k /\ k \in 2..n
    BY <1>1, Halves
  <2>2. ~Less(s, h, k, k \div 2)
    BY <1>1, <2>1 DEF InOrder, Heap
  <2>3. Less(w, h, k, k \div 2) <=> Less(s, h, Swapped(1, n, k), Swapped(1, n, k \div 2))
    <3>1. k \in Slots(s, h) /\ k \div 2 \in Slots(s, h)
      BY <1>1, <2>1
    <3> HIDE DEF n
    <3> QED BY <1>1, <3>1, SwapLess
  <2> QED BY <1>1, <2>1, <2>2, <2>3 DEF Swapped
<1> HIDE DEF w
<1>5. Sifted(w, r.q, h, n - 1) /\ Heap(r.q, h, n - 1)
  <2>1. n - 1 \in 0..Len(w[h]) /\ 1 \in Slots(w, h)
    BY <1>1, <1>3
  <2> QED BY <2>1, <1>3, <1>4, DownFacts
<1> HIDE DEF r
<1>6. Sifted(s, r.q, h, n)
  <2>1. Sifted(w, r.q, h, n)
    BY <1>1, <1>3, <1>5, SiftedMore
  <2> QED BY <2>1, <1>1, <1>2, SiftedTwice
<1>7. r.q[h][n] = s[h][1]
  BY <1>1, <1>2, <1>3, <1>5 DEF Sifted
<1>8. HeapPop(s, h) = PopItem(r.q, h)
  BY DEF HeapPop, r, w
<1> QED BY <1>1, <1>5, <1>6, <1>7, <1>8, CutLast

(* heap.Remove takes slot i.                                               *)
LEMMA HeapRemoveFacts ==
  ASSUME NEW s \in Queues, NEW h \in HeapNames, InOrder(s, h), NEW i \in Slots(s, h)
  PROVE  Taken(s, HeapRemove(s, h, i), h, s[h][i])
<1> DEFINE n == Len(s[h])
           w == Swap(s, h, i, n)
           r == Down(w, h, i, n - 1)
           f == IF r.at > i THEN r.q ELSE Up(r.q, h, i)
<1>1. /\ n \in Nat /\ n > 0 /\ Slots(s, h) = 1..n /\ Placed(s, h)
      /\ i \in 1..n /\ n \in Slots(s, h) /\ Heap(s, h, n)
  BY HeapTypes DEF InOrder, Slots
<1>2. CASE i = n
  <2>1. HeapRemove(s, h, i) = PopItem(s, h)
    BY <1>2 DEF HeapRemove
  <2>2. Heap(s, h, n - 1)
    BY <1>1 DEF Heap
  <2>3. Sifted(s, s, h, n)
    BY <1>1, SiftedNot
  <2> QED BY <1>1, <1>2, <2>1, <2>2, <2>3, CutLast
<1>3. CASE i # n
  <2>1. HeapRemove(s, h, i) = PopItem(f, h)
    BY <1>3 DEF HeapRemove
  <2>2. /\ Sifted(s, w, h, n) /\ w[h][n] = s[h][i]
    BY <1>1, SwapSifts, SwapFacts
  <2>3. /\ w \in Queues /\ Placed(w, h) /\ Len(w[h]) = n /\ Slots(w, h) = 1..n
    BY <1>1, <2>2 DEF Sifted, Slots
  <2>4. HeapSink(w, h, i, i, n - 1)
    <3> SUFFICES ASSUME NEW k \in 2..(n - 1)
                 PROVE  /\ k \div 2 # i /\ k # i => ~Less(w, h, k, k \div 2)
                        /\ k \div 2 = i /\ i > 1 => ~Less(w, h, k, i \div 2)
      BY DEF HeapSink
    <3>1. k \div 2 \in 1..n /\ k \div 2 < k /\ k \in 2..n /\ k # n
      BY <1>1, Halves
    <3>2. ~Less(s, h, k, k \div 2)
      BY <1>1, <3>1 DEF Heap
    <3>3. ASSUME k \div 2 # i, k # i PROVE ~Less(w, h, k, k \div 2)
      <4>1. Less(w, h, k, k \div 2) <=> Less(s, h, Swapped(i, n, k), Swapped(i, n, k \div 2))
        BY <1>1, <3>1, SwapLess
      <4> QED BY <1>1, <3>1, <3>2, <3>3, <4>1 DEF Swapped
    <3>4. ASSUME k \div 2 = i, i > 1 PROVE ~Less(w, h, k, i \div 2)
      <4>1. i \div 2 \in 1..n /\ i \div 2 < i /\ i \in 2..n
        BY <1>1, <3>4, Halves
      <4>2. ~Less(s, h, i, i \div 2)
        BY <1>1, <4>1 DEF Heap
      <4>3. ~Less(s, h, k, i \div 2)
        BY <1>1, <3>1, <3>2, <3>4, <4>1, <4>2, SlotOrder
      <4>4. Less(w, h, k, i \div 2) <=> Less(s, h, Swapped(i, n, k), Swapped(i, n, i \div 2))
        BY <1>1, <3>1, <4>1, SwapLess
      <4> QED BY <1>1, <3>1, <3>4, <4>1, <4>3, <4>4 DEF Swapped
    <3> QED BY <3>3, <3>4
  <2> HIDE DEF w
  <2>5. /\ Sifted(w, r.q, h, n - 1) /\ r.at \in Nat
        /\ r.at > i => Heap(r.q, h, n - 1)
        /\ ~(r.at > i) => HeapBut(r.q, h, i, n - 1)
    <3>1. n - 1 \in 0..Len(w[h]) /\ i \in Slots(w, h)
      BY <1>1, <2>3
    <3> QED BY <3>1, <2>3, <2>4, DownFacts
  <2> HIDE DEF r
  <2>6. Sifted(w, f, h, n - 1) /\ Heap(f, h, n - 1)
    <3>1. CASE r.at > i
      BY <3>1, <2>5
    <3>2. CASE ~(r.at > i)
      <4>1. /\ r.q \in Queues /\ Placed(r.q, h) /\ Slots(r.q, h) = 1..n
            /\ n - 1 \in Slots(r.q, h) /\ i \in 1..(n - 1)
        BY <1>1, <1>3, <2>3, <2>5 DEF Sifted, Slots
      <4>2. Sifted(r.q, Up(r.q, h, i), h, n - 1) /\ Heap(Up(r.q, h, i), h, n - 1)
        BY <4>1, <3>2, <2>5, UpFacts
      <4>3. n - 1 \in Nat
        BY <1>1
      <4> QED BY <3>2, <4>2, <4>3, <2>3, <2>5, SiftedTwice
    <3> QED BY <3>1, <3>2
  <2> HIDE DEF f
  <2>7. Sifted(s, f, h, n)
    <3>1. Sifted(w, f, h, n)
      BY <1>1, <2>3, <2>6, SiftedMore
    <3> QED BY <3>1, <1>1, <2>2, SiftedTwice
  <2>8. f[h][n] = s[h][i]
    BY <1>1, <2>2, <2>3, <2>6 DEF Sifted
  <2> QED BY <1>1, <2>1, <2>6, <2>7, <2>8, CutLast
<1> QED BY <1>2, <1>3

(* The first slot of a heap is before all others.                          *)
LEMMA FirstIsLeast ==
  ASSUME NEW s \in Queues, NEW h \in HeapNames, InOrder(s, h), NEW k \in Slots(s, h)
  PROVE  ~Less(s, h, k, 1)
<1> DEFINE T == {n \in Nat : \A x \in Slots(s, h) : x <= n => ~Less(s, h, x, 1)}
<1>1. Len(s[h]) \in Nat /\ Slots(s, h) = 1..Len(s[h])
  BY HeapTypes DEF Slots
<1>2. 0 \in T
  BY <1>1
<1>3. ASSUME NEW n \in Nat, n \in T PROVE n + 1 \in T
  <2> SUFFICES ASSUME NEW x \in Slots(s, h), x = n + 1 PROVE ~Less(s, h, x, 1)
    BY <1>1, <1>3
  <2>1. \A a, b, c \in Slots(s, h) :
          ~Less(s, h, b, a) /\ ~Less(s, h, c, b) => ~Less(s, h, c, a)
    BY SlotOrder DEF InOrder
  <2>2. CASE x = 1
    BY <2>2, <1>1, SlotOrder DEF InOrder
  <2>3. CASE x > 1
    <3>1. x \div 2 \in Slots(s, h) /\ x \div 2 <= n
      BY <1>1, <2>3, Halves
    <3>2. ~Less(s, h, x \div 2, 1)
      BY <1>3, <3>1
    <3>3. ~Less(s, h, x, x \div 2)
      BY <1>1, <2>3 DEF InOrder, Heap
    <3> QED BY <1>1, <2>1, <3>1, <3>2, <3>3
  <2> QED BY <1>1, <2>2, <2>3
<1>4. k \in T
  <2> HIDE DEF T
  <2> QED BY <1>1, <1>2, <1>3, Induction
<1> QED BY <1>1, <1>4

-----------------------------------------------------------------------------
(* The state of the queue between two calls.                               *)
QueueOK(s) ==
  /\ s \in Queues
  /\ \A h \in HeapNames : InOrder(s, h)
  /\ s.byID = Ids(s, "ready") \cup Ids(s, "delayed")
  /\ \A id \in s.byID : s.item[id].msg.id = id /\ s.item[id].order < s.nextOrder
  /\ \A a, b \in s.byID : a # b => s.item[a].order # s.item[b].order

LEMMA HeapsApart ==
  ASSUME NEW s, QueueOK(s)
  PROVE  /\ Ids(s, "ready") \cap Ids(s, "delayed") = {}
         /\ Ids(s, "ready") \subseteq IDs /\ Ids(s, "delayed") \subseteq IDs
         /\ \A id \in s.byID : s.item[id].msg \in Messages
<1>1. \A h \in HeapNames : \A id \in Ids(s, h) :
        id \in IDs /\ s.item[id].loc = h /\ s.item[id].msg \in Messages
  BY HeapTypes DEF QueueOK, InOrder, Placed, Ids
<1> QED BY <1>1 DEF HeapNames, QueueOK

LEMMA InOrderKept ==
  ASSUME NEW s \in Queues, NEW t \in Queues, NEW h \in HeapNames,
         t.mode = s.mode, t[h] = s[h], \A x \in Ids(s, h) : t.item[x] = s.item[x],
         InOrder(s, h)
  PROVE  InOrder(t, h)
<1>1. Len(s[h]) \in Nat /\ Slots(t, h) = Slots(s, h) /\ Slots(s, h) = 1..Len(s[h])
  BY HeapTypes DEF Slots
<1>2. \A k \in Slots(s, h) : t[h][k] = s[h][k] /\ t.item[s[h][k]] = s.item[s[h][k]]
  BY DEF Ids
<1>3. Placed(t, h)
  BY <1>1, <1>2 DEF InOrder, Placed
<1>4. ASSUME NEW k \in 2..Len(s[h]) PROVE ~Less(t, h, k, k \div 2)
  <2>1. k \in Slots(s, h) /\ k \div 2 \in Slots(s, h)
    BY <1>1, Halves
  <2>2. ~Less(s, h, k, k \div 2)
    BY DEF InOrder, Heap
  <2> QED BY <1>2, <2>1, <2>2 DEF Less, ItemLess
<1> QED BY <1>3, <1>4 DEF InOrder, Heap

(* What promotion leaves alone: everything but the place of the messages.  *)
SameContents(s, t) ==
  /\ t.mode = s.mode /\ t.byID = s.byID /\ t.nextOrder = s.nextOrder
  /\ \A x \in IDs : t.item[x].msg = s.item[x].msg /\ t.item[x].order = s.item[x].order

(* One matured message moves from heap to heap.                            *)
LEMMA PromotedOne ==
  ASSUME NEW s, QueueOK(s), Len(s.delayed) > 0,
         NEW t, t = HeapPush(HeapPop(s, "delayed"), "ready", s.delayed[1])
  PROVE  /\ QueueOK(t) /\ SameContents(s, t)
         /\ Len(t.delayed) = Len(s.delayed) - 1
         /\ Ids(t, "ready") = Ids(s, "ready") \cup {s.delayed[1]}
         /\ Ids(t, "delayed") = Ids(s, "delayed") \ {s.delayed[1]}
<1> DEFINE id == s.delayed[1]
           p == HeapPop(s, "delayed")
<1>1. /\ s \in Queues /\ InOrder(s, "ready") /\ InOrder(s, "delayed")
      /\ s["delayed"] = s.delayed /\ s["ready"] = s.ready
      /\ "delayed" \in HeapNames /\ "ready" \in HeapNames
  BY DEF QueueOK, HeapNames
<1>2. id \in Ids(s, "delayed") /\ id \in IDs
  BY <1>1, HeapTypes DEF Ids, Slots
<1>3. Taken(s, p, "delayed", id)
  BY <1>1, HeapPopFacts
<1> HIDE DEF p, id
<1>4. p \in Queues /\ InOrder(p, "ready") /\ p["ready"] = s["ready"]
  <2>1. p["ready"] = s["ready"] /\ p \in Queues /\ p.mode = s.mode
    BY <1>3 DEF Taken, HeapNames
  <2>2. \A x \in Ids(s, "ready") : p.item[x] = s.item[x]
    BY <1>3, HeapsApart DEF Taken
  <2> QED BY <1>1, <2>1, <2>2, InOrderKept
<1>5. Ids(p, "ready") = Ids(s, "ready")
  BY <1>4 DEF Ids, Slots
<1>6. id \notin Ids(p, "ready") /\ p.item[id].msg \in Messages
  <2>1. id \in s.byID
    BY <1>2 DEF QueueOK
  <2> QED BY <1>2, <1>3, <1>5, <2>1, HeapsApart DEF Taken
<1>7. Added(p, t, "ready", id)
  BY <1>1, <1>2, <1>4, <1>6, HeapPushFacts DEF p, id
<1>8. /\ t \in Queues /\ t["delayed"] = p["delayed"] /\ InOrder(t, "ready")
      /\ t["delayed"] = t.delayed /\ t.mode = p.mode
  BY <1>7 DEF Added, HeapNames
<1>9. Ids(t, "delayed") = Ids(s, "delayed") \ {id} /\ Len(t.delayed) = Len(s.delayed) - 1
  <2>1. Ids(t, "delayed") = Ids(p, "delayed") /\ Len(t.delayed) = Len(p["delayed"])
    BY <1>8 DEF Ids, Slots
  <2> QED BY <2>1, <1>1, <1>3 DEF Taken
<1>10. Ids(t, "ready") = Ids(s, "ready") \cup {id}
  BY <1>5, <1>7 DEF Added
<1>11. InOrder(t, "delayed")
  <2>1. InOrder(p, "delayed") /\ Ids(p, "delayed") = Ids(s, "delayed") \ {id}
    BY <1>3 DEF Taken
  <2>2. \A x \in Ids(p, "delayed") : x \in IDs /\ x \notin Ids(p, "ready") \cup {id}
    BY <2>1, <1>5, HeapsApart
  <2>3. \A x \in Ids(p, "delayed") : t.item[x] = p.item[x]
    BY <2>2, <1>7 DEF Added
  <2> QED BY <1>1, <1>4, <1>8, <2>1, <2>3, InOrderKept
<1>12. SameContents(s, t)
  BY <1>3, <1>7 DEF Taken, Added, SameContents
<1>13. t.byID \subseteq IDs
  BY <1>8 DEF Queues
<1>14. QueueOK(t)
  <2>1. t.byID = Ids(t, "ready") \cup Ids(t, "delayed")
    BY <1>2, <1>9, <1>10, <1>12 DEF SameContents, QueueOK
  <2>2. \A h \in HeapNames : InOrder(t, h)
    BY <1>8, <1>11 DEF HeapNames
  <2> QED BY <1>8, <1>12, <1>13, <2>1, <2>2 DEF QueueOK, SameContents
<1> QED BY <1>9, <1>10, <1>12, <1>14 DEF id

(* What promoteLocked does to the heaps.                                   *)
Promotes(s, t, now) ==
  /\ QueueOK(t) /\ SameContents(s, t)
  /\ Ids(t, "ready") =
       Ids(s, "ready") \cup {x \in Ids(s, "delayed") : Available(s.item[x].msg, now)}
  /\ Ids(t, "delayed") = {x \in Ids(s, "delayed") : ~Available(s.item[x].msg, now)}

PromoteRuns(s, now) ==
  {r \in Queues :
     /\ QueueOK(r) /\ SameContents(s, r)
     /\ Ids(s, "ready") \subseteq Ids(r, "ready")
     /\ \A x \in Ids(r, "ready") :
          x \in Ids(s, "ready") \/ Available(s.item[x].msg, now)}

PromoteDone(r, now) == r.delayed = <<>> \/ ~Available(r.item[r.delayed[1]].msg, now)

LEMMA DelayedTypes ==
  ASSUME NEW s \in Queues
  PROVE  /\ s.delayed \in Seq(IDs) /\ Len(s.delayed) \in Nat
         /\ s["delayed"] = s.delayed /\ "delayed" \in HeapNames
         /\ s.delayed # <<>> <=> Len(s.delayed) > 0
BY DEF Queues, HeapNames

LEMMA PromoteKeeps ==
  ASSUME NEW s \in Queues, NEW now \in Int, NEW r \in PromoteRuns(s, now)
  PROVE  /\ PromoteRound(r, now) \in PromoteRuns(s, now)
         /\ PromoteDone(r, now) \/ Len(PromoteRound(r, now).delayed) = Len(r.delayed) - 1
         /\ PromoteDone(r, now) => PromoteRound(r, now) = r
<1>1. CASE PromoteDone(r, now)
  BY <1>1 DEF PromoteDone, PromoteRound
<1>2. CASE ~PromoteDone(r, now)
  <2> DEFINE t == HeapPush(HeapPop(r, "delayed"), "ready", r.delayed[1])
  <2>1. PromoteRound(r, now) = t
    BY <1>2 DEF PromoteDone, PromoteRound
  <2>2. r \in Queues /\ QueueOK(r) /\ Len(r.delayed) > 0
    BY <1>2, DelayedTypes DEF PromoteRuns, PromoteDone
  <2>3. /\ QueueOK(t) /\ SameContents(r, t)
        /\ Len(t.delayed) = Len(r.delayed) - 1
        /\ Ids(t, "ready") = Ids(r, "ready") \cup {r.delayed[1]}
    BY <2>2, PromotedOne
  <2> HIDE DEF t
  <2>4. r.delayed[1] \in IDs /\ Available(s.item[r.delayed[1]].msg, now)
    <3>1. r.delayed[1] \in IDs
      BY <2>2, DelayedTypes
    <3> QED BY <3>1, <1>2 DEF PromoteDone, PromoteRuns, SameContents
  <2>5. SameContents(s, t) /\ t \in Queues
    BY <2>3 DEF PromoteRuns, SameContents, QueueOK
  <2>6. t \in PromoteRuns(s, now)
    BY <2>3, <2>4, <2>5 DEF PromoteRuns
  <2> QED BY <1>2, <2>1, <2>3, <2>6
<1> QED BY <1>1, <1>2

LEMMA PromoteFacts ==
  ASSUME NEW s, QueueOK(s), NEW now \in Int
  PROVE  Promotes(s, PromoteLocked(s, now), now)
<1> DEFINE S == PromoteRuns(s, now)
           step == [x \in S |-> PromoteRound(x, now)]
           run == CHOOSE run : run = [k \in Nat |->
                    IF k = 0 THEN s ELSE PromoteRound(run[k - 1], now)]
           n == Len(s.delayed)
<1>0. s \in Queues /\ n \in Nat
  BY DelayedTypes DEF QueueOK
<1>1. s \in S
  BY <1>0 DEF PromoteRuns, SameContents
<1>2. step \in [S -> S]
  BY <1>0, PromoteKeeps
<1>3. PICK f : IsRun(f, S, step, s)
  <2> HIDE DEF S, step
  <2> QED BY <1>1, <1>2, Iteration
<1>4. f = [k \in Nat |-> IF k = 0 THEN s ELSE PromoteRound(f[k - 1], now)]
  <2> HIDE DEF S
  <2> QED BY <1>3 DEF IsRun
<1>5. run = [k \in Nat |-> IF k = 0 THEN s ELSE PromoteRound(run[k - 1], now)]
  BY <1>4
<1>6. PromoteLocked(s, now) = run[n]
  BY DEF PromoteLocked
<1> HIDE DEF run
<1>7. run[0] = s /\ \A k \in Nat : run[k + 1] = PromoteRound(run[k], now)
  BY <1>5
<1> DEFINE T == {k \in Nat : run[k] \in S /\ (PromoteDone(run[k], now) \/ Len(run[k].delayed) + k <= n)}
<1>8. 0 \in T
  BY <1>0, <1>1, <1>7
<1>9. ASSUME NEW k \in Nat, k \in T PROVE k + 1 \in T
  <2>1. /\ run[k] \in S /\ run[k + 1] = PromoteRound(run[k], now)
        /\ run[k + 1] \in S
        /\ PromoteDone(run[k], now) \/ Len(run[k + 1].delayed) = Len(run[k].delayed) - 1
        /\ PromoteDone(run[k], now) => run[k + 1] = run[k]
    BY <1>0, <1>7, <1>9, PromoteKeeps
  <2>2. Len(run[k].delayed) \in Nat
    BY <2>1, DelayedTypes DEF PromoteRuns
  <2> QED BY <1>0, <1>9, <2>1, <2>2
<1>10. n \in T
  <2> HIDE DEF T
  <2> QED BY <1>0, <1>8, <1>9, Induction
<1> DEFINE t == run[n]
<1>11. t \in S /\ (PromoteDone(t, now) \/ Len(t.delayed) + n <= n)
  BY <1>10
<1> HIDE DEF t, n, T
<1>12. t \in Queues /\ QueueOK(t) /\ SameContents(s, t)
  BY <1>11 DEF PromoteRuns
<1>13. PromoteDone(t, now)
  BY <1>0, <1>11, <1>12, DelayedTypes DEF PromoteDone
<1>14. ASSUME NEW x \in Ids(t, "delayed") PROVE ~Available(s.item[x].msg, now)
  <2>1. PICK k \in Slots(t, "delayed") : t.delayed[k] = x
    BY <1>12, DelayedTypes DEF Ids
  <2>2. /\ Len(t.delayed) \in Nat /\ k \in 1..Len(t.delayed) /\ Len(t.delayed) > 0
        /\ 1 \in Slots(t, "delayed") /\ t.delayed[1] \in IDs /\ x \in IDs
    BY <2>1, <1>12, DelayedTypes DEF Slots
  <2>3. ~Less(t, "delayed", k, 1)
    BY <2>1, <1>12, DelayedTypes, FirstIsLeast DEF QueueOK
  <2>4. ~DelayedLess(t.item[x], t.item[t.delayed[1]])
    BY <2>1, <2>3 DEF Less, ItemLess
  <2>5. ~Available(t.item[t.delayed[1]].msg, now)
    BY <1>13, <2>2 DEF PromoteDone
  <2>6. t.item[x].msg \in Messages /\ t.item[t.delayed[1]].msg \in Messages
    BY <2>1, <2>2, <1>12, DelayedTypes DEF QueueOK, InOrder, Placed
  <2>7. ~Available(t.item[x].msg, now)
    BY <2>4, <2>5, <2>6, MessagesAssumption DEF DelayedLess, Available
  <2> QED BY <2>2, <2>7, <1>12 DEF SameContents
<1>15. Promotes(s, t, now)
  <2>1. /\ Ids(s, "ready") \subseteq Ids(t, "ready")
        /\ \A x \in Ids(t, "ready") : x \in Ids(s, "ready") \/ Available(s.item[x].msg, now)
    BY <1>11 DEF PromoteRuns
  <2>2. Ids(t, "ready") \cup Ids(t, "delayed") = Ids(s, "ready") \cup Ids(s, "delayed")
    BY <1>12 DEF QueueOK, SameContents
  <2>3. /\ Ids(s, "ready") \cap Ids(s, "delayed") = {}
        /\ Ids(t, "ready") \cap Ids(t, "delayed") = {}
    BY <1>12, HeapsApart
  <2> HIDE DEF S
  <2> QED BY <1>12, <1>14, <2>1, <2>2, <2>3 DEF Promotes
<1> QED BY <1>6, <1>15 DEF t

-----------------------------------------------------------------------------
(* id has left heap h and the queue.                                       *)
Removed(s, u, h, id) ==
  /\ QueueOK(u)
  /\ u.mode = s.mode /\ u.byID = s.byID \ {id}
  /\ Len(u[h]) = Len(s[h]) - 1 /\ Ids(u, h) = Ids(s, h) \ {id}
  /\ \A g \in HeapNames \ {h} : Ids(u, g) = Ids(s, g)
  /\ \A x \in IDs \ {id} :
       u.item[x].msg = s.item[x].msg /\ u.item[x].order = s.item[x].order

LEMMA DeleteFacts ==
  ASSUME NEW t \in Queues, NEW id \in IDs, NEW u, u = Delete(t, id)
  PROVE  /\ u \in Queues
         /\ u.mode = t.mode /\ u.nextOrder = t.nextOrder /\ u.byID = t.byID \ {id}
         /\ \A g \in HeapNames : u[g] = t[g]
         /\ \A x \in IDs \ {id} : u.item[x] = t.item[x]
<1>1. NoItem \in Items
  BY DEF NoItem, Items
<1> QED BY <1>1 DEF Delete, Queues, HeapNames

LEMMA RemovedFacts ==
  ASSUME NEW s, QueueOK(s), NEW h \in HeapNames, NEW id \in Ids(s, h),
         NEW t, Taken(s, t, h, id)
  PROVE  Removed(s, Delete(t, id), h, id)
<1> DEFINE u == Delete(t, id)
<1>1. s \in Queues /\ id \in IDs /\ id \in s.byID /\ t \in Queues
  BY HeapsApart DEF QueueOK, HeapNames, Taken
<1>2. /\ u \in Queues
      /\ u.mode = t.mode /\ u.nextOrder = t.nextOrder /\ u.byID = t.byID \ {id}
      /\ \A g \in HeapNames : u[g] = t[g]
      /\ \A x \in IDs \ {id} : u.item[x] = t.item[x]
  BY <1>1, DeleteFacts
<1> HIDE DEF u
<1>3. \A g \in HeapNames : Ids(u, g) = Ids(t, g)
  BY <1>2 DEF Ids, Slots
<1>4. Ids(u, h) = Ids(s, h) \ {id} /\ Len(u[h]) = Len(s[h]) - 1
  BY <1>2, <1>3 DEF Taken
<1>5. \A g \in HeapNames \ {h} : t[g] = s[g] /\ u[g] = s[g] /\ Ids(u, g) = Ids(s, g)
  BY <1>2, <1>3 DEF Taken, Ids, Slots
<1>6. \A g \in HeapNames \ {h} : \A x \in Ids(s, g) : x \in IDs \ {id} /\ x \notin Ids(s, h)
  BY HeapsApart DEF HeapNames
<1>7. \A x \in IDs \ {id} : /\ u.item[x].msg = s.item[x].msg
                            /\ u.item[x].order = s.item[x].order
                            /\ x \notin Ids(s, h) => u.item[x] = s.item[x]
  BY <1>2 DEF Taken
<1>8. InOrder(u, h)
  <2>1. InOrder(t, h) /\ \A x \in Ids(t, h) : x \in IDs \ {id}
    BY HeapsApart DEF Taken, HeapNames
  <2> QED BY <1>1, <1>2, <2>1, InOrderKept
<1>9. ASSUME NEW g \in HeapNames \ {h} PROVE InOrder(u, g)
  <2>1. u.mode = s.mode
    BY <1>2 DEF Taken
  <2> QED BY <1>1, <1>2, <1>5, <1>6, <1>7, <2>1, InOrderKept DEF QueueOK
<1>10. u.byID = s.byID \ {id} /\ u.nextOrder = s.nextOrder /\ u.mode = s.mode
  BY <1>2 DEF Taken
<1>11. u.byID = Ids(u, "ready") \cup Ids(u, "delayed")
  <2>1. s.byID = Ids(s, "ready") \cup Ids(s, "delayed")
        /\ Ids(s, "ready") \cap Ids(s, "delayed") = {}
    BY HeapsApart DEF QueueOK
  <2> QED BY <2>1, <1>4, <1>5, <1>10 DEF HeapNames
<1>12. \A x \in u.byID : x \in s.byID /\ x \in IDs \ {id}
  BY <1>1, <1>10 DEF Queues
<1>13. QueueOK(u)
  BY <1>2, <1>7, <1>8, <1>9, <1>10, <1>11, <1>12 DEF QueueOK
<1>14. Removed(s, u, h, id)
  BY <1>4, <1>5, <1>7, <1>10, <1>13 DEF Removed
<1> QED BY <1>14 DEF u

(* Popping the top of a heap and dropping it from the map.                 *)
LEMMA PopTopFacts ==
  ASSUME NEW s, QueueOK(s), NEW h \in HeapNames, Len(s[h]) > 0
  PROVE  /\ s[h][1] \in Ids(s, h) /\ s[h][1] \in IDs
         /\ Removed(s, PopTop(s, h), h, s[h][1])
<1>1. s \in Queues /\ InOrder(s, h)
  BY DEF QueueOK
<1>2. s[h][1] \in Ids(s, h) /\ s[h][1] \in IDs
  BY <1>1, HeapTypes DEF Ids, Slots
<1>3. Taken(s, HeapPop(s, h), h, s[h][1])
  BY <1>1, HeapPopFacts
<1>4. s[h] # <<>>
  BY <1>1, HeapTypes
<1> QED BY <1>2, <1>3, <1>4, RemovedFacts DEF PopTop

(* Remove finds the item through what it knows of its place.               *)
LEMMA RemoveFacts ==
  ASSUME NEW s, QueueOK(s), NEW id \in s.byID,
         NEW h, h = s.item[id].loc, NEW i, i = s.item[id].index
  PROVE  /\ h \in HeapNames /\ id \in Ids(s, h)
         /\ Removed(s, Delete(HeapRemove(s, h, i), id), h, id)
<1>1. PICK g \in HeapNames : id \in Ids(s, g)
  BY DEF QueueOK, HeapNames
<1>2. PICK k \in Slots(s, g) : s[g][k] = id
  BY <1>1 DEF Ids
<1>3. h = g /\ i = k
  BY <1>2 DEF QueueOK, InOrder, Placed
<1>4. Taken(s, HeapRemove(s, h, i), h, id)
  BY <1>2, <1>3, HeapRemoveFacts DEF QueueOK
<1> QED BY <1>1, <1>3, <1>4, RemovedFacts

-----------------------------------------------------------------------------
(* Push: the item is made, enters the delayed heap and then the map.       *)
NewItem(s, m) == [NoItem EXCEPT !.msg = m, !.order = s.nextOrder]
WithItem(s, m) == [s EXCEPT !.item[m.id] = NewItem(s, m)]
Pushed(s, m) ==
  [HeapPush(WithItem(s, m), "delayed", m.id)
     EXCEPT !.byID = @ \cup {m.id}, !.nextOrder = @ + 1]

LEMMA WithItemFacts ==
  ASSUME NEW s \in Queues, NEW m \in Messages, NEW w, w = WithItem(s, m)
  PROVE  /\ w \in Queues /\ m.id \in IDs
         /\ w.mode = s.mode /\ w.byID = s.byID /\ w.nextOrder = s.nextOrder
         /\ \A g \in HeapNames : w[g] = s[g]
         /\ w.item[m.id].msg = m /\ w.item[m.id].order = s.nextOrder
         /\ \A x \in IDs \ {m.id} : w.item[x] = s.item[x]
<1>1. m.id \in IDs
  BY DEF IDs
<1>2. /\ NewItem(s, m) \in Items
      /\ NewItem(s, m).msg = m /\ NewItem(s, m).order = s.nextOrder
  BY DEF NewItem, NoItem, Items, Queues
<1> HIDE DEF NewItem
<1> QED BY <1>1, <1>2 DEF WithItem, Queues, HeapNames

Entered(t, ids, n) == [t EXCEPT !.byID = ids, !.nextOrder = n]

LEMMA EnteredFacts ==
  ASSUME NEW t \in Queues, NEW ids \in SUBSET IDs, NEW n \in Nat,
         NEW u, u = Entered(t, ids, n)
  PROVE  /\ u \in Queues /\ u.mode = t.mode /\ u.item = t.item
         /\ u.byID = ids /\ u.nextOrder = n
         /\ \A g \in HeapNames : u[g] = t[g]
BY DEF Entered, Queues, HeapNames

LEMMA PushFacts ==
  ASSUME NEW s, QueueOK(s), NEW m \in Messages, m.id \notin s.byID,
         NEW u, u = Pushed(s, m)
  PROVE  /\ QueueOK(u)
         /\ u.mode = s.mode /\ m.id \in IDs
         /\ Ids(u, "ready") = Ids(s, "ready")
         /\ Ids(u, "delayed") = Ids(s, "delayed") \cup {m.id}
         /\ u.item[m.id].msg = m
         /\ \A x \in s.byID : u.item[x].msg = s.item[x].msg
<1> DEFINE id == m.id
           w == WithItem(s, m)
           t == HeapPush(w, "delayed", id)
<1>1. /\ s \in Queues /\ "ready" \in HeapNames /\ "delayed" \in HeapNames
      /\ InOrder(s, "ready") /\ InOrder(s, "delayed")
      /\ s.byID = Ids(s, "ready") \cup Ids(s, "delayed") /\ s.byID \subseteq IDs
  BY DEF QueueOK, HeapNames, Queues
<1>2. /\ w \in Queues /\ id \in IDs
      /\ w.mode = s.mode /\ w.byID = s.byID /\ w.nextOrder = s.nextOrder
      /\ \A g \in HeapNames : w[g] = s[g]
      /\ w.item[id].msg = m /\ w.item[id].order = s.nextOrder
      /\ \A x \in IDs \ {id} : w.item[x] = s.item[x]
  BY <1>1, WithItemFacts
<1> HIDE DEF w
<1>3. \A g \in HeapNames : Ids(w, g) = Ids(s, g)
  BY <1>2 DEF Ids, Slots
<1>4. ASSUME NEW g \in HeapNames PROVE InOrder(w, g)
  <2>1. \A x \in Ids(s, g) : x \in IDs \ {id}
    BY <1>1 DEF HeapNames
  <2> QED BY <1>1, <1>2, <2>1, InOrderKept DEF QueueOK
<1>5. Added(w, t, "delayed", id)
  BY <1>1, <1>2, <1>3, <1>4, HeapPushFacts
<1> HIDE DEF t
<1>6. /\ t \in Queues /\ t.mode = s.mode /\ t.byID = s.byID /\ t.nextOrder = s.nextOrder
      /\ t["ready"] = s["ready"] /\ InOrder(t, "delayed")
      /\ Ids(t, "delayed") = Ids(s, "delayed") \cup {id}
      /\ \A x \in IDs : t.item[x].msg = w.item[x].msg /\ t.item[x].order = w.item[x].order
      /\ \A x \in IDs : x \notin Ids(s, "delayed") \cup {id} => t.item[x] = s.item[x]
  BY <1>1, <1>2, <1>3, <1>5 DEF Added, HeapNames
<1>7. Ids(t, "ready") = Ids(s, "ready")
  BY <1>6 DEF Ids, Slots
<1>8. InOrder(t, "ready")
  <2>1. \A x \in Ids(s, "ready") : x \in IDs /\ x \notin Ids(s, "delayed") \cup {id}
    BY <1>1, HeapsApart
  <2> QED BY <1>1, <1>6, <2>1, InOrderKept
<1>9. /\ u \in Queues /\ u.mode = t.mode /\ u.item = t.item
      /\ u.byID = s.byID \cup {id} /\ u.nextOrder = s.nextOrder + 1
      /\ \A g \in HeapNames : u[g] = t[g]
  <2> DEFINE ids == s.byID \cup {id}
             n == s.nextOrder + 1
  <2>1. u = Entered(t, ids, n)
    <3>1. u = [t EXCEPT !.byID = @ \cup {id}, !.nextOrder = @ + 1]
      BY DEF Pushed, t, w
    <3> QED BY <3>1, <1>6 DEF Entered, Queues
  <2>2. ids \in SUBSET IDs /\ n \in Nat
    BY <1>1, <1>2 DEF Queues
  <2>3. /\ u \in Queues /\ u.mode = t.mode /\ u.item = t.item
        /\ u.byID = ids /\ u.nextOrder = n /\ \A g \in HeapNames : u[g] = t[g]
    <3> HIDE DEF ids, n
    <3> QED BY <2>1, <2>2, <1>6, EnteredFacts
  <2> QED BY <2>3
<1>10. \A g \in HeapNames : InOrder(u, g) /\ Ids(u, g) = Ids(t, g)
  <2>1. \A g \in HeapNames : InOrder(t, g)
    BY <1>6, <1>8 DEF HeapNames
  <2>2. \A g \in HeapNames : InOrder(u, g)
    BY <1>6, <1>9, <2>1, InOrderKept
  <2> QED BY <2>2, <1>9 DEF Ids, Slots
<1>11. \A x \in s.byID : /\ x \in IDs \ {id}
                         /\ u.item[x].msg = s.item[x].msg
                         /\ u.item[x].order = s.item[x].order
  BY <1>1, <1>2, <1>6, <1>9
<1>12. u.item[id].msg = m /\ u.item[id].order = s.nextOrder /\ s.nextOrder \in Nat
  BY <1>1, <1>2, <1>6, <1>9 DEF Queues
<1>13. u.byID = Ids(u, "ready") \cup Ids(u, "delayed")
  BY <1>1, <1>6, <1>7, <1>9, <1>10
<1>14. \A x \in u.byID : u.item[x].msg.id = x /\ u.item[x].order < u.nextOrder
  <2>1. \A x \in s.byID : s.item[x].order < s.nextOrder /\ s.item[x].msg.id = x
                          /\ s.item[x].order \in Nat
    BY <1>1 DEF QueueOK, Queues, Items
  <2> QED BY <2>1, <1>9, <1>11, <1>12
<1>15. \A a, b \in u.byID : a # b => u.item[a].order # u.item[b].order
  <2>1. \A x \in s.byID : s.item[x].order < s.nextOrder /\ s.item[x].order \in Nat
    BY <1>1 DEF QueueOK, Queues, Items
  <2>2. \A a, b \in s.byID : a # b => s.item[a].order # s.item[b].order
    BY DEF QueueOK
  <2> QED BY <2>1, <2>2, <1>9, <1>11, <1>12
<1>16. QueueOK(u)
  BY <1>9, <1>10, <1>13, <1>14, <1>15 DEF QueueOK
<1> QED BY <1>1, <1>2, <1>6, <1>7, <1>9, <1>10, <1>11, <1>12, <1>16

-----------------------------------------------------------------------------
(* The inductive invariant.                                                *)
EngineInv == QueueOK(q) /\ clock \in Nat

LEMMA EngineInit == Init => EngineInv
<1> SUFFICES ASSUME Init PROVE QueueOK(q) /\ clock \in Nat
  BY DEF EngineInv
<1>1. PICK mode \in Modes : q = NewQueue(mode)
  BY DEF Init
<1>2. NoItem \in Items
  BY DEF NoItem, Items
<1>3. q \in Queues /\ q.ready = <<>> /\ q.delayed = <<>> /\ q.byID = {}
  BY <1>1, <1>2 DEF NewQueue, Queues
<1>4. \A h \in HeapNames : Len(q[h]) = 0 /\ Slots(q, h) = {} /\ Ids(q, h) = {}
  BY <1>3 DEF HeapNames, Slots, Ids
<1>5. \A h \in HeapNames : InOrder(q, h)
  BY <1>4 DEF InOrder, Placed, Heap
<1>6. QueueOK(q)
  BY <1>3, <1>4, <1>5 DEF QueueOK, HeapNames
<1> QED BY <1>6 DEF Init

LEMMA ReadyTypes ==
  ASSUME NEW s \in Queues
  PROVE  /\ s.ready \in Seq(IDs) /\ Len(s.ready) \in Nat
         /\ s["ready"] = s.ready /\ "ready" \in HeapNames
         /\ s.ready # <<>> <=> Len(s.ready) > 0
BY DEF Queues, HeapNames

LEMMA PopFacts ==
  ASSUME NEW s, QueueOK(s), s.ready # <<>>
  PROVE  /\ s.ready[1] \in Ids(s, "ready") /\ s.ready[1] \in IDs
         /\ Removed(s, Delete(HeapPop(s, "ready"), s.ready[1]), "ready", s.ready[1])
<1>1. s \in Queues
  BY DEF QueueOK
<1>2. PopTop(s, "ready") = Delete(HeapPop(s, "ready"), s.ready[1])
  BY <1>1, ReadyTypes DEF PopTop
<1> QED BY <1>1, <1>2, ReadyTypes, PopTopFacts

LEMMA EngineNext == EngineInv /\ [Next]_vars => EngineInv'
<1> SUFFICES ASSUME EngineInv, [Next]_vars PROVE EngineInv'
  OBVIOUS
<1>0. QueueOK(q) /\ clock \in Nat /\ clock \in Int
  BY DEF EngineInv
<1> DEFINE p == PromoteLocked(q, clock)
<1>1. QueueOK(p)
  BY <1>0, PromoteFacts DEF Promotes
<1> HIDE DEF p
<1>2. ASSUME NEW m \in Messages, Push(m) PROVE EngineInv'
  <2>1. CASE m.id \in q.byID
    BY <1>0, <1>2, <2>1 DEF Push, EngineInv
  <2>2. CASE m.id \notin q.byID
    <3>1. q' = Pushed(q, m) /\ clock' = clock
      BY <1>2, <2>2 DEF Push, Pushed, WithItem, NewItem
    <3> QED BY <1>0, <2>2, <3>1, PushFacts DEF EngineInv
  <2> QED BY <2>1, <2>2
<1>3. ASSUME NEW id \in IDs, Remove(id) PROVE EngineInv'
  <2>1. CASE id \notin q.byID
    BY <1>0, <1>3, <2>1 DEF Remove, EngineInv
  <2>2. CASE id \in q.byID
    <3>1. q' = Delete(HeapRemove(q, q.item[id].loc, q.item[id].index), id) /\ clock' = clock
      BY <1>3, <2>2 DEF Remove
    <3> QED BY <1>0, <2>2, <3>1, RemoveFacts DEF EngineInv, Removed
  <2> QED BY <2>1, <2>2
<1>4. ASSUME Pop(clock) PROVE EngineInv'
  <2>1. CASE q' = p
    BY <1>0, <1>1, <1>4, <2>1 DEF Pop, EngineInv
  <2>2. CASE p.ready # <<>> /\ q' = Delete(HeapPop(p, "ready"), p.ready[1])
    BY <1>0, <1>1, <1>4, <2>2, PopFacts DEF Pop, EngineInv, Removed
  <2> QED BY <1>4, <2>1, <2>2 DEF Pop, p
<1>5. CASE Peek(clock)
  BY <1>0, <1>1, <1>5 DEF Peek, EngineInv, p
<1>6. CASE Length
  BY <1>0, <1>6 DEF Length, EngineInv
<1>7. CASE AvailableLen(clock)
  BY <1>0, <1>1, <1>7 DEF AvailableLen, EngineInv, p
<1>8. ASSUME NEW limit \in Limits, Snapshot(clock, limit) PROVE EngineInv'
  BY <1>0, <1>1, <1>8 DEF Snapshot, EngineInv, p
<1>9. CASE Tick
  BY <1>0, <1>9 DEF Tick, EngineInv
<1>10. CASE UNCHANGED vars
  BY <1>0, <1>10 DEF vars, EngineInv
<1> QED BY <1>2, <1>3, <1>4, <1>5, <1>6, <1>7, <1>8, <1>9, <1>10 DEF Next

(* Between calls the two arrays are heaps of items that know their place   *)
(* and have a message, and no two items held have the same arrival order.  *)
THEOREM EngineInvTheorem == Spec => []EngineInv
BY EngineInit, EngineNext, PTL DEF Spec

(* Whatever is pushed, popped, promoted and removed from the middle, every *)
(* item in one of the two arrays knows its heap and its slot, both arrays  *)
(* are heaps, and the ID map holds exactly the ids in them.                *)
THEOREM HeapIntegrityTheorem == Spec => []HeapIntegrity
<1>1. EngineInv => HeapIntegrity
  <2> SUFFICES ASSUME QueueOK(q) PROVE HeapIntegrity
    BY DEF EngineInv
  <2>1. /\ q \in Queues /\ "ready" \in HeapNames /\ "delayed" \in HeapNames
        /\ q["ready"] = q.ready /\ q["delayed"] = q.delayed
    BY DEF QueueOK, HeapNames
  <2>2. \A h \in HeapNames : DOMAIN q[h] = Slots(q, h) /\ Slots(q, h) = 1..Len(q[h])
                             /\ Len(q[h]) \in Nat
    BY <2>1, HeapTypes DEF Slots
  <2>3. ASSUME NEW h \in HeapNames, NEW i \in DOMAIN q[h]
        PROVE  /\ q.item[q[h][i]].loc = h
               /\ q.item[q[h][i]].index = i
               /\ i > 1 => ~Less(q, h, i, i \div 2)
    BY <2>2 DEF QueueOK, InOrder, Placed, Heap
  <2>4. q.byID = {q.ready[i] : i \in DOMAIN q.ready}
                   \cup {q.delayed[i] : i \in DOMAIN q.delayed}
    BY <2>1, <2>2 DEF QueueOK, Ids
  <2> QED BY <2>3, <2>4 DEF HeapIntegrity, HeapNames
<1> QED BY <1>1, EngineInvTheorem, PTL

-----------------------------------------------------------------------------
(* A list of n different things has n elements.                            *)
LEMMA Counted ==
  ASSUME NEW n \in Nat, NEW f, DOMAIN f = 1..n,
         \A i, j \in 1..n : f[i] = f[j] => i = j,
         NEW T, T = {f[i] : i \in 1..n}
  PROVE  IsFiniteSet(T) /\ Cardinality(T) = n
<1> DEFINE D == 1..n
           g == [i \in D |-> f[i]]
<1>1. IsFiniteSet(D) /\ Cardinality(D) = n
  BY FS_Interval
<1>2. g \in Surjection(D, T)
  BY DEF Surjection
<1>3. g \in Injection(D, T)
  BY DEF Injection, IsInjective
<1> HIDE DEF D, g
<1> QED BY <1>1, <1>2, <1>3, FS_Surjection

(* One heap holds as many ids as its array has slots.                      *)
LEMMA IdsCounted ==
  ASSUME NEW s, QueueOK(s), NEW h \in HeapNames
  PROVE  IsFiniteSet(Ids(s, h)) /\ Cardinality(Ids(s, h)) = Len(s[h])
<1> DEFINE n == Len(s[h])
           f == s[h]
<1>1. s \in Queues /\ Placed(s, h)
  BY DEF QueueOK, InOrder
<1>2. n \in Nat /\ DOMAIN f = 1..n
  BY <1>1, HeapTypes
<1>3. \A i, j \in 1..n : f[i] = f[j] => i = j
  BY <1>1, SlotsDiffer DEF Slots
<1>4. Ids(s, h) = {f[i] : i \in 1..n}
  BY DEF Ids, Slots
<1> HIDE DEF n, f
<1>5. IsFiniteSet(Ids(s, h)) /\ Cardinality(Ids(s, h)) = n
  BY <1>2, <1>3, <1>4, Counted
<1> QED BY <1>5 DEF n

(* The ids of heap h in the strict order of its comparator.                *)
SortedBy(s, h, f) ==
  /\ f \in [Slots(s, h) -> Ids(s, h)]
  /\ \A i, j \in Slots(s, h) : i < j => ItemLess(s, h, f[i], f[j])

(* The comparator is a strict order on the ids held.                       *)
LEMMA HeldOrder ==
  ASSUME NEW s, QueueOK(s), NEW h \in HeapNames,
         NEW a \in Ids(s, h), NEW b \in Ids(s, h)
  PROVE  /\ ItemLess(s, h, a, b) => a # b /\ ~ItemLess(s, h, b, a)
         /\ a # b => ItemLess(s, h, a, b) \/ ItemLess(s, h, b, a)
<1>1. /\ s \in Queues /\ a \in IDs /\ b \in IDs /\ a \in s.byID /\ b \in s.byID
      /\ s.item[a].msg \in Messages /\ s.item[b].msg \in Messages
  BY HeapsApart DEF QueueOK, HeapNames
<1>2. a # b => s.item[a].order # s.item[b].order
  BY <1>1 DEF QueueOK
<1> QED BY <1>1, <1>2, LessOrders

LEMMA SortedCovers ==
  ASSUME NEW s, QueueOK(s), NEW h \in HeapNames, NEW f, SortedBy(s, h, f)
  PROVE  /\ \A i, j \in Slots(s, h) : f[i] = f[j] => i = j
         /\ \A x \in Ids(s, h) : \E i \in Slots(s, h) : f[i] = x
<1> DEFINE D == Slots(s, h)
           I == Ids(s, h)
<1>1. s \in Queues /\ Len(s[h]) \in Nat /\ D = 1..Len(s[h])
  BY HeapTypes DEF QueueOK, Slots
<1>2. IsFiniteSet(D) /\ Cardinality(D) = Len(s[h])
  BY <1>1, FS_Interval
<1>3. IsFiniteSet(I) /\ Cardinality(I) = Len(s[h])
  BY IdsCounted
<1>4. ASSUME NEW i \in D, NEW j \in D, f[i] = f[j] PROVE i = j
  <2>1. f[i] \in I /\ f[j] \in I
    BY DEF SortedBy
  <2>2. ~(i < j) /\ ~(j < i)
    BY <1>4, <2>1, HeldOrder DEF SortedBy
  <2> QED BY <1>1, <2>2
<1>5. f \in Injection(D, I)
  BY <1>4 DEF Injection, IsInjective, SortedBy
<1> HIDE DEF D, I
<1>6. f \in Surjection(D, I)
  BY <1>2, <1>3, <1>5, FS_Injection
<1> QED BY <1>4, <1>6 DEF Surjection, D, I

(* There is only one such list.                                            *)
LEMMA SortedUnique ==
  ASSUME NEW s, QueueOK(s), NEW h \in HeapNames,
         NEW f, SortedBy(s, h, f), NEW g, SortedBy(s, h, g)
  PROVE  f = g
<1> DEFINE D == Slots(s, h)
           T == {n \in Nat : \A i \in D : i <= n => f[i] = g[i]}
<1>1. Len(s[h]) \in Nat /\ D = 1..Len(s[h])
  BY HeapTypes DEF QueueOK, Slots
<1>2. 0 \in T
  BY <1>1
<1>3. ASSUME NEW n \in Nat, n \in T PROVE n + 1 \in T
  <2> SUFFICES ASSUME NEW k \in D, k = n + 1 PROVE f[k] = g[k]
    BY <1>1, <1>3
  <2>1. PICK j \in D : g[j] = f[k]
    BY SortedCovers DEF SortedBy
  <2>2. PICK i \in D : f[i] = g[k]
    BY SortedCovers DEF SortedBy
  <2>3. ~(j < k)
    <3> SUFFICES ASSUME j < k PROVE FALSE
      OBVIOUS
    <3>1. f[j] = g[j]
      BY <1>1, <1>3
    <3>2. j = k
      BY <2>1, <3>1, SortedCovers
    <3> QED BY <1>1, <3>2
  <2>4. ~(i < k)
    <3> SUFFICES ASSUME i < k PROVE FALSE
      OBVIOUS
    <3>1. f[i] = g[i]
      BY <1>1, <1>3
    <3>2. \A x, y \in D : g[x] = g[y] => x = y
      BY SortedCovers
    <3>3. i = k
      BY <2>2, <3>1, <3>2
    <3> QED BY <1>1, <3>3
  <2>5. ~(k < j /\ k < i)
    <3> SUFFICES ASSUME k < j, k < i PROVE FALSE
      OBVIOUS
    <3>1. ItemLess(s, h, g[k], g[j]) /\ ItemLess(s, h, f[k], f[i])
      BY DEF SortedBy
    <3>2. f[k] \in Ids(s, h) /\ g[k] \in Ids(s, h)
      BY DEF SortedBy
    <3> QED BY <2>1, <2>2, <3>1, <3>2, HeldOrder
  <2>6. j = k \/ i = k
    BY <1>1, <2>3, <2>4, <2>5
  <2> QED BY <2>1, <2>2, <2>6
<1>4. Len(s[h]) \in T
  <2> HIDE DEF T
  <2> QED BY <1>1, <1>2, <1>3, Induction
<1> QED BY <1>1, <1>4 DEF SortedBy

-----------------------------------------------------------------------------
(* What is left of heap h while s is drained.                              *)
DrainRuns(s, h) ==
  {r \in Queues :
     /\ QueueOK(r) /\ r.mode = s.mode /\ Ids(r, h) \subseteq Ids(s, h)
     /\ \A x \in Ids(r, h) :
          r.item[x].msg = s.item[x].msg /\ r.item[x].order = s.item[x].order}

LEMMA DrainKeeps ==
  ASSUME NEW s \in Queues, NEW h \in HeapNames, NEW r \in DrainRuns(s, h),
         NEW t, t = PopTop(r, h)
  PROVE  /\ t \in DrainRuns(s, h) /\ Ids(t, h) \subseteq Ids(r, h)
         /\ Len(r[h]) > 0 => /\ Len(t[h]) = Len(r[h]) - 1
                             /\ r[h][1] \in Ids(r, h) /\ r[h][1] \notin Ids(t, h)
<1>1. r \in Queues /\ QueueOK(r)
  BY DEF DrainRuns
<1>2. CASE Len(r[h]) > 0
  <2>1. r[h][1] \in Ids(r, h) /\ Removed(r, t, h, r[h][1])
    BY <1>1, <1>2, PopTopFacts
  <2>2. Ids(r, h) \subseteq IDs
    BY <1>1, HeapsApart DEF HeapNames
  <2>3. /\ QueueOK(t) /\ t \in Queues /\ t.mode = r.mode
        /\ Len(t[h]) = Len(r[h]) - 1 /\ Ids(t, h) = Ids(r, h) \ {r[h][1]}
    BY <2>1 DEF Removed, QueueOK
  <2>4. \A x \in Ids(t, h) :
          t.item[x].msg = r.item[x].msg /\ t.item[x].order = r.item[x].order
    BY <2>1, <2>2, <2>3 DEF Removed
  <2> QED BY <2>1, <2>3, <2>4 DEF DrainRuns
<1>3. CASE ~(Len(r[h]) > 0)
  <2>1. r[h] = <<>>
    BY <1>1, <1>3, HeapTypes, EmptySeq
  <2>2. t = r
    BY <2>1 DEF PopTop
  <2> QED BY <1>3, <2>2
<1> QED BY <1>2, <1>3

(* Repeated heap pops give the ids in the order of the comparator.         *)
LEMMA DrainFacts ==
  ASSUME NEW s, QueueOK(s), NEW h \in HeapNames
  PROVE  \E f : /\ SortedBy(s, h, f)
                /\ Drain(s, h) = [k \in Slots(s, h) |-> s.item[f[k]].msg]
<1> DEFINE S == DrainRuns(s, h)
           step == [x \in S |-> PopTop(x, h)]
           rest == CHOOSE rest : rest = [k \in Nat |->
                     IF k = 0 THEN s ELSE PopTop(rest[k - 1], h)]
           n == Len(s[h])
<1>0. s \in Queues /\ n \in Nat /\ Slots(s, h) = 1..n
  BY HeapTypes DEF QueueOK, Slots
<1>1. s \in S
  BY <1>0 DEF DrainRuns
<1>2. step \in [S -> S]
  BY <1>0, DrainKeeps
<1>3. PICK g : IsRun(g, S, step, s)
  <2> HIDE DEF S, step
  <2> QED BY <1>1, <1>2, Iteration
<1>4. g = [k \in Nat |-> IF k = 0 THEN s ELSE PopTop(g[k - 1], h)]
  <2> HIDE DEF S
  <2> QED BY <1>3 DEF IsRun
<1>5. rest = [k \in Nat |-> IF k = 0 THEN s ELSE PopTop(rest[k - 1], h)]
  BY <1>4
<1>6. Drain(s, h) = [k \in 1..n |-> rest[k - 1].item[rest[k - 1][h][1]].msg]
  BY DEF Drain
<1> HIDE DEF rest
<1>7. rest[0] = s /\ \A k \in Nat : rest[k + 1] = PopTop(rest[k], h)
  BY <1>5
<1>b. ASSUME NEW k \in Nat, rest[k] \in S
      PROVE  /\ rest[k + 1] \in S /\ Ids(rest[k + 1], h) \subseteq Ids(rest[k], h)
             /\ Len(rest[k][h]) > 0 =>
                  /\ Len(rest[k + 1][h]) = Len(rest[k][h]) - 1
                  /\ rest[k][h][1] \in Ids(rest[k], h)
                  /\ rest[k][h][1] \notin Ids(rest[k + 1], h)
  <2>1. rest[k + 1] = PopTop(rest[k], h)
    BY <1>7
  <2> DEFINE r == rest[k]
             t == rest[k + 1]
  <2> HIDE DEF r, t
  <2>2. r \in DrainRuns(s, h) /\ t = PopTop(r, h)
    BY <1>b, <2>1 DEF r, t
  <2>3. /\ t \in DrainRuns(s, h) /\ Ids(t, h) \subseteq Ids(r, h)
        /\ Len(r[h]) > 0 => /\ Len(t[h]) = Len(r[h]) - 1
                            /\ r[h][1] \in Ids(r, h) /\ r[h][1] \notin Ids(t, h)
    BY <1>0, <2>2, DrainKeeps
  <2> QED BY <2>3 DEF r, t
<1> DEFINE T == {k \in Nat : rest[k] \in S /\ (k <= n => Len(rest[k][h]) = n - k)}
<1>8. \A k \in Nat : k \in T
  <2>1. 0 \in T
    BY <1>0, <1>1, <1>7
  <2>2. ASSUME NEW k \in Nat, k \in T PROVE k + 1 \in T
    <3>1. /\ rest[k + 1] \in S
          /\ Len(rest[k][h]) > 0 => Len(rest[k + 1][h]) = Len(rest[k][h]) - 1
      <4> HIDE DEF S
      <4> QED BY <1>b, <2>2
    <3>2. k + 1 <= n => Len(rest[k][h]) > 0 /\ Len(rest[k][h]) = n - k
      BY <1>0, <2>2
    <3>3. k + 1 <= n => Len(rest[k + 1][h]) = n - (k + 1)
      <4> HIDE DEF S, n
      <4> QED BY <1>0, <3>1, <3>2
    <3> HIDE DEF S, n
    <3> QED BY <3>1, <3>3
  <2> HIDE DEF T
  <2> QED BY <2>1, <2>2, Induction
<1>9. \A k \in Nat : rest[k] \in S /\ (k <= n => Len(rest[k][h]) = n - k)
  BY <1>8
<1> HIDE DEF T
<1>10. \A k \in Nat : rest[k] \in Queues /\ QueueOK(rest[k]) /\ rest[k].mode = s.mode
  BY <1>9 DEF DrainRuns
<1>11. ASSUME NEW i \in Nat, NEW j \in Nat, i <= j
       PROVE  Ids(rest[j], h) \subseteq Ids(rest[i], h)
  <2> DEFINE A == {k \in Nat : i <= k => Ids(rest[k], h) \subseteq Ids(rest[i], h)}
  <2>1. 0 \in A
    OBVIOUS
  <2>2. ASSUME NEW k \in Nat, k \in A PROVE k + 1 \in A
    <3>1. Ids(rest[k + 1], h) \subseteq Ids(rest[k], h)
      BY <1>b, <1>9
    <3>2. i <= k + 1 => i <= k \/ i = k + 1
      OBVIOUS
    <3> QED BY <2>2, <3>1, <3>2
  <2>3. j \in A
    <3> HIDE DEF A
    <3> QED BY <2>1, <2>2, Induction
  <2> QED BY <1>11, <2>3
<1> DEFINE f == [k \in 1..n |-> rest[k - 1][h][1]]
<1>12. ASSUME NEW k \in 1..n
       PROVE  /\ k - 1 \in Nat /\ f[k] \in Ids(rest[k - 1], h) /\ f[k] \in Ids(s, h)
              /\ f[k] \notin Ids(rest[k], h) /\ Len(rest[k - 1][h]) > 0
              /\ rest[k - 1].item[f[k]].msg = s.item[f[k]].msg
  <2>1. k - 1 \in Nat /\ k - 1 <= n /\ (k - 1) + 1 = k
    BY <1>0
  <2>2. Len(rest[k - 1][h]) > 0
    BY <1>0, <1>9, <2>1
  <2>3. f[k] \in Ids(rest[k - 1], h) /\ f[k] \notin Ids(rest[k], h)
    <3> DEFINE l == k - 1
    <3>1. l \in Nat /\ rest[l] \in S /\ Len(rest[l][h]) > 0 /\ rest[k] = rest[l + 1]
      BY <1>9, <2>1, <2>2
    <3>2. rest[l][h][1] \in Ids(rest[l], h) /\ rest[l][h][1] \notin Ids(rest[l + 1], h)
      <4> HIDE DEF l, S
      <4> QED BY <3>1, <1>b
    <3> QED BY <3>1, <3>2
  <2> QED BY <1>9, <2>1, <2>2, <2>3 DEF DrainRuns
<1>13. ASSUME NEW i \in 1..n, NEW j \in 1..n, i < j
       PROVE  ItemLess(s, h, f[i], f[j])
  <2> DEFINE r == rest[i - 1]
  <2>1. i - 1 \in Nat /\ j - 1 \in Nat /\ i \in Nat /\ i <= j - 1 /\ i - 1 <= j - 1
    BY <1>0, <1>13
  <2>2. f[j] \in Ids(rest[i], h) /\ f[j] \in Ids(r, h)
    <3>1. f[j] \in Ids(rest[j - 1], h)
      BY <1>12
    <3> DEFINE l == j - 1
               m == i - 1
    <3>2. l \in Nat /\ m \in Nat /\ i <= l /\ m <= l
      BY <2>1
    <3>3. Ids(rest[l], h) \subseteq Ids(rest[i], h) /\ Ids(rest[l], h) \subseteq Ids(rest[m], h)
      <4> HIDE DEF l, m
      <4> QED BY <1>11, <2>1, <3>2
    <3> HIDE DEF f
    <3> QED BY <3>1, <3>3
  <2>3. /\ r \in Queues /\ QueueOK(r) /\ r \in S
        /\ f[i] \in Ids(r, h) /\ f[i] # f[j] /\ f[i] = r[h][1]
    BY <1>9, <1>10, <1>12, <2>1, <2>2
  <2> HIDE DEF f, r
  <2>4. PICK k \in Slots(r, h) : r[h][k] = f[j]
    BY <2>2 DEF Ids
  <2>5. ~ItemLess(r, h, f[j], f[i])
    BY <2>3, <2>4, FirstIsLeast DEF QueueOK, Less
  <2>6. ItemLess(r, h, f[i], f[j])
    BY <2>2, <2>3, <2>5, HeldOrder
  <2> QED BY <2>2, <2>3, <2>6 DEF DrainRuns, ItemLess, ReadyLess, DelayedLess
<1>14. SortedBy(s, h, f)
  BY <1>0, <1>12, <1>13 DEF SortedBy
<1>15. Drain(s, h) = [k \in Slots(s, h) |-> s.item[f[k]].msg]
  BY <1>0, <1>6, <1>12
<1> HIDE DEF f
<1> QED BY <1>14, <1>15

LEMMA SortedFacts ==
  ASSUME NEW s, QueueOK(s), NEW h \in HeapNames
  PROVE  SortedBy(s, h, Sorted(s, h)) /\ DOMAIN s[h] = Slots(s, h)
<1>1. s \in Queues /\ DOMAIN s[h] = Slots(s, h)
  BY HeapTypes DEF QueueOK, Slots
<1>2. \E f : SortedBy(s, h, f)
  BY DrainFacts
<1> QED BY <1>1, <1>2 DEF Sorted, SortedBy, Ids

LEMMA SortedIsDrainOrder ==
  ASSUME NEW s, QueueOK(s)
  PROVE  OrderedMessages(s, "ready", 0) = Drain(s, "ready")
<1>1. PICK f : /\ SortedBy(s, "ready", f)
               /\ Drain(s, "ready") = [k \in Slots(s, "ready") |-> s.item[f[k]].msg]
  BY DrainFacts DEF HeapNames
<1>2. /\ SortedBy(s, "ready", Sorted(s, "ready"))
      /\ DOMAIN s["ready"] = Slots(s, "ready")
  BY SortedFacts DEF HeapNames
<1>3. Sorted(s, "ready") = f
  BY <1>1, <1>2, SortedUnique DEF HeapNames
<1> HIDE DEF Sorted
<1> QED BY <1>1, <1>2, <1>3 DEF OrderedMessages

(* At every instant of every run, what Snapshot shows of the ready heap is *)
(* what repeated Pops with the clock standing would return, in that order. *)
THEOREM SnapshotTheorem == Spec => []SnapshotIsDrainOrder
<1>1. EngineInv => SnapshotIsDrainOrder
  <2> SUFFICES ASSUME QueueOK(q), clock \in Int PROVE SnapshotIsDrainOrder
    BY DEF EngineInv
  <2>1. QueueOK(PromoteLocked(q, clock))
    BY PromoteFacts DEF Promotes
  <2> QED BY <2>1, SortedIsDrainOrder DEF SnapshotIsDrainOrder
<1> QED BY <1>1, EngineInvTheorem, PTL

-----------------------------------------------------------------------------
(* The messages a heap holds: the abstract state.                          *)
Msgs(s, h) == {s.item[x].msg : x \in Ids(s, h)}

LEMMA MsgsFacts ==
  ASSUME NEW s, QueueOK(s), NEW h \in HeapNames
  PROVE  /\ Msgs(s, h) = {s.item[s[h][i]].msg : i \in DOMAIN s[h]}
         /\ \A x \in Ids(s, h) : /\ x \in IDs /\ x \in s.byID
                                 /\ s.item[x].msg \in Msgs(s, h)
                                 /\ s.item[x].msg.id = x
         /\ \A m \in Msgs(s, h) : /\ m \in Messages /\ m.id \in Ids(s, h)
                                  /\ s.item[m.id].msg = m
<1>1. s \in Queues /\ DOMAIN s[h] = Slots(s, h)
  BY HeapTypes DEF QueueOK, Slots
<1>2. \A x \in Ids(s, h) : /\ x \in IDs /\ x \in s.byID /\ s.item[x].msg.id = x
                           /\ s.item[x].msg \in Messages
  BY HeapsApart DEF QueueOK, HeapNames
<1>3. Msgs(s, h) = {s.item[s[h][i]].msg : i \in DOMAIN s[h]}
  BY <1>1 DEF Msgs, Ids
<1> QED BY <1>2, <1>3 DEF Msgs

(* All ids held, from the abstract state.                                  *)
LEMMA HeldIdsFacts ==
  ASSUME NEW s, QueueOK(s)
  PROVE  {m.id : m \in Msgs(s, "ready") \cup Msgs(s, "delayed")} = s.byID
<1>1. \A h \in HeapNames : \A m \in Msgs(s, h) : m.id \in Ids(s, h)
  BY MsgsFacts
<1>2. \A h \in HeapNames : \A x \in Ids(s, h) : s.item[x].msg \in Msgs(s, h)
                                                /\ s.item[x].msg.id = x
  BY MsgsFacts
<1>3. s.byID = Ids(s, "ready") \cup Ids(s, "delayed")
  BY DEF QueueOK
<1> QED BY <1>1, <1>2, <1>3 DEF HeapNames

LEMMA PromotedMsgs ==
  ASSUME NEW s, QueueOK(s), NEW now \in Int, NEW p, p = PromoteLocked(s, now)
  PROVE  /\ QueueOK(p) /\ p.mode = s.mode
         /\ Msgs(p, "ready") = Msgs(s, "ready") \cup Matured(Msgs(s, "delayed"), now)
         /\ Msgs(p, "delayed") = Msgs(s, "delayed") \ Matured(Msgs(s, "delayed"), now)
<1>1. Promotes(s, p, now)
  BY PromoteFacts
<1>2. QueueOK(p) /\ p.mode = s.mode
  BY <1>1 DEF Promotes, SameContents
<1>3. \A h \in HeapNames : \A x \in Ids(s, h) : p.item[x].msg = s.item[x].msg
  BY <1>1, MsgsFacts DEF Promotes, SameContents
<1>4. \A x \in Ids(p, "ready") : /\ p.item[x].msg = s.item[x].msg
                                 /\ p.item[x].msg.id = x
  <2>1. \A x \in Ids(p, "ready") : x \in IDs /\ p.item[x].msg.id = x
    BY <1>2, MsgsFacts DEF HeapNames
  <2> QED BY <1>1, <2>1 DEF Promotes, SameContents
<1>5. Msgs(p, "ready") = Msgs(s, "ready") \cup Matured(Msgs(s, "delayed"), now)
  <2>1. Ids(p, "ready") = Ids(s, "ready")
          \cup {x \in Ids(s, "delayed") : Available(s.item[x].msg, now)}
    BY <1>1 DEF Promotes
  <2> QED BY <1>4, <2>1, <1>3 DEF Msgs, Matured, HeapNames
<1>6. Msgs(p, "delayed") = Msgs(s, "delayed") \ Matured(Msgs(s, "delayed"), now)
  <2>1. Ids(p, "delayed") = {x \in Ids(s, "delayed") : ~Available(s.item[x].msg, now)}
    BY <1>1 DEF Promotes
  <2> QED BY <2>1, <1>3 DEF Msgs, Matured, HeapNames
<1> QED BY <1>2, <1>5, <1>6

LEMMA RemovedMsgs ==
  ASSUME NEW s, QueueOK(s), NEW h \in HeapNames, NEW id \in Ids(s, h),
         NEW u, Removed(s, u, h, id)
  PROVE  \A g \in HeapNames : Msgs(u, g) = {m \in Msgs(s, g) : m.id # id}
<1> SUFFICES ASSUME NEW g \in HeapNames
             PROVE  Msgs(u, g) = {m \in Msgs(s, g) : m.id # id}
  OBVIOUS
<1>1. Ids(u, g) = Ids(s, g) \ {id}
  <2>1. CASE g = h
    BY <2>1 DEF Removed
  <2>2. CASE g # h
    BY <2>2, HeapsApart DEF Removed, HeapNames
  <2> QED BY <2>1, <2>2
<1>2. \A x \in Ids(s, g) : x \in IDs /\ s.item[x].msg.id = x
  BY MsgsFacts
<1>3. \A x \in Ids(s, g) \ {id} : u.item[x].msg = s.item[x].msg
  BY <1>2 DEF Removed
<1> QED BY <1>1, <1>2, <1>3 DEF Msgs

LEMMA PushedMsgs ==
  ASSUME NEW s, QueueOK(s), NEW m \in Messages, m.id \notin s.byID,
         NEW u, u = Pushed(s, m)
  PROVE  /\ QueueOK(u) /\ u.mode = s.mode
         /\ Msgs(u, "ready") = Msgs(s, "ready")
         /\ Msgs(u, "delayed") = Msgs(s, "delayed") \cup {m}
<1>1. /\ QueueOK(u) /\ u.mode = s.mode
      /\ Ids(u, "ready") = Ids(s, "ready")
      /\ Ids(u, "delayed") = Ids(s, "delayed") \cup {m.id}
      /\ u.item[m.id].msg = m
      /\ \A x \in s.byID : u.item[x].msg = s.item[x].msg
  BY PushFacts
<1>2. \A h \in HeapNames : \A x \in Ids(s, h) : x \in s.byID
  BY MsgsFacts
<1> QED BY <1>1, <1>2 DEF Msgs, HeapNames

(* The top of the ready heap is a winner among the messages there.         *)
LEMMA TopIsBest ==
  ASSUME NEW s, QueueOK(s)
  PROVE  /\ s.ready = <<>> <=> Msgs(s, "ready") = {}
         /\ s.ready # <<>> =>
              s.item[s.ready[1]].msg \in Best(s.mode, Msgs(s, "ready"))
<1>1. /\ s \in Queues /\ s["ready"] = s.ready /\ "ready" \in HeapNames
      /\ Len(s.ready) \in Nat /\ (s.ready # <<>> <=> Len(s.ready) > 0)
      /\ Slots(s, "ready") = 1..Len(s.ready)
  BY ReadyTypes DEF QueueOK, Slots
<1>2. s.ready = <<>> => Msgs(s, "ready") = {}
  BY <1>1 DEF Msgs, Ids
<1>3. ASSUME s.ready # <<>>
      PROVE  /\ s.item[s.ready[1]].msg \in Msgs(s, "ready")
             /\ s.item[s.ready[1]].msg \in Best(s.mode, Msgs(s, "ready"))
  <2> DEFINE top == s.item[s.ready[1]].msg
  <2>1. 1 \in Slots(s, "ready") /\ s.ready[1] \in Ids(s, "ready")
    BY <1>1, <1>3 DEF Ids
  <2>2. top \in Msgs(s, "ready")
    BY <1>1, <2>1, MsgsFacts
  <2>3. ASSUME NEW x \in Msgs(s, "ready") PROVE ~Outranks(s.mode, x, top)
    <3>1. PICK k \in Slots(s, "ready") : x = s.item[s["ready"][k]].msg
      BY DEF Msgs, Ids
    <3>2. ~Less(s, "ready", k, 1)
      BY <1>1, FirstIsLeast DEF QueueOK
    <3> QED BY <1>1, <3>1, <3>2 DEF Less, ItemLess, ReadyLess
  <2> QED BY <2>2, <2>3 DEF Best
<1> QED BY <1>2, <1>3

LEMMA MsgsCounted ==
  ASSUME NEW s, QueueOK(s), NEW I, IsFiniteSet(I), I \subseteq s.byID,
         NEW M, M = {s.item[x].msg : x \in I}
  PROVE  Cardinality(M) = Cardinality(I)
<1> DEFINE f == [x \in I |-> s.item[x].msg]
<1>1. \A x \in I : s.item[x].msg.id = x
  BY DEF QueueOK
<1>2. f \in Surjection(I, M)
  BY DEF Surjection
<1>3. f \in Injection(I, M)
  BY <1>1 DEF Injection, IsInjective
<1> HIDE DEF f
<1> QED BY <1>2, <1>3, FS_Surjection

LEMMA HeapCounted ==
  ASSUME NEW s, QueueOK(s), NEW h \in HeapNames
  PROVE  Cardinality(Msgs(s, h)) = Len(s[h])
<1>1. IsFiniteSet(Ids(s, h)) /\ Cardinality(Ids(s, h)) = Len(s[h])
  BY IdsCounted
<1>2. Ids(s, h) \subseteq s.byID
  BY MsgsFacts
<1> QED BY <1>1, <1>2, MsgsCounted DEF Msgs

LEMMA QueueCounted ==
  ASSUME NEW s, QueueOK(s)
  PROVE  Cardinality(Msgs(s, "ready") \cup Msgs(s, "delayed")) = Cardinality(s.byID)
<1> DEFINE M == Msgs(s, "ready") \cup Msgs(s, "delayed")
           I == s.byID
<1>1. I = Ids(s, "ready") \cup Ids(s, "delayed")
  BY DEF QueueOK
<1>2. IsFiniteSet(I)
  <2>1. IsFiniteSet(Ids(s, "ready")) /\ IsFiniteSet(Ids(s, "delayed"))
    BY IdsCounted DEF HeapNames
  <2> QED BY <1>1, <2>1, FS_Union
<1>3. M = {s.item[x].msg : x \in I}
  BY <1>1 DEF Msgs
<1> HIDE DEF M
<1>4. Cardinality(M) = Cardinality(I)
  BY <1>2, <1>3, MsgsCounted
<1> QED BY <1>4 DEF M

-----------------------------------------------------------------------------
(* What the comparator of heap h says of two messages, arrival left out.   *)
ComesBefore(mode, h, a, b) ==
  IF h = "ready" THEN Outranks(mode, a, b) ELSE a.availableAt < b.availableAt

(* A page of heap h is as long as the limit allows, and nothing listed or  *)
(* left out comes before an earlier entry.                                 *)
LEMMA PageFacts ==
  ASSUME NEW s, QueueOK(s), NEW h \in HeapNames, NEW limit \in Int,
         NEW page, page = OrderedMessages(s, h, limit),
         NEW shown, shown = {page[i] : i \in DOMAIN page}
  PROVE  /\ Len(page) = IF limit > 0 /\ Len(s[h]) > limit THEN limit ELSE Len(s[h])
         /\ shown \subseteq Msgs(s, h)
         /\ Cardinality(shown) = Len(page)
         /\ \A i, j \in DOMAIN page : i < j => ~ComesBefore(s.mode, h, page[j], page[i])
         /\ \A i \in DOMAIN page, m \in Msgs(s, h) \ shown :
              ~ComesBefore(s.mode, h, m, page[i])
<1> DEFINE n == Len(s[h])
           f == Sorted(s, h)
           all == [i \in 1..n |-> s.item[f[i]].msg]
           L == IF limit > 0 /\ n > limit THEN limit ELSE n
<1>1. /\ s \in Queues /\ n \in Nat /\ Slots(s, h) = 1..n /\ DOMAIN s[h] = 1..n
  BY HeapTypes DEF QueueOK, Slots
<1>2. SortedBy(s, h, f)
  BY SortedFacts
<1>3. page = IF limit > 0 /\ Len(all) > limit THEN SubSeq(all, 1, limit) ELSE all
  <2> HIDE DEF f
  <2> QED BY <1>1 DEF OrderedMessages, f
<1> HIDE DEF f
<1>4. \A i \in 1..n : f[i] \in Ids(s, h) /\ all[i] = s.item[f[i]].msg
                      /\ all[i] \in Msgs(s, h) /\ all[i].id = f[i]
  BY <1>1, <1>2, MsgsFacts DEF SortedBy
<1>5. all \in Seq(Msgs(s, h)) /\ Len(all) = n
  <2>1. all \in [1..n -> Msgs(s, h)]
    BY <1>4
  <2> HIDE DEF all, n
  <2> QED BY <1>1, <2>1
<1>6. /\ L \in 0..n /\ Len(page) = L /\ DOMAIN page = 1..L
      /\ \A i \in 1..L : i \in 1..n /\ page[i] = all[i]
  <2> HIDE DEF all, n
  <2>1. CASE limit > 0 /\ n > limit
    <3>1. page = SubSeq(all, 1, limit) /\ L = limit /\ limit \in 1..n
      BY <1>1, <1>3, <1>5, <2>1
    <3> QED BY <1>1, <1>5, <3>1, SubSeqProperties
  <2>2. CASE ~(limit > 0 /\ n > limit)
    <3>1. page = all /\ L = n
      BY <1>3, <1>5, <2>2
    <3> QED BY <1>1, <1>5, <3>1
  <2> QED BY <2>1, <2>2
<1> HIDE DEF all, L
<1>7. \A i, j \in 1..n : f[i] = f[j] => i = j
  BY <1>1, <1>2, SortedCovers
<1>8. shown \subseteq Msgs(s, h)
  BY <1>4, <1>6
<1>9. Cardinality(shown) = L
  <2>1. L \in Nat
    BY <1>1, <1>6
  <2>2. \A i, j \in 1..L : page[i] = page[j] => i = j
    BY <1>4, <1>6, <1>7
  <2> QED BY <1>6, <2>1, <2>2, Counted
<1>10. ASSUME NEW i \in 1..n, NEW j \in 1..n, i < j
       PROVE  ~ComesBefore(s.mode, h, all[j], all[i])
  <2>1. ItemLess(s, h, f[i], f[j])
    BY <1>1, <1>2, <1>10 DEF SortedBy
  <2>2. ~ItemLess(s, h, f[j], f[i])
    BY <1>4, <2>1, HeldOrder
  <2> QED BY <1>4, <2>2 DEF ItemLess, ReadyLess, DelayedLess, ComesBefore
<1>11. ASSUME NEW i \in 1..L, NEW m \in Msgs(s, h) \ shown
       PROVE  ~ComesBefore(s.mode, h, m, page[i])
  <2>1. m.id \in Ids(s, h) /\ s.item[m.id].msg = m
    BY MsgsFacts
  <2>2. PICK j \in 1..n : f[j] = m.id
    BY <1>1, <1>2, <2>1, SortedCovers
  <2>3. all[j] = m
    BY <1>4, <2>1, <2>2
  <2>4. ~(j <= L)
    BY <1>1, <1>6, <2>3
  <2>5. i \in 1..n /\ i < j /\ page[i] = all[i]
    BY <1>1, <1>6, <2>4
  <2> QED BY <1>10, <2>3, <2>5
<1>12. \A i, j \in 1..L : i < j => ~ComesBefore(s.mode, h, page[j], page[i])
  BY <1>6, <1>10
<1> QED BY <1>6, <1>8, <1>9, <1>11, <1>12 DEF L

-----------------------------------------------------------------------------
(* EngineSpec's state in terms of Msgs, before and after a step.           *)
LEMMA AbstractState ==
  ASSUME NEW s, QueueOK(s)
  PROVE  /\ {s.item[s["ready"][i]].msg : i \in DOMAIN s["ready"]} = Msgs(s, "ready")
         /\ {s.item[s["delayed"][i]].msg : i \in DOMAIN s["delayed"]} = Msgs(s, "delayed")
BY MsgsFacts DEF HeapNames

LEMMA SameCardinality == \A S : Abstract!Cardinality(S) = Cardinality(S)
BY Zenon DEF Cardinality, Abstract!Cardinality

(* Each call is the call of the same name in EngineSpec.                   *)
LEMMA EngineRefinementStep ==
  EngineInv /\ EngineInv' /\ [Next]_vars => [Abstract!Next]_(Abstract!vars)
<1> SUFFICES ASSUME EngineInv, EngineInv', [Next]_vars
             PROVE  [Abstract!Next]_(Abstract!vars)
  OBVIOUS
<1> DEFINE p == PromoteLocked(q, clock)
           R == Msgs(q, "ready")
           D == Msgs(q, "delayed")
<1>0. QueueOK(q) /\ QueueOK(q') /\ clock \in Int
  BY DEF EngineInv
<1>1. /\ HeldBy("ready") = R /\ HeldBy("delayed") = D
      /\ HeldBy("ready")' = Msgs(q', "ready") /\ HeldBy("delayed")' = Msgs(q', "delayed")
  BY <1>0, AbstractState DEF HeldBy
<1>2. /\ QueueOK(p) /\ p.mode = q.mode
      /\ Msgs(p, "ready") = R \cup Matured(D, clock)
      /\ Msgs(p, "delayed") = D \ Matured(D, clock)
  BY <1>0, PromotedMsgs
<1>3. /\ Abstract!Promoted(clock) = Msgs(p, "ready")
      /\ Abstract!Waiting(clock) = Msgs(p, "delayed")
  <2>1. \A m \in D : m.availableAt \in Int
    BY <1>0, MsgsFacts, MessagesAssumption DEF HeapNames
  <2>2. \A m \in D : Available(m, clock) <=> m.availableAt <= clock
    BY <1>0, <2>1 DEF Available
  <2>3. /\ Matured(D, clock) = {m \in D : m.availableAt <= clock}
        /\ D \ Matured(D, clock) = {m \in D : m.availableAt > clock}
    BY <1>0, <2>1, <2>2 DEF Matured
  <2> HIDE DEF p, R, D
  <2> QED BY <1>1, <1>2, <2>3 DEF Abstract!Promoted, Abstract!Waiting
<1>4. Abstract!HeldIDs = q.byID /\ Abstract!Cardinality(Abstract!Held) = Cardinality(q.byID)
  BY <1>0, <1>1, HeldIdsFacts, QueueCounted, SameCardinality
     DEF Abstract!HeldIDs, Abstract!Held
<1>5. \A S : Abstract!Best(q.mode, S) = Best(q.mode, S)
  BY DEF Abstract!Best, Best, Abstract!Outranks, Outranks
<1> HIDE DEF p, R, D
<1>6. ASSUME NEW m \in Messages, Push(m) PROVE Abstract!Push(m)
  <2>1. CASE m.id \in q.byID
    BY <1>1, <1>4, <1>6, <2>1 DEF Push, Abstract!Push, R, D
  <2>2. CASE m.id \notin q.byID
    <3>1. q' = Pushed(q, m) /\ clock' = clock /\ ret' = <<"push">>
      BY <1>6, <2>2 DEF Push, Pushed, WithItem, NewItem
    <3>2. q'.mode = q.mode /\ Msgs(q', "ready") = R /\ Msgs(q', "delayed") = D \cup {m}
      BY <1>0, <2>2, <3>1, PushedMsgs DEF R, D
    <3> QED BY <1>1, <1>4, <2>2, <3>1, <3>2 DEF Abstract!Push
  <2> QED BY <2>1, <2>2
<1>7. ASSUME NEW id \in IDs, Remove(id) PROVE Abstract!Remove(id)
  <2>1. ret' = <<"remove", id \in q.byID>> /\ clock' = clock
    BY <1>7 DEF Remove
  <2>2. /\ q'.mode = q.mode
        /\ Msgs(q', "ready") = {m \in R : m.id # id}
        /\ Msgs(q', "delayed") = {m \in D : m.id # id}
    <3>1. CASE id \notin q.byID
      <4>1. q' = q
        BY <1>7, <3>1 DEF Remove
      <4>2. \A m \in R \cup D : m.id # id
        BY <1>0, <3>1, HeldIdsFacts DEF R, D
      <4> QED BY <4>1, <4>2 DEF R, D
    <3>2. CASE id \in q.byID
      <4> DEFINE h == q.item[id].loc
                 u == Delete(HeapRemove(q, h, q.item[id].index), id)
      <4>1. q' = u
        BY <1>7, <3>2 DEF Remove
      <4>2. h \in HeapNames /\ id \in Ids(q, h) /\ Removed(q, u, h, id)
        BY <1>0, <3>2, RemoveFacts
      <4> HIDE DEF u, h
      <4>3. \A g \in HeapNames : Msgs(u, g) = {m \in Msgs(q, g) : m.id # id}
        BY <1>0, <4>2, RemovedMsgs
      <4> QED BY <4>1, <4>2, <4>3 DEF R, D, HeapNames, Removed
    <3> QED BY <3>1, <3>2
  <2> QED BY <1>1, <1>4, <2>1, <2>2 DEF Abstract!Remove
<1>8. ASSUME Pop(clock) PROVE Abstract!Pop(clock)
  <2>1. clock' = clock
    BY <1>8 DEF Pop
  <2>2. CASE p.ready = <<>> /\ q' = p /\ ret' = <<"pop", None>>
    <3>1. Msgs(p, "ready") = {}
      BY <1>2, <2>2, TopIsBest
    <3> QED BY <1>1, <1>2, <1>3, <2>1, <2>2, <3>1
            DEF Abstract!Pop, None, Abstract!None
  <2>3. CASE /\ p.ready # <<>> /\ q' = Delete(HeapPop(p, "ready"), p.ready[1])
             /\ ret' = <<"pop", p.item[p.ready[1]].msg>>
    <3> DEFINE id == p.ready[1]
               m == p.item[id].msg
    <3>1. m \in Best(p.mode, Msgs(p, "ready"))
      BY <1>2, <2>3, TopIsBest
    <3>2. id \in Ids(p, "ready") /\ Removed(p, q', "ready", id)
      BY <1>2, <2>3, PopFacts
    <3>3. m.id = id /\ \A x \in Msgs(p, "ready") : x.id = id => x = m
      BY <1>2, <3>2, MsgsFacts DEF HeapNames
    <3>4. /\ Msgs(q', "ready") = {x \in Msgs(p, "ready") : x.id # id}
          /\ Msgs(q', "delayed") = {x \in Msgs(p, "delayed") : x.id # id}
      BY <1>2, <3>2, RemovedMsgs DEF HeapNames
    <3>5. \A x \in Msgs(p, "delayed") : x.id # id
      BY <1>2, <3>2, HeapsApart, MsgsFacts DEF HeapNames
    <3>6. Msgs(q', "ready") = Msgs(p, "ready") \ {m} /\ Msgs(q', "delayed") = Msgs(p, "delayed")
      BY <3>3, <3>4, <3>5
    <3>7. q'.mode = q.mode
      BY <1>2, <3>2 DEF Removed
    <3> HIDE DEF m
    <3>8. m \in Abstract!Best(q.mode, Abstract!Promoted(clock)) /\ ret' = <<"pop", m>>
      BY <1>2, <1>3, <1>5, <2>3, <3>1 DEF m
    <3> QED BY <1>1, <1>3, <2>1, <3>6, <3>7, <3>8 DEF Abstract!Pop
  <2> QED BY <1>8, <2>2, <2>3 DEF Pop, p
<1>9. ASSUME Peek(clock) PROVE Abstract!Peek(clock)
  <2>1. /\ clock' = clock /\ q' = p
        /\ ret' = <<"peek", IF p.ready = <<>> THEN None ELSE p.item[p.ready[1]].msg>>
    BY <1>9 DEF Peek, p
  <2>2. CASE p.ready = <<>>
    <3>1. Msgs(p, "ready") = {}
      BY <1>2, <2>2, TopIsBest
    <3> QED BY <1>1, <1>2, <1>3, <2>1, <2>2, <3>1
            DEF Abstract!Peek, None, Abstract!None
  <2>3. CASE p.ready # <<>>
    <3> DEFINE m == p.item[p.ready[1]].msg
    <3>1. m \in Best(p.mode, Msgs(p, "ready"))
      BY <1>2, <2>3, TopIsBest
    <3> HIDE DEF m
    <3>2. m \in Abstract!Best(q.mode, Abstract!Promoted(clock)) /\ ret' = <<"peek", m>>
      BY <1>2, <1>3, <1>5, <2>1, <2>3, <3>1 DEF m
    <3> QED BY <1>1, <1>2, <1>3, <2>1, <3>2 DEF Abstract!Peek
  <2> QED BY <2>2, <2>3
<1>10. ASSUME Length PROVE Abstract!Length
  BY <1>1, <1>4, <1>10 DEF Length, Abstract!Length, R, D
<1>11. ASSUME AvailableLen(clock) PROVE Abstract!AvailableLen(clock)
  <2>1. clock' = clock /\ q' = p /\ ret' = <<"availableLen", Len(p.ready)>>
    BY <1>11 DEF AvailableLen, p
  <2>2. Abstract!Cardinality(Msgs(p, "ready")) = Len(p.ready)
    BY <1>2, HeapCounted, SameCardinality DEF HeapNames
  <2> QED BY <1>1, <1>2, <1>3, <2>1, <2>2 DEF Abstract!AvailableLen
<1>12. ASSUME NEW limit \in Limits, Snapshot(clock, limit) PROVE Abstract!Snapshot(clock, limit)
  <2> DEFINE ready == OrderedMessages(p, "ready", limit)
             delayed == OrderedMessages(p, "delayed", limit)
             view == ret'[2]
  <2>0. limit \in Int
    BY MessagesAssumption
  <2>1. /\ clock' = clock /\ q' = p /\ ret'[1] = "snapshot"
        /\ view.ready = ready /\ view.delayed = delayed
        /\ view.readyTruncated = (limit > 0 /\ Len(p.ready) > limit)
        /\ view.delayedTruncated = (limit > 0 /\ Len(p.delayed) > limit)
        /\ view.readyLen = Len(p.ready) /\ view.delayedLen = Len(p.delayed)
    <3> HIDE DEF ready, delayed
    <3> QED BY <1>12 DEF Snapshot, p, ready, delayed
  <2>2. /\ Abstract!Cardinality(Msgs(p, "ready")) = Len(p.ready)
        /\ Abstract!Cardinality(Msgs(p, "delayed")) = Len(p.delayed)
        /\ Len(p.ready) \in Nat /\ Len(p.delayed) \in Nat
    BY <1>2, HeapCounted, SameCardinality, ReadyTypes, DelayedTypes DEF HeapNames, QueueOK
  <2> HIDE DEF ready, delayed, view
  <2>3. /\ Abstract!IsPage(ready, Msgs(p, "ready"), limit,
             LAMBDA a, b : Abstract!Outranks(q.mode, a, b))
        /\ Len(ready) = IF limit > 0 /\ Len(p.ready) > limit THEN limit ELSE Len(p.ready)
    <3> DEFINE shown == {ready[i] : i \in DOMAIN ready}
    <3>1. \A a, b : ComesBefore(p.mode, "ready", a, b) <=> Abstract!Outranks(q.mode, a, b)
      BY <1>2 DEF ComesBefore, Outranks, Abstract!Outranks
    <3>2. /\ Len(ready) = IF limit > 0 /\ Len(p.ready) > limit THEN limit ELSE Len(p.ready)
          /\ shown \subseteq Msgs(p, "ready")
          /\ Abstract!Cardinality(shown) = Len(ready)
          /\ \A i, j \in DOMAIN ready : i < j => ~ComesBefore(p.mode, "ready", ready[j], ready[i])
          /\ \A i \in DOMAIN ready, m \in Msgs(p, "ready") \ shown :
               ~ComesBefore(p.mode, "ready", m, ready[i])
      <4>1. /\ "ready" \in HeapNames /\ ready = OrderedMessages(p, "ready", limit)
            /\ shown = {ready[i] : i \in DOMAIN ready}
        BY DEF HeapNames, ready
      <4> HIDE DEF shown
      <4>2. Cardinality(shown) = Abstract!Cardinality(shown) /\ p["ready"] = p.ready
        BY SameCardinality
      <4> QED BY <1>2, <2>0, <4>1, <4>2, PageFacts
    <3> QED BY <2>2, <3>1, <3>2 DEF Abstract!IsPage
  <2>4. /\ Abstract!IsPage(delayed, Msgs(p, "delayed"), limit, Abstract!MaturesFirst)
        /\ Len(delayed) = IF limit > 0 /\ Len(p.delayed) > limit THEN limit ELSE Len(p.delayed)
    <3> DEFINE shown == {delayed[i] : i \in DOMAIN delayed}
    <3>1. \A a, b : ComesBefore(p.mode, "delayed", a, b) <=> Abstract!MaturesFirst(a, b)
      BY DEF ComesBefore, Abstract!MaturesFirst
    <3>2. /\ Len(delayed) = IF limit > 0 /\ Len(p.delayed) > limit THEN limit ELSE Len(p.delayed)
          /\ shown \subseteq Msgs(p, "delayed")
          /\ Abstract!Cardinality(shown) = Len(delayed)
          /\ \A i, j \in DOMAIN delayed :
               i < j => ~ComesBefore(p.mode, "delayed", delayed[j], delayed[i])
          /\ \A i \in DOMAIN delayed, m \in Msgs(p, "delayed") \ shown :
               ~ComesBefore(p.mode, "delayed", m, delayed[i])
      <4>1. /\ "delayed" \in HeapNames /\ delayed = OrderedMessages(p, "delayed", limit)
            /\ shown = {delayed[i] : i \in DOMAIN delayed}
        BY DEF HeapNames, delayed
      <4> HIDE DEF shown
      <4>2. Cardinality(shown) = Abstract!Cardinality(shown) /\ p["delayed"] = p.delayed
        BY SameCardinality
      <4> QED BY <1>2, <2>0, <4>1, <4>2, PageFacts
    <3> QED BY <2>2, <3>1, <3>2 DEF Abstract!IsPage
  <2>5. /\ view.readyTruncated = (Len(view.ready) < view.readyLen)
        /\ view.delayedTruncated = (Len(view.delayed) < view.delayedLen)
    <3>1. /\ Len(ready) < Len(p.ready) <=> limit > 0 /\ Len(p.ready) > limit
          /\ Len(delayed) < Len(p.delayed) <=> limit > 0 /\ Len(p.delayed) > limit
      <4>1. /\ Len(ready) = IF limit > 0 /\ Len(p.ready) > limit THEN limit ELSE Len(p.ready)
            /\ Len(delayed) = IF limit > 0 /\ Len(p.delayed) > limit THEN limit ELSE Len(p.delayed)
        BY <2>3, <2>4, Zenon
      <4> QED BY <2>0, <2>2, <4>1
    <3>2. /\ (Len(ready) < Len(p.ready)) = (limit > 0 /\ Len(p.ready) > limit)
          /\ (Len(delayed) < Len(p.delayed)) = (limit > 0 /\ Len(p.delayed) > limit)
      BY <3>1
    <3> QED BY <2>1, <3>2, Zenon
  <2>6. /\ Abstract!IsPage(view.ready, Abstract!Promoted(clock), limit,
             LAMBDA a, b : Abstract!Outranks(q.mode, a, b))
        /\ Abstract!IsPage(view.delayed, Abstract!Waiting(clock), limit, Abstract!MaturesFirst)
    BY <1>3, <2>1, <2>3, <2>4
  <2> QED BY <1>1, <1>2, <1>3, <2>1, <2>2, <2>5, <2>6 DEF Abstract!Snapshot, view
<1>13. CASE Tick
  BY <1>0, <1>1, <1>13 DEF Tick, Abstract!Tick, Abstract!Next, R, D
<1>14. CASE UNCHANGED vars
  BY <1>1, <1>14 DEF vars, Abstract!vars, R, D
<1>15. ASSUME NEW id \in IDs, Remove(id) PROVE Abstract!Next
  <2>1. PICK m \in Messages : id = m.id
    BY DEF IDs
  <2> QED BY <1>7, <1>15, <2>1 DEF Abstract!Next
<1>16. ASSUME NEW limit \in Limits, Snapshot(clock, limit) PROVE Abstract!Next
  BY <1>12, <1>16 DEF Abstract!Next
<1>17. ASSUME NEW m \in Messages, Push(m) PROVE Abstract!Next
  BY <1>6, <1>17 DEF Abstract!Next
<1>18. CASE Pop(clock) \/ Peek(clock) \/ Length \/ AvailableLen(clock)
  BY <1>8, <1>9, <1>10, <1>11, <1>18 DEF Abstract!Next
<1> QED BY <1>13, <1>14, <1>15, <1>16, <1>17, <1>18 DEF Next

(* The queue built from two container/heap arrays does what EngineSpec     *)
(* promises of two sets of messages, call by call: Pop and Peek return a   *)
(* winner among everything visible, counts count, Remove takes exactly the *)
(* message named, and a snapshot shows the first entries in order.         *)
THEOREM EngineRefinementTheorem == Spec => ImplementsEngineSpec
<1>1. Init => Abstract!Init
  <2> SUFFICES ASSUME Init PROVE Abstract!Init
    OBVIOUS
  <2>1. PICK mode \in Modes : q = NewQueue(mode)
    BY DEF Init
  <2>2. q.mode \in Modes /\ q["ready"] = <<>> /\ q["delayed"] = <<>>
    BY <2>1 DEF NewQueue
  <2>3. HeldBy("ready") = {} /\ HeldBy("delayed") = {}
    BY <2>2 DEF HeldBy
  <2> QED BY <2>2, <2>3 DEF Init, Abstract!Init, Modes, Abstract!Modes
<1> QED BY <1>1, EngineInvTheorem, EngineRefinementStep, PTL
        DEF Spec, ImplementsEngineSpec, Abstract!Spec
=============================================================================
