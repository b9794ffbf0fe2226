--------------------------- MODULE LeastLoadedProofs ---------------------------
(***************************************************************************)
(* Proofs about the least-loaded pickers, for any connections and          *)
(* requests: sifting puts a heap in order, whatever its size; the root is  *)
(* then an item with the least load; and the loads count the requests in   *)
(* flight through all updates.                                             *)
(***************************************************************************)
EXTENDS LeastLoaded, DataLemmas

-----------------------------------------------------------------------------
(* Heaps.                                                                  *)

\* An item's index is its position, and that of an evicted item is 0.
Indexed(h) ==
    /\ \A p \in DOMAIN h.heap : h.index[h.heap[p]] = p
    /\ \A i \in Item : i \notin ToSet(h.heap) => h.index[i] = 0

\* The heaps that differ from h in the order of their items.
Rearranged(h) ==
    { g \in HeapRecord : /\ Indexed(g)
                         /\ Len(g.heap) = Len(h.heap)
                         /\ ToSet(g.heap) = ToSet(h.heap)
                         /\ g.load = h.load
                         /\ g.tieBreak = h.tieBreak }

\* No item comes before its parent, for the parents from position lo on.
SortedFrom(h, lo) ==
    \A q \in 2..Len(h.heap) : q \div 2 >= lo => ~Less(h, q, q \div 2)

Sorted(h) == SortedFrom(h, 1)

\* The item at position p may have to sink: all other items are sorted, those
\* above p with those below it, too.
SortedBut(h, lo, p) ==
    \A q \in 2..Len(h.heap) :
        /\ q \div 2 >= lo /\ q \div 2 # p => ~Less(h, q, q \div 2)
        /\ q \div 2 = p /\ p \div 2 >= lo => ~Less(h, q, p \div 2)

\* The item at position p may have to rise.
SortedUnder(h, p) ==
    \A q \in 2..Len(h.heap) :
        /\ q # p => ~Less(h, q, q \div 2)
        /\ q \div 2 = p /\ p \div 2 >= 1 => ~Less(h, q, p \div 2)

LEMMA HeapTypes ==
    ASSUME NEW h \in HeapRecord
    PROVE  /\ h.heap \in Seq(Item) /\ Len(h.heap) \in Nat /\ DOMAIN h.heap = 1..Len(h.heap)
           /\ \A p \in 1..Len(h.heap) : /\ h.heap[p] \in Item
                                        /\ h.load[h.heap[p]] \in Int
                                        /\ h.tieBreak[h.heap[p]] \in Int
           /\ h.load \in [Item -> Int] /\ h.tieBreak \in [Item -> Int]
           /\ h.index \in [Item -> Nat]
  BY DEF HeapRecord

\* Less is a strict weak order.
LEMMA LessOrders ==
    ASSUME NEW h \in HeapRecord
    PROVE  /\ \A p, q \in 1..Len(h.heap) : Less(h, p, q) => ~Less(h, q, p)
           /\ \A p, q, r \in 1..Len(h.heap) :
                ~Less(h, p, q) /\ ~Less(h, q, r) => ~Less(h, p, r)
  <1>1. ASSUME NEW p \in 1..Len(h.heap), NEW q \in 1..Len(h.heap), Less(h, p, q)
        PROVE  ~Less(h, q, p)
    BY <1>1, HeapTypes, SMTT(40) DEF Less
  <1>2. ASSUME NEW p \in 1..Len(h.heap), NEW q \in 1..Len(h.heap),
               NEW r \in 1..Len(h.heap), ~Less(h, p, q), ~Less(h, q, r)
        PROVE  ~Less(h, p, r)
    <2> DEFINE L(n) == h.load[h.heap[n]]
               T(n) == h.tieBreak[h.heap[n]]
    <2>1. \A n \in { p, q, r } : L(n) \in Int /\ T(n) \in Int
      BY HeapTypes
    <2>2. \A m, n : Less(h, m, n) <=> L(m) < L(n) \/ (L(m) = L(n) /\ T(m) < T(n))
      BY DEF Less
    <2> HIDE DEF L, T
    <2> QED
      BY <1>2, <2>1, <2>2
  <1> QED
    BY <1>1, <1>2

\* An item has one position.
LEMMA DistinctItems ==
    ASSUME NEW h \in HeapRecord, Indexed(h)
    PROVE  \A p, q \in 1..Len(h.heap) : h.heap[p] = h.heap[q] => p = q
  BY HeapTypes DEF Indexed

LEMMA PositionsIndex ==
    ASSUME NEW s \in Seq(Item), \A p, q \in DOMAIN s : s[p] = s[q] => p = q
    PROVE  /\ Positions(s) \in [Item -> Nat]
           /\ \A p \in DOMAIN s : Positions(s)[s[p]] = p
           /\ \A i \in Item : i \notin ToSet(s) => Positions(s)[i] = 0
  <1>1. DOMAIN s = 1..Len(s) /\ Len(s) \in Nat /\ \A p \in DOMAIN s : s[p] \in Item
    OBVIOUS
  <1>2. ASSUME NEW i \in ToSet(s)
        PROVE  (CHOOSE p \in DOMAIN s : s[p] = i) \in DOMAIN s
    BY DEF ToSet
  <1>3. \A p \in DOMAIN s : (CHOOSE q \in DOMAIN s : s[q] = s[p]) = p
    OBVIOUS
  <1>4. \A p \in DOMAIN s : s[p] \in ToSet(s)
    BY DEF ToSet
  <1> QED
    BY <1>1, <1>2, <1>3, <1>4 DEF Positions

\* What a swap does.
LEMMA SwapSwaps ==
    ASSUME NEW h \in HeapRecord, Indexed(h),
           NEW p \in 1..Len(h.heap), NEW q \in 1..Len(h.heap), p # q
    PROVE  /\ Swap(h, p, q) \in Rearranged(h)
           /\ Swap(h, p, q).heap[p] = h.heap[q]
           /\ Swap(h, p, q).heap[q] = h.heap[p]
           /\ \A r \in 1..Len(h.heap) : r # p /\ r # q => Swap(h, p, q).heap[r] = h.heap[r]
  <1> DEFINE g == Swap(h, p, q)
             N == Len(h.heap)
             a == h.heap[p]
             b == h.heap[q]
             f == [[h.heap EXCEPT ![p] = b] EXCEPT ![q] = a]
             x == [[h.index EXCEPT ![b] = p] EXCEPT ![a] = q]
  <1>1. /\ h.heap \in Seq(Item) /\ h.heap \in [1..N -> Item] /\ N \in Nat
        /\ h.index \in [Item -> Nat] /\ a \in Item /\ b \in Item /\ a # b
    BY HeapTypes, DistinctItems
  <1>2. f \in [1..N -> Item] /\ f \in Seq(Item) /\ Len(f) = N
    <2>1. [h.heap EXCEPT ![p] = b] \in Seq(Item) /\ Len([h.heap EXCEPT ![p] = b]) = N
      BY <1>1, ExceptSeq
    <2>2. f \in Seq(Item) /\ Len(f) = N
      BY <1>1, <2>1, ExceptSeq
    <2> HIDE DEF f
    <2> QED
      BY <2>2
  <1>3. f[p] = b /\ f[q] = a /\ \A r \in 1..N : r # p /\ r # q => f[r] = h.heap[r]
    BY <1>1
  <1>4. x \in [Item -> Nat]
    BY <1>1
  <1>5. x[b] = p /\ x[a] = q /\ \A i \in Item : i # a /\ i # b => x[i] = h.index[i]
    BY <1>1
  <1>6. g = [h EXCEPT !.heap = f, !.index = x]
    BY DEF Swap
  <1> HIDE DEF f, x, g
  <1>7. g.heap = f /\ g.index = x /\ g.load = h.load /\ g.tieBreak = h.tieBreak /\ g \in HeapRecord
    BY <1>2, <1>4, <1>6 DEF HeapRecord
  <1>8. ToSet(f) = ToSet(h.heap)
    <2>1. DOMAIN f = 1..N /\ DOMAIN h.heap = 1..N
      BY <1>1, <1>2
    <2>2. \A i : (\E r \in 1..N : f[r] = i) <=> (\E r \in 1..N : h.heap[r] = i)
      BY <1>1, <1>3
    <2> QED
      BY <2>1, <2>2 DEF ToSet
  <1>9. Indexed(g)
    <2>1. ASSUME NEW r \in 1..N
          PROVE  x[f[r]] = r
      <3>1. h.index[h.heap[r]] = r /\ h.heap[r] \in Item
        BY HeapTypes, <1>1 DEF Indexed
      <3>2. r # p /\ r # q => h.heap[r] # a /\ h.heap[r] # b
        BY <1>1, DistinctItems
      <3> QED
        BY <1>3, <1>5, <3>1, <3>2
    <2>2. ASSUME NEW i \in Item, i \notin ToSet(f)
          PROVE  x[i] = 0
      <3>1. a \in ToSet(f) /\ b \in ToSet(f)
        BY <1>1, <1>2, <1>3 DEF ToSet
      <3>2. h.index[i] = 0
        BY <1>8, <2>2 DEF Indexed
      <3> QED
        BY <1>5, <2>2, <3>1, <3>2
    <2> QED
      BY <1>2, <1>7, <2>1, <2>2 DEF Indexed
  <1> QED
    BY <1>2, <1>3, <1>7, <1>8, <1>9 DEF Rearranged, g

\* Where the item at position r was before a swap.
Was(p, q, r) == IF r = p THEN q ELSE IF r = q THEN p ELSE r

\* A swapped heap compares its items as before, at their new positions.
LEMMA SwapLess ==
    ASSUME NEW h \in HeapRecord, Indexed(h),
           NEW p \in 1..Len(h.heap), NEW q \in 1..Len(h.heap), p # q,
           NEW m \in 1..Len(h.heap), NEW n \in 1..Len(h.heap)
    PROVE  Less(Swap(h, p, q), m, n) <=> Less(h, Was(p, q, m), Was(p, q, n))
  <1> DEFINE g == Swap(h, p, q)
  <1>1. \A r \in 1..Len(h.heap) : g.heap[r] = h.heap[Was(p, q, r)]
    BY SwapSwaps DEF Was
  <1>2. g.load = h.load /\ g.tieBreak = h.tieBreak
    BY SwapSwaps DEF Rearranged
  <1> HIDE DEF g
  <1>3. Less(g, m, n) <=> Less(h, Was(p, q, m), Was(p, q, n))
    BY <1>1, <1>2 DEF Less
  <1> QED
    BY <1>3 DEF g

LEMMA RearrangedAgain ==
    ASSUME NEW h \in HeapRecord, NEW g \in Rearranged(h)
    PROVE  /\ g \in HeapRecord /\ Indexed(g) /\ Len(g.heap) = Len(h.heap)
           /\ \A f \in Rearranged(g) : f \in Rearranged(h)
  BY DEF Rearranged

LEMMA RearrangedItself ==
    ASSUME NEW h \in HeapRecord, Indexed(h)
    PROVE  h \in Rearranged(h)
  BY DEF Rearranged

-----------------------------------------------------------------------------
(* Sinking.                                                                *)

\* A heap and the position of the item that may have to sink.
Sinking(h, lo) ==
    { at \in Rearranged(h) \X (lo..Len(h.heap)) : SortedBut(at[1], lo, at[2]) }

\* The item has sunk far enough.
Sunk(at) ==
    \A q \in 2..Len(at[1].heap) : q \div 2 = at[2] => ~Less(at[1], q, at[2])

\* One level down: the least child takes the item's place.
LEMMA DownStep ==
    ASSUME NEW h \in HeapRecord, NEW lo \in Nat \ {0}, NEW at \in Sinking(h, lo)
    PROVE  /\ DownOnce(at) \in Sinking(h, lo)
           /\ IF Sunk(at) THEN DownOnce(at) = at ELSE DownOnce(at)[2] > at[2]
  <1> DEFINE g == at[1]
             c == at[2]
             N == Len(h.heap)
             left == 2 * c
             child == IF left < N /\ Less(g, left + 1, left) THEN left + 1 ELSE left
  <1>1. /\ g \in HeapRecord /\ Indexed(g) /\ Len(g.heap) = N /\ g \in Rearranged(h)
        /\ at = << g, c >> /\ c \in lo..N /\ N \in Nat /\ c \in 1..N
    BY RearrangedAgain, HeapTypes DEF Sinking
  <1>2. /\ \A q \in 2..N : q \div 2 >= lo /\ q \div 2 # c => ~Less(g, q, q \div 2)
        /\ \A q \in 2..N : q \div 2 = c /\ c \div 2 >= lo => ~Less(g, q, c \div 2)
    BY <1>1 DEF Sinking, SortedBut
  <1>3. \A q \in 2..N : q \div 2 = c <=> q = left \/ q = left + 1
    BY <1>1
  <1>4. Sunk(at) <=> \A q \in 2..N : q = left \/ q = left + 1 => ~Less(g, q, c)
    BY <1>1, <1>3 DEF Sunk
  <1>5. DownOnce(at) =
          IF left <= N /\ Less(g, child, c) THEN << Swap(g, child, c), child >> ELSE at
    BY <1>1 DEF DownOnce
  <1>6. left <= N => child \in 2..N /\ (child = left \/ child = left + 1)
    BY <1>1
  <1>7. CASE Sunk(at)
    BY <1>4, <1>5, <1>6, <1>7
  <1>8. CASE ~Sunk(at)
    <2>1. PICK q \in 2..N : (q = left \/ q = left + 1) /\ Less(g, q, c)
      BY <1>4, <1>8
    <2>2. left \in 1..N /\ child \in 2..N /\ (child = left \/ child = left + 1)
          /\ child > c /\ (left + 1 \in 2..N \/ left = N)
      BY <1>1, <1>6, <2>1
    <2>3. \A r \in 2..N : r = left \/ r = left + 1 => ~Less(g, r, child)
      BY <1>1, <2>2, LessOrders
    <2>4. Less(g, child, c)
      BY <1>1, <2>1, <2>2, <2>3, LessOrders
    <2> DEFINE y == Swap(g, child, c)
               was(r) == Was(child, c, r)
    <2>5. DownOnce(at) = << y, child >>
      BY <1>5, <2>2, <2>4
    <2>6. y \in Rearranged(h)
      <3>1. y \in Rearranged(g)
        BY <1>1, <2>2, SwapSwaps
      <3> QED
        BY <1>1, <3>1, RearrangedAgain
    <2>7. \A m, n \in 1..N : Less(y, m, n) <=> Less(g, was(m), was(n))
      <3>1. ASSUME NEW m \in 1..N, NEW n \in 1..N
            PROVE  Less(y, m, n) <=> Less(g, was(m), was(n))
        <4>1. child \in 1..N /\ child # c
          BY <1>1, <2>2
        <4> HIDE DEF child
        <4> QED
          BY <1>1, <4>1, SwapLess
      <3> QED
        BY <3>1
    <2>8. Len(y.heap) = N
      BY <2>6 DEF Rearranged
    <2> HIDE DEF y, child
    <2> USE DEF Was
    <2>9. ASSUME NEW r \in 2..N, r \div 2 >= lo, r \div 2 # child
          PROVE  ~Less(y, r, r \div 2)
      <3>1. r \in 1..N /\ r \div 2 \in 1..N /\ r \div 2 < r
        BY <1>1
      <3>2. Less(y, r, r \div 2) <=> Less(g, was(r), was(r \div 2))
        BY <2>7, <3>1
      <3>3. CASE r = child
        <4>1. r \div 2 = c /\ c # child
          BY <1>1, <1>3, <2>2, <3>3, SMTT(40)
        <4>2. was(r) = c /\ was(r \div 2) = child
          BY <3>3, <4>1
        <4>3. ~Less(g, c, child)
          BY <1>1, <2>2, <2>4, LessOrders
        <4> QED
          BY <3>2, <4>2, <4>3
      <3>4. CASE r # child /\ r \div 2 = c
        <4>1. r = left \/ r = left + 1
          BY <1>3, <3>4
        <4>2. was(r) = r /\ was(r \div 2) = child
          BY <3>1, <3>4
        <4> QED
          BY <2>3, <3>2, <4>1, <4>2
      <3>5. CASE r = c
        <4>1. was(r) = child /\ was(r \div 2) = r \div 2
          BY <2>2, <2>9, <3>1, <3>5
        <4>2. child \div 2 = c
          BY <1>3, <2>2
        <4>3. ~Less(g, child, c \div 2)
          BY <1>2, <2>2, <2>9, <3>5, <4>2
        <4> QED
          BY <3>2, <3>5, <4>1, <4>3
      <3>6. CASE r # child /\ r # c /\ r \div 2 # c
        BY <1>2, <2>9, <3>2, <3>6
      <3> QED
        BY <3>3, <3>4, <3>5, <3>6
    <2>10. ASSUME NEW r \in 2..N, r \div 2 = child
           PROVE  ~Less(y, r, child \div 2)
      <3>1. child \div 2 = c
        BY <1>3, <2>2
      <3>2. r \in 1..N /\ r # child /\ r # c
        BY <1>1, <2>2, <2>10, SMTT(40)
      <3>3. Less(y, r, c) <=> Less(g, r, child)
        BY <1>1, <2>7, <3>2
      <3>4. child # c /\ child >= lo
        BY <1>1, <2>2
      <3>5. ~Less(g, r, child)
        BY <1>2, <2>10, <3>4
      <3> QED
        BY <3>1, <3>3, <3>5
    <2>11. SortedBut(y, lo, child)
      BY <2>8, <2>9, <2>10 DEF SortedBut
    <2>12. child \in lo..N
      BY <1>1, <2>2
    <2> QED
      BY <1>8, <2>2, <2>5, <2>6, <2>11, <2>12 DEF Sinking
  <1> QED
    BY <1>7, <1>8

\* The loop of Down, turn by turn.
DownHistory(at, h, p) ==
    /\ Down(h, p) = at[Len(h.heap)][1]
    /\ at[0] = << h, p >>
    /\ \A n \in 0..(Len(h.heap) - 1) : at[n + 1] = DownOnce(at[n])

LEMMA DownUnfolds ==
    ASSUME NEW h \in HeapRecord, NEW p, NEW S, << h, p >> \in S,
           \A at \in S : DownOnce(at) \in S
    PROVE  \E at \in [0..Len(h.heap) -> S] : DownHistory(at, h, p)
  <1> DEFINE N == Len(h.heap)
             b == << h, p >>
             F == [x \in (0..(N - 1)) \X S |-> DownOnce(x[2])]
             Loop(f) == f = [n \in 0..N |-> IF n = 0 THEN b ELSE DownOnce(f[n - 1])]
             at == CHOOSE f : Loop(f)
  <1>1. N \in Nat /\ b \in S
    BY HeapTypes
  <1>2. Down(h, p) = at[N][1]
    BY DEF Down
  <1> HIDE DEF N, b
  <1>3. \A n \in 0..(N - 1), x \in S : F[<< n, x >>] = DownOnce(x)
    OBVIOUS
  <1> HIDE DEF F
  <1>4. PICK f \in [0..N -> S] : IsHistory(f, b, N, F)
    <2>1. StaysIn(S, N, F)
      BY <1>3 DEF StaysIn
    <2> QED
      BY <1>1, <2>1, LoopHasHistory
  <1>5. Loop(f)
    <2>1. ASSUME NEW n \in 0..N, n # 0
          PROVE  f[n] = DownOnce(f[n - 1])
      <3>1. n - 1 \in 0..(N - 1) /\ (n - 1) + 1 = n /\ n - 1 \in 0..N
        BY <1>1, <2>1
      <3>2. f[n - 1] \in S /\ f[n] = F[<< n - 1, f[n - 1] >>]
        BY <1>4, <3>1 DEF IsHistory
      <3> QED
        BY <1>3, <3>1, <3>2
    <2>2. \A n \in 0..N : f[n] = IF n = 0 THEN b ELSE DownOnce(f[n - 1])
      BY <1>4, <2>1 DEF IsHistory
    <2> QED
      BY <1>4, <2>2
  <1>6. Loop(at)
    <2> HIDE DEF Loop
    <2> QED
      BY <1>5
  <1> HIDE DEF at
  <1>7. at[0] = b
    BY <1>1, <1>6
  <1>8. ASSUME NEW n \in 0..(N - 1)
        PROVE  at[n + 1] = DownOnce(at[n])
    <2>1. n + 1 \in 0..N /\ n + 1 # 0 /\ (n + 1) - 1 = n
      BY <1>1
    <2> QED
      BY <1>6, <2>1
  <1>9. \A n \in 0..N : at[n] \in S
    <2> DEFINE E == { n \in 0..N : at[n] \in S }
    <2>1. 0 \in E
      BY <1>1, <1>7
    <2>2. ASSUME NEW n \in 0..(N - 1), n \in E
          PROVE  n + 1 \in E
      <3>1. n + 1 \in 0..N
        BY <1>1
      <3> QED
        BY <1>8, <2>2, <3>1
    <2>3. 0..N \subseteq E
      <3> HIDE DEF E
      <3> QED
        BY <1>1, <2>1, <2>2, UpToInduction
    <2> QED
      BY <2>3
  <1>10. at \in [0..N -> S]
    <2>1. at = [n \in 0..N |-> at[n]]
      BY <1>6
    <2> QED
      BY <1>9, <2>1
  <1> QED
    BY <1>2, <1>7, <1>8, <1>10 DEF DownHistory, N, b

\* An item that sinks as long as it can leaves everything below in order.
LEMMA DownSinks ==
    ASSUME NEW h \in HeapRecord, Indexed(h), NEW lo \in Nat \ {0},
           NEW p \in lo..Len(h.heap), SortedBut(h, lo, p)
    PROVE  /\ Down(h, p) \in Rearranged(h)
           /\ SortedFrom(Down(h, p), lo)
           /\ Sunk(<< h, p >>) => Down(h, p) = h
  <1> DEFINE N == Len(h.heap)
             S == Sinking(h, lo)
  <1>1. N \in Nat /\ << h, p >> \in S
    BY HeapTypes, RearrangedItself DEF Sinking
  <1>2. \A at \in S : /\ DownOnce(at) \in S
                      /\ IF Sunk(at) THEN DownOnce(at) = at ELSE DownOnce(at)[2] > at[2]
    BY DownStep
  <1>3. \A at \in S : at[2] \in lo..N /\ at[1] \in Rearranged(h) /\ SortedBut(at[1], lo, at[2])
    BY DEF Sinking
  <1> HIDE DEF S
  <1>4. PICK at \in [0..N -> S] : DownHistory(at, h, p)
    BY <1>1, <1>2, DownUnfolds
  <1>5. /\ Down(h, p) = at[N][1] /\ at[0] = << h, p >>
        /\ \A n \in 0..(N - 1) : at[n + 1] = DownOnce(at[n])
    BY <1>4 DEF DownHistory
  <1> HIDE DEF N
  <1> DEFINE E == { n \in 0..N : /\ Sunk(at[n]) \/ at[n][2] > n
                                 /\ Sunk(<< h, p >>) => at[n] = << h, p >> }
  <1>6. 0 \in E
    BY <1>1, <1>5
  <1>7. ASSUME NEW n \in 0..(N - 1), n \in E
        PROVE  n + 1 \in E
    <2>1. n + 1 \in 0..N /\ n \in 0..N /\ at[n] \in S /\ at[n + 1] \in S
      BY <1>1
    <2>2. at[n][2] \in Int /\ at[n + 1][2] \in Int
      BY <1>3, <2>1
    <2>3. IF Sunk(at[n]) THEN at[n + 1] = at[n] ELSE at[n + 1][2] > at[n][2]
      BY <1>2, <1>5, <2>1
    <2>4. CASE Sunk(at[n])
      BY <1>7, <2>1, <2>3, <2>4
    <2>5. CASE ~Sunk(at[n])
      BY <1>7, <2>1, <2>2, <2>3, <2>5
    <2> QED
      BY <2>4, <2>5
  <1>8. N \in E
    <2>1. 0..N \subseteq E
      <3> HIDE DEF E
      <3> QED
        BY <1>1, <1>6, <1>7, UpToInduction
    <2>2. N \in 0..N
      BY <1>1
    <2> HIDE DEF E
    <2> QED
      BY <2>1, <2>2
  <1> DEFINE g == at[N][1]
             c == at[N][2]
  <1>9. at[N] \in S /\ at[N] = << g, c >>
    <2>1. at[N] \in S
      BY <1>1
    <2> QED
      BY <2>1 DEF S, Sinking
  <1>10. g \in Rearranged(h) /\ SortedBut(g, lo, c) /\ c \in lo..N
    BY <1>3, <1>9
  <1>11. Sunk(at[N])
    BY <1>1, <1>8, <1>10
  <1>12. SortedFrom(g, lo)
    BY <1>10, <1>11 DEF SortedBut, SortedFrom, Sunk
  <1>13. Sunk(<< h, p >>) => g = h
    BY <1>8
  <1> QED
    BY <1>5, <1>10, <1>12, <1>13

-----------------------------------------------------------------------------
(* Rising.                                                                 *)

Rising(h) ==
    { at \in Rearranged(h) \X (1..Len(h.heap)) : SortedUnder(at[1], at[2]) }

\* The item has risen far enough.
Risen(at) == at[2] = 1 \/ ~Less(at[1], at[2], at[2] \div 2)

\* One level up: the parent takes the item's place.
LEMMA UpStep ==
    ASSUME NEW h \in HeapRecord, NEW at \in Rising(h)
    PROVE  /\ UpOnce(at) \in Rising(h)
           /\ IF Risen(at) THEN UpOnce(at) = at ELSE UpOnce(at)[2] < at[2]
  <1> DEFINE g == at[1]
             c == at[2]
             N == Len(h.heap)
             parent == c \div 2
  <1>1. /\ g \in HeapRecord /\ Indexed(g) /\ Len(g.heap) = N /\ g \in Rearranged(h)
        /\ at = << g, c >> /\ N \in Nat /\ c \in 1..N
    BY RearrangedAgain, HeapTypes DEF Rising
  <1>2. /\ \A q \in 2..N : q # c => ~Less(g, q, q \div 2)
        /\ \A q \in 2..N : q \div 2 = c /\ parent >= 1 => ~Less(g, q, parent)
    BY <1>1 DEF Rising, SortedUnder
  <1>3. UpOnce(at) =
          IF parent > 0 /\ Less(g, c, parent) THEN << Swap(g, parent, c), parent >> ELSE at
    BY <1>1 DEF UpOnce
  <1>4. parent > 0 <=> c # 1
    BY <1>1
  <1>5. CASE Risen(at)
    BY <1>3, <1>4, <1>5 DEF Risen
  <1>6. CASE ~Risen(at)
    <2>1. Less(g, c, parent) /\ c \in 2..N /\ parent \in 1..N /\ parent < c
      BY <1>1, <1>6 DEF Risen
    <2>2. ~Less(g, parent, c)
      BY <1>1, <2>1, LessOrders
    <2> DEFINE y == Swap(g, parent, c)
               was(r) == Was(parent, c, r)
    <2>3. UpOnce(at) = << y, parent >>
      BY <1>3, <2>1
    <2>4. y \in Rearranged(h)
      <3>1. y \in Rearranged(g)
        BY <1>1, <2>1, SwapSwaps
      <3> QED
        BY <1>1, <3>1, RearrangedAgain
    <2>5. \A m, n \in 1..N : Less(y, m, n) <=> Less(g, was(m), was(n))
      <3>1. ASSUME NEW m \in 1..N, NEW n \in 1..N
            PROVE  Less(y, m, n) <=> Less(g, was(m), was(n))
        <4>1. parent # c
          BY <2>1
        <4> HIDE DEF parent
        <4> QED
          BY <1>1, <2>1, <4>1, SwapLess
      <3> QED
        BY <3>1
    <2>6. Len(y.heap) = N
      BY <2>4 DEF Rearranged
    <2> HIDE DEF y
    <2> USE DEF Was
    <2>7. ASSUME NEW r \in 2..N, r \div 2 = parent, r # c
          PROVE  ~Less(g, r, parent) /\ ~Less(g, r, c) /\ was(r) = r /\ r \in 1..N
      <3>1. r \in 1..N /\ r # parent
        BY <1>1, <2>7
      <3>2. ~Less(g, r, parent)
        BY <1>2, <2>7
      <3> QED
        BY <1>1, <2>1, <2>2, <2>7, <3>1, <3>2, LessOrders
    <2>8. ASSUME NEW r \in 2..N, r # parent
          PROVE  ~Less(y, r, r \div 2)
      <3>1. r \in 1..N /\ r \div 2 \in 1..N /\ r \div 2 < r
        BY <1>1
      <3>2. Less(y, r, r \div 2) <=> Less(g, was(r), was(r \div 2))
        BY <2>5, <3>1
      <3>3. CASE r = c
        <4>1. was(r) = parent /\ was(r \div 2) = c
          BY <2>1, <3>3
        <4> QED
          BY <2>2, <3>2, <4>1
      <3>4. CASE r # c /\ r \div 2 = parent
        <4>1. was(r \div 2) = c
          BY <3>4
        <4> QED
          BY <2>7, <3>2, <3>4, <4>1
      <3>5. CASE r # c /\ r \div 2 = c
        <4>1. was(r) = r /\ was(r \div 2) = parent
          BY <2>1, <2>8, <3>5
        <4>2. ~Less(g, r, parent)
          BY <1>2, <2>1, <3>5
        <4> QED
          BY <3>2, <4>1, <4>2
      <3>6. CASE r # c /\ r \div 2 # c /\ r \div 2 # parent
        <4>1. was(r) = r /\ was(r \div 2) = r \div 2
          BY <2>8, <3>6
        <4> QED
          BY <1>2, <3>2, <3>6, <4>1
      <3> QED
        BY <3>3, <3>4, <3>5, <3>6
    <2>9. ASSUME NEW r \in 2..N, r \div 2 = parent, parent \div 2 >= 1
          PROVE  ~Less(y, r, parent \div 2)
      <3>1. /\ parent \in 2..N /\ parent \div 2 \in 1..N /\ parent \div 2 < parent
            /\ parent \div 2 # c /\ r \in 1..N
        BY <1>1, <2>1, <2>9
      <3>2. ~Less(g, parent, parent \div 2)
        BY <1>2, <2>1, <3>1
      <3>3. Less(y, r, parent \div 2) <=> Less(g, was(r), was(parent \div 2))
        BY <2>5, <3>1
      <3>4. was(parent \div 2) = parent \div 2
        BY <3>1
      <3>5. CASE r = c
        <4>1. was(r) = parent
          BY <2>1, <3>5
        <4> QED
          BY <3>2, <3>3, <3>4, <4>1
      <3>6. CASE r # c
        <4>1. ~Less(g, r, parent) /\ was(r) = r
          BY <2>7, <2>9, <3>6
        <4> QED
          BY <1>1, <2>1, <3>1, <3>2, <3>3, <3>4, <4>1, LessOrders
      <3> QED
        BY <3>5, <3>6
    <2>10. SortedUnder(y, parent)
      BY <2>6, <2>8, <2>9 DEF SortedUnder
    <2> QED
      BY <1>6, <2>1, <2>3, <2>4, <2>10 DEF Rising
  <1> QED
    BY <1>5, <1>6

\* The loop of Up, turn by turn.
UpHistory(at, h, p) ==
    /\ Up(h, p) = at[Len(h.heap)][1]
    /\ at[0] = << h, p >>
    /\ \A n \in 0..(Len(h.heap) - 1) : at[n + 1] = UpOnce(at[n])

LEMMA UpUnfolds ==
    ASSUME NEW h \in HeapRecord, NEW p, NEW S, << h, p >> \in S,
           \A at \in S : UpOnce(at) \in S
    PROVE  \E at \in [0..Len(h.heap) -> S] : UpHistory(at, h, p)
  <1> DEFINE N == Len(h.heap)
             b == << h, p >>
             F == [x \in (0..(N - 1)) \X S |-> UpOnce(x[2])]
             Loop(f) == f = [n \in 0..N |-> IF n = 0 THEN b ELSE UpOnce(f[n - 1])]
             at == CHOOSE f : Loop(f)
  <1>1. N \in Nat /\ b \in S
    BY HeapTypes
  <1>2. Up(h, p) = at[N][1]
    BY DEF Up
  <1> HIDE DEF N, b
  <1>3. \A n \in 0..(N - 1), x \in S : F[<< n, x >>] = UpOnce(x)
    OBVIOUS
  <1> HIDE DEF F
  <1>4. PICK f \in [0..N -> S] : IsHistory(f, b, N, F)
    <2>1. StaysIn(S, N, F)
      BY <1>3 DEF StaysIn
    <2> QED
      BY <1>1, <2>1, LoopHasHistory
  <1>5. Loop(f)
    <2>1. ASSUME NEW n \in 0..N, n # 0
          PROVE  f[n] = UpOnce(f[n - 1])
      <3>1. n - 1 \in 0..(N - 1) /\ (n - 1) + 1 = n /\ n - 1 \in 0..N
        BY <1>1, <2>1
      <3>2. f[n - 1] \in S /\ f[n] = F[<< n - 1, f[n - 1] >>]
        BY <1>4, <3>1 DEF IsHistory
      <3> QED
        BY <1>3, <3>1, <3>2
    <2>2. \A n \in 0..N : f[n] = IF n = 0 THEN b ELSE UpOnce(f[n - 1])
      BY <1>4, <2>1 DEF IsHistory
    <2> QED
      BY <1>4, <2>2
  <1>6. Loop(at)
    <2> HIDE DEF Loop
    <2> QED
      BY <1>5
  <1> HIDE DEF at
  <1>7. at[0] = b
    BY <1>1, <1>6
  <1>8. ASSUME NEW n \in 0..(N - 1)
        PROVE  at[n + 1] = UpOnce(at[n])
    <2>1. n + 1 \in 0..N /\ n + 1 # 0 /\ (n + 1) - 1 = n
      BY <1>1
    <2> QED
      BY <1>6, <2>1
  <1>9. \A n \in 0..N : at[n] \in S
    <2> DEFINE E == { n \in 0..N : at[n] \in S }
    <2>1. 0 \in E
      BY <1>1, <1>7
    <2>2. ASSUME NEW n \in 0..(N - 1), n \in E
          PROVE  n + 1 \in E
      <3>1. n + 1 \in 0..N
        BY <1>1
      <3> QED
        BY <1>8, <2>2, <3>1
    <2>3. 0..N \subseteq E
      <3> HIDE DEF E
      <3> QED
        BY <1>1, <2>1, <2>2, UpToInduction
    <2> QED
      BY <2>3
  <1>10. at \in [0..N -> S]
    <2>1. at = [n \in 0..N |-> at[n]]
      BY <1>6
    <2> QED
      BY <1>9, <2>1
  <1> QED
    BY <1>2, <1>7, <1>8, <1>10 DEF UpHistory, N, b

\* An item that rises as long as it can leaves the whole heap in order.
LEMMA UpRises ==
    ASSUME NEW h \in HeapRecord, Indexed(h),
           NEW p \in 1..Len(h.heap), SortedUnder(h, p)
    PROVE  Up(h, p) \in Rearranged(h) /\ Sorted(Up(h, p))
  <1> DEFINE N == Len(h.heap)
             S == Rising(h)
  <1>1. N \in Nat /\ << h, p >> \in S
    BY HeapTypes, RearrangedItself DEF Rising
  <1>2. \A at \in S : /\ UpOnce(at) \in S
                      /\ IF Risen(at) THEN UpOnce(at) = at ELSE UpOnce(at)[2] < at[2]
    BY UpStep
  <1>3. \A at \in S : at[2] \in 1..N /\ at[1] \in Rearranged(h) /\ SortedUnder(at[1], at[2])
    BY DEF Rising
  <1> HIDE DEF S
  <1>4. PICK at \in [0..N -> S] : UpHistory(at, h, p)
    BY <1>1, <1>2, UpUnfolds
  <1>5. /\ Up(h, p) = at[N][1] /\ at[0] = << h, p >>
        /\ \A n \in 0..(N - 1) : at[n + 1] = UpOnce(at[n])
    BY <1>4 DEF UpHistory
  <1> HIDE DEF N
  <1> DEFINE E == { n \in 0..N : Risen(at[n]) \/ at[n][2] <= N - n }
  <1>6. 0 \in E
    BY <1>1, <1>3, <1>5
  <1>7. ASSUME NEW n \in 0..(N - 1), n \in E
        PROVE  n + 1 \in E
    <2>1. n + 1 \in 0..N /\ n \in 0..N /\ at[n] \in S /\ at[n + 1] \in S
      BY <1>1
    <2>2. at[n][2] \in Int /\ at[n + 1][2] \in Int
      BY <1>3, <2>1
    <2>3. IF Risen(at[n]) THEN at[n + 1] = at[n] ELSE at[n + 1][2] < at[n][2]
      BY <1>2, <1>5, <2>1
    <2>4. CASE Risen(at[n])
      BY <2>1, <2>3, <2>4
    <2>5. CASE ~Risen(at[n])
      BY <1>1, <1>7, <2>1, <2>2, <2>3, <2>5
    <2> QED
      BY <2>4, <2>5
  <1>8. N \in E
    <2>1. 0..N \subseteq E
      <3> HIDE DEF E
      <3> QED
        BY <1>1, <1>6, <1>7, UpToInduction
    <2>2. N \in 0..N
      BY <1>1
    <2> HIDE DEF E
    <2> QED
      BY <2>1, <2>2
  <1> DEFINE g == at[N][1]
             c == at[N][2]
  <1>9. at[N] \in S
    BY <1>1
  <1>10. g \in Rearranged(h) /\ SortedUnder(g, c) /\ c \in 1..N
    BY <1>3, <1>9
  <1>11. c = 1 \/ ~Less(g, c, c \div 2)
    BY <1>1, <1>8, <1>10 DEF Risen
  <1>12. Sorted(g)
    BY <1>10, <1>11 DEF SortedUnder, Sorted, SortedFrom
  <1> QED
    BY <1>5, <1>10, <1>12

-----------------------------------------------------------------------------
(* The operations of container/heap.                                       *)

\* Only the item at position p may be out of order, with its parent or with
\* its children.
SortedAround(h, p) ==
    \A q \in 2..Len(h.heap) :
        /\ q # p /\ q \div 2 # p => ~Less(h, q, q \div 2)
        /\ q \div 2 = p /\ p \div 2 >= 1 => ~Less(h, q, p \div 2)

\* heap.Fix: one item may have changed in either direction; whatever it did,
\* the heap is in order again, with the same items and right indices.
THEOREM FixRestoresOrder ==
    ASSUME NEW h \in HeapRecord, Indexed(h),
           NEW p \in 1..Len(h.heap), SortedAround(h, p)
    PROVE  Fix(h, p) \in Rearranged(h) /\ Sorted(Fix(h, p))
  <1> DEFINE N == Len(h.heap)
  <1>1. N \in Nat /\ p \in Nat \ {0} /\ p \in p..N /\ p \in 1..N
    BY HeapTypes
  <1>2. CASE Sunk(<< h, p >>)
    <2>1. SortedBut(h, p, p)
      BY <1>1 DEF SortedBut, SortedAround
    <2>2. Down(h, p) = h
      BY <1>1, <1>2, <2>1, DownSinks
    <2>3. SortedUnder(h, p)
      BY <1>2 DEF SortedUnder, SortedAround, Sunk
    <2> QED
      BY <2>2, <2>3, UpRises DEF Fix
  <1>3. CASE ~Sunk(<< h, p >>)
    <2>1. PICK q \in 2..N : q \div 2 = p /\ Less(h, q, p)
      BY <1>3 DEF Sunk
    <2>2. p \div 2 >= 1 => ~Less(h, p, p \div 2)
      <3>1. ASSUME p \div 2 >= 1
            PROVE  ~Less(h, p, p \div 2)
        <4>1. p \div 2 \in 1..N /\ q \in 1..N
          BY <1>1, <3>1
        <4>2. ~Less(h, q, p \div 2) /\ ~Less(h, p, q)
          BY <1>1, <2>1, <3>1, <4>1, LessOrders DEF SortedAround
        <4> QED
          BY <1>1, <4>1, <4>2, LessOrders
      <3> QED
        BY <3>1
    <2>3. SortedBut(h, 1, p)
      BY <1>1, <2>2 DEF SortedBut, SortedAround
    <2>4. Down(h, p) \in Rearranged(h) /\ Sorted(Down(h, p))
      <3>1. p \in 1..Len(h.heap) /\ 1 \in Nat \ {0}
        BY <1>1
      <3> QED
        BY <2>3, <3>1, DownSinks DEF Sorted
    <2>5. Down(h, p) = h => SortedUnder(h, p)
      BY <1>1, <2>4 DEF Sorted, SortedFrom, SortedUnder, SortedAround
    <2> QED
      BY <2>4, <2>5, UpRises DEF Fix
  <1> QED
    BY <1>2, <1>3

\* Down only rearranges, in order or not.
LEMMA DownRearranges ==
    ASSUME NEW h \in HeapRecord, Indexed(h), NEW p \in 1..Len(h.heap)
    PROVE  Down(h, p) \in Rearranged(h)
  <1> DEFINE N == Len(h.heap)
             S == Rearranged(h) \X (1..N)
  <1>1. N \in Nat /\ << h, p >> \in S
    BY HeapTypes, RearrangedItself
  <1>2. ASSUME NEW at \in S
        PROVE  DownOnce(at) \in S
    <2> DEFINE g == at[1]
               c == at[2]
               left == 2 * c
               child == IF left < N /\ Less(g, left + 1, left) THEN left + 1 ELSE left
    <2>1. g \in HeapRecord /\ Indexed(g) /\ Len(g.heap) = N /\ g \in Rearranged(h) /\ c \in 1..N
      BY <1>2, RearrangedAgain
    <2>2. DownOnce(at) =
            IF left <= N /\ Less(g, child, c) THEN << Swap(g, child, c), child >> ELSE at
      BY <2>1 DEF DownOnce
    <2>3. left <= N => child \in 1..N /\ child # c
      BY <1>1, <2>1
    <2> HIDE DEF child
    <2>4. left <= N => Swap(g, child, c) \in Rearranged(h)
      <3>1. left <= N => Swap(g, child, c) \in Rearranged(g)
        BY <2>1, <2>3, SwapSwaps
      <3> QED
        BY <2>1, <3>1, RearrangedAgain
    <2> QED
      BY <2>2, <2>3, <2>4
  <1> HIDE DEF S
  <1>3. PICK at \in [0..N -> S] : DownHistory(at, h, p)
    BY <1>1, <1>2, DownUnfolds
  <1>4. Down(h, p) = at[N][1] /\ at[N] \in S
    BY <1>1, <1>3 DEF DownHistory
  <1> QED
    BY <1>4 DEF S

\* heap.Init: whatever the order, afterwards all items are sorted.
THEOREM HeapifySorts ==
    ASSUME NEW h \in HeapRecord, Indexed(h)
    PROVE  Heapify(h) \in Rearranged(h) /\ Sorted(Heapify(h))
  <1> DEFINE N == Len(h.heap)
             half == N \div 2
             S == Rearranged(h)
             F == [x \in (0..(half - 1)) \X S |-> Down(x[2], half - x[1])]
             Loop(f) == f = [n \in 0..half |->
                               IF n = 0 THEN h ELSE Down(f[n - 1], half + 1 - n)]
             after == CHOOSE f : Loop(f)
  <1>1. half \in Nat /\ half <= N /\ h \in S /\ N \in Nat
    <2>1. N \in Nat /\ h \in S
      BY HeapTypes, RearrangedItself
    <2> HIDE DEF N
    <2> QED
      BY <2>1, Halves
  <1>2. Heapify(h) = after[half]
    BY DEF Heapify
  <1>3. ASSUME NEW n \in 0..(half - 1), NEW g \in S
        PROVE  /\ half - n \in 1..Len(g.heap) /\ g \in HeapRecord /\ Indexed(g)
               /\ Len(g.heap) = Len(h.heap)
               /\ Down(g, half - n) \in S
    <2>1. g \in HeapRecord /\ Indexed(g) /\ Len(g.heap) = Len(h.heap)
      BY RearrangedAgain
    <2> HIDE DEF half
    <2>2. half - n \in 1..Len(g.heap)
      BY <1>1, <2>1
    <2>3. Down(g, half - n) \in Rearranged(g)
      BY <2>1, <2>2, DownRearranges
    <2> QED
      BY <2>1, <2>2, <2>3, RearrangedAgain
  <1>4. \A q \in 1..N : q \div 2 <= half
    <2> HIDE DEF N
    <2> QED
      BY <1>1, Halves
  <1> HIDE DEF S, half
  <1>5. \A n \in 0..(half - 1), g \in S : F[<< n, g >>] = Down(g, half - n)
    OBVIOUS
  <1> HIDE DEF F
  <1>6. PICK f \in [0..half -> S] : IsHistory(f, h, half, F)
    <2>1. StaysIn(S, half, F)
      BY <1>3, <1>5 DEF StaysIn
    <2> QED
      BY <1>1, <2>1, LoopHasHistory
  <1>7. Loop(f)
    <2>1. ASSUME NEW n \in 0..half, n # 0
          PROVE  f[n] = Down(f[n - 1], half + 1 - n)
      <3>1. /\ n - 1 \in 0..(half - 1) /\ (n - 1) + 1 = n /\ n - 1 \in 0..half
            /\ half - (n - 1) = half + 1 - n
        BY <1>1, <2>1
      <3>2. f[n - 1] \in S /\ f[n] = F[<< n - 1, f[n - 1] >>]
        BY <1>6, <3>1 DEF IsHistory
      <3> QED
        BY <1>5, <3>1, <3>2
    <2>2. \A n \in 0..half : f[n] = IF n = 0 THEN h ELSE Down(f[n - 1], half + 1 - n)
      BY <1>6, <2>1 DEF IsHistory
    <2> QED
      BY <1>6, <2>2
  <1>8. Loop(after)
    <2> HIDE DEF Loop
    <2> QED
      BY <1>7
  <1> HIDE DEF after
  <1> DEFINE E == { n \in 0..half : /\ after[n] \in S
                                    /\ SortedFrom(after[n], half + 1 - n) }
  <1>9. 0 \in E
    <2>1. after[0] = h
      BY <1>1, <1>8
    <2>2. SortedFrom(h, half + 1 - 0)
      BY <1>1, <1>4 DEF SortedFrom
    <2> QED
      BY <1>1, <2>1, <2>2
  <1>10. ASSUME NEW n \in 0..(half - 1), n \in E
         PROVE  n + 1 \in E
    <2> DEFINE g == after[n]
               p == half - n
    <2>1. g \in S /\ SortedFrom(g, p + 1)
      <3>1. half + 1 - n = p + 1
        BY <1>1
      <3> QED
        BY <1>10, <3>1
    <2>2. /\ n + 1 \in 0..half /\ n + 1 # 0 /\ (n + 1) - 1 = n
          /\ half + 1 - (n + 1) = p /\ p \in Nat \ {0}
      BY <1>1
    <2>3. after[n + 1] = Down(g, p)
      BY <1>8, <2>2
    <2>4. p \in p..Len(g.heap) /\ g \in HeapRecord /\ Indexed(g) /\ Down(g, p) \in S
      BY <1>3, <2>1, <2>2
    <2> HIDE DEF g, p
    <2>5. SortedBut(g, p, p)
      BY <2>1, <2>2, <2>4 DEF SortedBut, SortedFrom
    <2>6. SortedFrom(Down(g, p), p)
      BY <2>2, <2>4, <2>5, DownSinks
    <2> QED
      BY <2>2, <2>3, <2>4, <2>6
  <1>11. half \in E
    <2>1. 0..half \subseteq E
      <3> HIDE DEF E
      <3> QED
        BY <1>1, <1>9, <1>10, UpToInduction
    <2>2. half \in 0..half
      BY <1>1
    <2> HIDE DEF E
    <2> QED
      BY <2>1, <2>2
  <1>12. half + 1 - half = 1
    BY <1>1
  <1> QED
    BY <1>2, <1>11, <1>12 DEF Sorted, S

\* The root of a sorted heap has an item before which no other comes.
THEOREM RootIsLeast ==
    ASSUME NEW h \in HeapRecord, Sorted(h), NEW p \in 1..Len(h.heap)
    PROVE  ~Less(h, p, 1)
  <1> DEFINE N == Len(h.heap)
             E == { n \in 0..N : \A q \in 1..n : ~Less(h, q, 1) }
  <1>1. N \in Nat
    BY HeapTypes
  <1>2. 0 \in E
    BY <1>1
  <1>3. ASSUME NEW n \in 0..(N - 1), n \in E
        PROVE  n + 1 \in E
    <2>1. n + 1 \in 0..N /\ n + 1 \in 1..N /\ 1 \in 1..N
      BY <1>1
    <2>2. ~Less(h, n + 1, 1)
      <3>1. CASE n = 0
        BY <2>1, <3>1, LessOrders
      <3>2. CASE n # 0
        <4> DEFINE q == (n + 1) \div 2
        <4>1. q \in 1..n /\ q \in 1..N /\ n + 1 \in 2..N /\ q >= 1
          BY <1>1, <3>2
        <4>2. ~Less(h, q, 1)
          BY <1>3, <4>1
        <4>3. ~Less(h, n + 1, q)
          BY <4>1 DEF Sorted, SortedFrom
        <4> HIDE DEF q
        <4> QED
          BY <2>1, <4>1, <4>2, <4>3, LessOrders
      <3> QED
        BY <3>1, <3>2
    <2>3. \A q \in 1..(n + 1) : q \in 1..n \/ q = n + 1
      BY <1>1
    <2> QED
      BY <1>3, <2>1, <2>2, <2>3
  <1>4. 0..N \subseteq E
    <2> HIDE DEF E
    <2> QED
      BY <1>1, <1>2, <1>3, UpToInduction
  <1>5. N \in E
    <2>1. N \in 0..N
      BY <1>1
    <2> HIDE DEF E
    <2> QED
      BY <1>4, <2>1
  <1> QED
    BY <1>5

\* Fix only rearranges, in order or not.
LEMMA FixRearranges ==
    ASSUME NEW h \in HeapRecord, Indexed(h), NEW p \in 1..Len(h.heap)
    PROVE  Fix(h, p) \in Rearranged(h)
  <1> DEFINE N == Len(h.heap)
             S == Rearranged(h) \X (1..N)
  <1>1. N \in Nat /\ << h, p >> \in S
    BY HeapTypes, RearrangedItself
  <1>2. ASSUME NEW at \in S
        PROVE  UpOnce(at) \in S
    <2> DEFINE g == at[1]
               c == at[2]
               parent == c \div 2
    <2>1. g \in HeapRecord /\ Indexed(g) /\ Len(g.heap) = N /\ g \in Rearranged(h) /\ c \in 1..N
      BY <1>2, RearrangedAgain
    <2>2. UpOnce(at) =
            IF parent > 0 /\ Less(g, c, parent) THEN << Swap(g, parent, c), parent >> ELSE at
      BY <2>1 DEF UpOnce
    <2>3. parent > 0 => parent \in 1..N /\ parent # c
      BY <1>1, <2>1
    <2> HIDE DEF parent
    <2>4. parent > 0 => Swap(g, parent, c) \in Rearranged(h)
      <3>1. parent > 0 => Swap(g, parent, c) \in Rearranged(g)
        BY <2>1, <2>3, SwapSwaps
      <3> QED
        BY <2>1, <3>1, RearrangedAgain
    <2> QED
      BY <2>2, <2>3, <2>4
  <1> HIDE DEF S
  <1>3. PICK at \in [0..N -> S] : UpHistory(at, h, p)
    BY <1>1, <1>2, UpUnfolds
  <1>4. Up(h, p) = at[N][1] /\ at[N] \in S
    BY <1>1, <1>3 DEF UpHistory
  <1> QED
    BY <1>4, DownRearranges DEF S, Fix

\* When one item of a sorted heap changes, the others are still sorted.
LEMMA OneChanges ==
    ASSUME NEW h \in HeapRecord, Indexed(h), Sorted(h), NEW p \in 1..Len(h.heap),
           NEW g \in HeapRecord, g.heap = h.heap,
           \A i \in Item : i # h.heap[p] => g.load[i] = h.load[i] /\ g.tieBreak[i] = h.tieBreak[i]
    PROVE  SortedAround(g, p)
  <1> DEFINE N == Len(h.heap)
  <1>1. N \in Nat
    BY HeapTypes
  <1>2. ASSUME NEW m \in 1..N, NEW n \in 1..N, m # p, n # p
        PROVE  Less(g, m, n) <=> Less(h, m, n)
    <2>1. h.heap[m] \in Item /\ h.heap[n] \in Item /\ h.heap[m] # h.heap[p] /\ h.heap[n] # h.heap[p]
      BY <1>2, HeapTypes, DistinctItems
    <2> QED
      BY <2>1 DEF Less
  <1>3. \A q \in 2..N : q \in 1..N /\ q \div 2 \in 1..N /\ q \div 2 >= 1 /\ q \div 2 # q
    BY <1>1
  <1>4. \A q \in 2..N : ~Less(h, q, q \div 2)
    BY <1>3 DEF Sorted, SortedFrom
  <1>5. ASSUME NEW q \in 2..N, q # p, q \div 2 # p
        PROVE  ~Less(g, q, q \div 2)
    BY <1>2, <1>3, <1>4, <1>5
  <1>6. ASSUME NEW q \in 2..N, q \div 2 = p, p \div 2 >= 1
        PROVE  ~Less(g, q, p \div 2)
    <2>1. p \in 2..N
      BY <1>1, <1>6
    <2>2. p \div 2 \in 1..N /\ p \div 2 # p /\ q # p
      BY <1>3, <1>6, <2>1
    <2>3. ~Less(h, q, p) /\ ~Less(h, p, p \div 2)
      BY <1>4, <1>6, <2>1
    <2>4. ~Less(h, q, p \div 2)
      BY <1>3, <2>2, <2>3, LessOrders
    <2> QED
      BY <1>2, <1>3, <2>2, <2>4
  <1> QED
    BY <1>5, <1>6 DEF SortedAround

-----------------------------------------------------------------------------
(* The picker.                                                             *)

HoldersOf(i) == { u \in Users : held[u] = i }

\* A connection has one item in the heap.
OneItemEach ==
    \A p, q \in DOMAIN heap : ConnOf(heap[p]) = ConnOf(heap[q]) => p = q

\* The load of every item, evicted or not, counts the requests that hold it.
HoldersCounted == \A i \in Item : load[i] = Cardinality(HoldersOf(i))

\* The item a request holds is in the heap, unless its connection was evicted
\* meanwhile (be it that the connection has come back: it has another item).
EvictedWhileHeld ==
    \A u \in Users :
        IF held[u] = NoItem
        THEN missed[u] = {}
        ELSE held[u] \in InHeap <=> ConnOf(held[u]) \notin missed[u]

\* An item nobody refers to is as good as new.
UnusedAsNew ==
    \A i \in Item : i \notin InHeap /\ HoldersOf(i) = {} => tieBreak[i] = 0

\* The inductive invariant.
HeapInv ==
    /\ HeapTypeOK
    /\ Indexed(Heap)
    /\ OneItemEach
    /\ HoldersCounted
    /\ EvictedWhileHeld
    /\ UnusedAsNew
    /\ sifted => Sorted(Heap)

LEMMA ItemTypes ==
    /\ \A i \in Item : ConnOf(i) \in Conns /\ i # NoItem
    /\ Cardinality(Users) \in Nat
    /\ \A c \in Conns, n \in 0..Cardinality(Users) : << c, n >> \in Item /\ ConnOf(<< c, n >>) = c
  <1>1. Cardinality(Users) \in Nat
    BY LeastLoadedAssumption, FS_CardinalityType
  <1>2. \A i \in Item : i \in Conns \X Nat
    BY <1>1 DEF Item
  <1> QED
    BY <1>1, <1>2, LeastLoadedAssumption DEF Item, ConnOf

LEMMA HoldersFinite ==
    \A i : IsFiniteSet(HoldersOf(i)) /\ Cardinality(HoldersOf(i)) \in Nat
  BY LeastLoadedAssumption, FS_Subset, FS_CardinalityType DEF HoldersOf

\* There are more numbers than requests, so that one is always free.
LEMMA FreshIsFree ==
    ASSUME NEW c \in Conns
    PROVE  Fresh(c) \in Item /\ ConnOf(Fresh(c)) = c /\ \A u \in Users : held[u] # Fresh(c)
  <1> DEFINE N == Cardinality(Users)
             free == { n \in 0..N : \A u \in Users : held[u] # << c, n >> }
             f == [n \in 0..N |-> CHOOSE u \in Users : held[u] = << c, n >>]
  <1>1. N \in Nat
    BY ItemTypes
  <1>2. free # {}
    <2>1. SUFFICES ASSUME free = {}
                   PROVE  FALSE
      OBVIOUS
    <2>2. \A n \in 0..N : \E u \in Users : held[u] = << c, n >>
      BY <2>1
    <2>3. f \in [0..N -> Users] /\ \A n \in 0..N : held[f[n]] = << c, n >>
      BY <2>2
    <2>4. IsFiniteSet(0..N) /\ Cardinality(0..N) = N + 1
      BY <1>1, FS_Interval
    <2> HIDE DEF f
    <2>5. PICK m, n \in 0..N : m # n /\ f[m] = f[n]
      <3> DEFINE D == 0..N
      <3>1. N < Cardinality(D)
        BY <1>1, <2>4
      <3>2. f \in [D -> Users] /\ IsFiniteSet(D) /\ IsFiniteSet(Users)
        BY <2>3, <2>4, LeastLoadedAssumption
      <3> HIDE DEF D
      <3>3. \E m, n \in D : m # n /\ f[m] = f[n]
        BY <3>1, <3>2, FS_PigeonHole
      <3> QED
        BY <3>3 DEF D
    <2> QED
      BY <2>3, <2>5
  <1>3. PICK n \in free : \A m \in free : n <= m
    <2>1. free \in SUBSET Nat
      BY <1>1
    <2> HIDE DEF free
    <2> QED
      BY <1>2, <2>1, LeastNatural
  <1> DEFINE least == CHOOSE k \in free : \A m \in free : k <= m
  <1>4. least \in free
    BY <1>3
  <1>5. Fresh(c) = << c, least >>
    BY DEF Fresh
  <1> HIDE DEF least
  <1> QED
    BY <1>4, <1>5, ItemTypes

\* What every operation leaves behind: the heap h, with the fields of all items
\* that are in it or held.
LEMMA BecomesIt ==
    ASSUME NEW h \in HeapRecord, Indexed(h), Becomes(h),
           held' \in [Users -> Item \cup { NoItem }]
    PROVE  /\ heap' = h.heap /\ InHeap' = ToSet(h.heap)
           /\ Heap' \in HeapRecord /\ Indexed(Heap)'
           /\ Sorted(h) => Sorted(Heap)'
           /\ (\A i \in Item : h.load[i] = Cardinality(HoldersOf(i)')) => HoldersCounted'
           /\ \A i \in Item : tieBreak'[i] = h.tieBreak[i] \/ tieBreak'[i] = 0
           /\ UnusedAsNew'
  <1> DEFINE live == ToSet(h.heap) \cup { held'[u] : u \in Users }
  <1>1. /\ heap' = h.heap
        /\ load' = [i \in Item |-> IF i \in live THEN h.load[i] ELSE 0]
        /\ tieBreak' = [i \in Item |-> IF i \in live THEN h.tieBreak[i] ELSE 0]
        /\ index' = h.index
    BY DEF Becomes
  <1>2. /\ Heap' = [heap |-> heap', load |-> load', tieBreak |-> tieBreak', index |-> index']
        /\ InHeap' = ToSet(heap')
    BY DEF Heap, InHeap
  <1>3. /\ h.heap \in Seq(Item) /\ h.load \in [Item -> Int] /\ h.tieBreak \in [Item -> Int]
        /\ h.index \in [Item -> Nat]
    BY HeapTypes
  <1>4. Heap' \in HeapRecord
    <2>1. load' \in [Item -> Int] /\ tieBreak' \in [Item -> Int]
      BY <1>1, <1>3
    <2> QED
      BY <1>1, <1>2, <1>3, <2>1 DEF HeapRecord
  <1>5. Indexed(Heap)'
    <2>1. Indexed(Heap') <=> Indexed(h)
      BY <1>1, <1>2 DEF Indexed
    <2> QED
      BY <2>1 DEF Indexed
  <1>6. Sorted(h) => Sorted(Heap)'
    <2>1. ASSUME NEW p \in 1..Len(h.heap)
          PROVE  load'[h.heap[p]] = h.load[h.heap[p]] /\ tieBreak'[h.heap[p]] = h.tieBreak[h.heap[p]]
      <3>1. h.heap[p] \in Item /\ h.heap[p] \in ToSet(h.heap)
        BY HeapTypes DEF ToSet
      <3> QED
        BY <1>1, <3>1
    <2>2. \A q \in 2..Len(h.heap) : q \in 1..Len(h.heap) /\ q \div 2 \in 1..Len(h.heap)
      BY HeapTypes
    <2>3. \A q \in 2..Len(h.heap) : Less(Heap', q, q \div 2) <=> Less(h, q, q \div 2)
      BY <1>1, <1>2, <2>1, <2>2 DEF Less
    <2>4. Sorted(h) => Sorted(Heap')
      BY <1>1, <1>2, <2>3 DEF Sorted, SortedFrom
    <2> QED
      BY <2>4 DEF Sorted, SortedFrom, Less
  <1>7. \A i \in Item : i \notin live => HoldersOf(i)' = {}
    BY DEF HoldersOf
  <1>8. (\A i \in Item : h.load[i] = Cardinality(HoldersOf(i)')) => HoldersCounted'
    <2>1. HoldersCounted' <=> \A i \in Item : load'[i] = Cardinality(HoldersOf(i)')
      BY DEF HoldersCounted
    <2> QED
      BY <1>1, <1>7, <2>1, FS_EmptySet
  <1>9. UnusedAsNew'
    <2>1. ASSUME NEW i \in Item, i \notin ToSet(h.heap), HoldersOf(i)' = {}
          PROVE  tieBreak'[i] = 0
      BY <1>1, <2>1 DEF HoldersOf
    <2> QED
      BY <1>1, <1>2, <2>1 DEF UnusedAsNew
  <1> QED
    BY <1>1, <1>2, <1>4, <1>5, <1>6, <1>8, <1>9

\* No two items in the sequence s have the same connection.
OnePerConn(s) == \A p, q \in DOMAIN s : ConnOf(s[p]) = ConnOf(s[q]) => p = q

\* The heap h with new items for the connections that were added.
LEMMA PushAllPushes ==
    ASSUME NEW h \in HeapRecord, OnePerConn(h.heap),
           NEW added \in SUBSET Conns, NEW order \in SetToSeqs(added),
           \A p \in DOMAIN h.heap : ConnOf(h.heap[p]) \notin added
    PROVE  LET g == PushAll(h, order)
           IN  /\ g \in HeapRecord /\ Indexed(g) /\ OnePerConn(g.heap)
               /\ g.load = h.load /\ g.tieBreak = h.tieBreak
               /\ ToSet(h.heap) \subseteq ToSet(g.heap)
               /\ \A i \in ToSet(g.heap) :
                    i \in ToSet(h.heap) \/ (i \in Item /\ HoldersOf(i) = {})
  <1> DEFINE K == Cardinality(added)
             s == h.heap
             N == Len(s)
             t == [n \in DOMAIN order |-> Fresh(order[n])]
             all == s \o t
             g == PushAll(h, order)
  <1>1. IsFiniteSet(added) /\ K \in Nat
    BY LeastLoadedAssumption, FS_Subset, FS_CardinalityType
  <1>2. /\ order \in [1..K -> added]
        /\ \A m, n \in 1..K : m # n => order[m] # order[n]
    BY DEF SetToSeqs
  <1>3. \A n \in 1..K : /\ t[n] \in Item /\ ConnOf(t[n]) = order[n] /\ HoldersOf(t[n]) = {}
    <2>1. ASSUME NEW n \in 1..K
          PROVE  t[n] \in Item /\ ConnOf(t[n]) = order[n] /\ HoldersOf(t[n]) = {}
      <3>1. order[n] \in Conns /\ t[n] = Fresh(order[n])
        BY <1>2
      <3> QED
        BY <3>1, FreshIsFree DEF HoldersOf
    <2> QED
      BY <2>1
  <1>4. DOMAIN t = 1..K
    BY <1>2
  <1>5. s \in Seq(Item) /\ N \in Nat /\ DOMAIN s = 1..N /\ \A p \in 1..N : s[p] \in Item
    BY HeapTypes
  <1> HIDE DEF t, s, K, N
  <1>6. t \in Seq(Item) /\ Len(t) = K
    <2>1. t \in [1..K -> Item]
      <3>1. t = [n \in 1..K |-> t[n]]
        BY <1>4 DEF t
      <3> QED
        BY <1>3, <3>1
    <2> QED
      BY <1>1, <2>1
  <1>7. /\ all \in Seq(Item) /\ Len(all) = N + K /\ DOMAIN all = 1..(N + K)
        /\ \A p \in 1..N : p \in DOMAIN all /\ all[p] = s[p]
        /\ \A p \in 1..K : N + p \in DOMAIN all /\ all[N + p] = t[p]
        /\ \A p \in DOMAIN all : p \in 1..N \/ \E n \in 1..K : p = N + n
    <2>1. /\ all \in Seq(Item) /\ Len(all) = Len(s) + Len(t)
          /\ \A i \in 1..(Len(s) + Len(t)) :
               all[i] = IF i <= Len(s) THEN s[i] ELSE t[i - Len(s)]
      BY <1>5, <1>6, ConcatProperties
    <2>2. Len(all) = N + K /\ DOMAIN all = 1..(N + K)
      BY <2>1, <1>6 DEF N
    <2>3. \A i \in 1..(N + K) : all[i] = IF i <= N THEN s[i] ELSE t[i - N]
      BY <2>1, <1>6 DEF N
    <2>4. \A p \in 1..K : N + p \in 1..(N + K) /\ ~(N + p <= N) /\ (N + p) - N = p
      BY <1>1, <1>5
    <2>5. \A p \in 1..N : p \in 1..(N + K) /\ p <= N
      BY <1>1, <1>5
    <2>6. ASSUME NEW p \in 1..(N + K), p \notin 1..N
          PROVE  \E n \in 1..K : p = N + n
      <3>1. p - N \in 1..K /\ p = N + (p - N)
        BY <1>1, <1>5, <2>6
      <3> QED
        BY <3>1
    <2> HIDE DEF all
    <2> QED
      BY <2>1, <2>2, <2>3, <2>4, <2>5, <2>6
  <1> HIDE DEF all
  <1>8. OnePerConn(all)
    <2>1. \A p, q \in 1..N : ConnOf(s[p]) = ConnOf(s[q]) => p = q
      BY <1>5 DEF OnePerConn, s
    <2>2. \A p \in 1..N, n \in 1..K : ConnOf(s[p]) # ConnOf(t[n])
      BY <1>2, <1>3, <1>5 DEF s
    <2>3. \A m, n \in 1..K : ConnOf(t[m]) = ConnOf(t[n]) => m = n
      BY <1>2, <1>3
    <2>4. ASSUME NEW p \in DOMAIN all, NEW q \in DOMAIN all, ConnOf(all[p]) = ConnOf(all[q])
          PROVE  p = q
      <3>1. CASE p \in 1..N /\ q \in 1..N
        BY <1>7, <2>1, <2>4, <3>1
      <3>2. CASE p \in 1..N /\ q \notin 1..N
        BY <1>7, <2>2, <2>4, <3>2
      <3>3. CASE p \notin 1..N /\ q \in 1..N
        BY <1>7, <2>2, <2>4, <3>3
      <3>4. CASE p \notin 1..N /\ q \notin 1..N
        BY <1>7, <2>3, <2>4, <3>4
      <3> QED
        BY <3>1, <3>2, <3>3, <3>4
    <2> QED
      BY <2>4 DEF OnePerConn
  <1>9. /\ Positions(all) \in [Item -> Nat]
        /\ \A p \in DOMAIN all : Positions(all)[all[p]] = p
        /\ \A i \in Item : i \notin ToSet(all) => Positions(all)[i] = 0
    BY <1>7, <1>8, PositionsIndex DEF OnePerConn
  <1>10. g = [h EXCEPT !.heap = all, !.index = Positions(all)]
    BY DEF PushAll, all, t, s
  <1> HIDE DEF g
  <1>11. /\ g \in HeapRecord /\ g.heap = all /\ g.index = Positions(all)
         /\ g.load = h.load /\ g.tieBreak = h.tieBreak
    BY <1>7, <1>9, <1>10 DEF HeapRecord
  <1>12. Indexed(g)
    BY <1>9, <1>11 DEF Indexed
  <1>13. ToSet(s) \subseteq ToSet(all)
    BY <1>5, <1>7 DEF ToSet
  <1>14. ASSUME NEW i \in ToSet(all), i \notin ToSet(s)
         PROVE  i \in Item /\ HoldersOf(i) = {}
    <2>1. PICK p \in DOMAIN all : i = all[p]
      BY DEF ToSet
    <2>2. p \notin 1..N
      BY <1>5, <1>7, <1>14, <2>1 DEF ToSet
    <2> QED
      BY <1>3, <1>7, <2>1, <2>2, ZenonT(40)
  <1> QED
    BY <1>8, <1>11, <1>12, <1>13, <1>14 DEF g, s

\* One item for each connection is a matter of the items, not of their order.
LEMMA SameItems ==
    ASSUME NEW h \in HeapRecord, Indexed(h), NEW s \in Seq(Item), OnePerConn(s),
           ToSet(h.heap) \subseteq ToSet(s)
    PROVE  OnePerConn(h.heap)
  <1>1. /\ DOMAIN h.heap = 1..Len(h.heap)
        /\ \A p, q \in 1..Len(h.heap) : h.heap[p] = h.heap[q] => p = q
    BY HeapTypes, DistinctItems
  <1>2. \A i, j \in ToSet(s) : ConnOf(i) = ConnOf(j) => i = j
    BY DEF OnePerConn, ToSet
  <1>3. \A p \in DOMAIN h.heap : h.heap[p] \in ToSet(s)
    BY DEF ToSet
  <1> QED
    BY <1>1, <1>2, <1>3 DEF OnePerConn

\* What every action has to show: the heap it leaves behind, and whom the
\* requests hold.
LEMMA HeapInvKept ==
    ASSUME NEW h \in HeapRecord, Indexed(h), Becomes(h), OnePerConn(h.heap),
           held' \in [Users -> Item \cup { NoItem }],
           kind' \in { "roundRobin", "random" }, pickCounter' \in Nat,
           missed' \in [Users -> SUBSET Conns], sifted' \in BOOLEAN,
           \A i \in Item : h.load[i] = Cardinality(HoldersOf(i)'),
           \A u \in Users : IF held'[u] = NoItem
                            THEN missed'[u] = {}
                            ELSE held'[u] \in ToSet(h.heap) <=> ConnOf(held'[u]) \notin missed'[u],
           sifted' => Sorted(h)
    PROVE  HeapInv'
  <1>1. /\ heap' = h.heap /\ InHeap' = ToSet(h.heap) /\ Heap' \in HeapRecord
        /\ Indexed(Heap)' /\ HoldersCounted' /\ UnusedAsNew' /\ (sifted' => Sorted(Heap)')
    BY BecomesIt
  <1>2. HeapTypeOK'
    BY <1>1 DEF HeapTypeOK
  <1>3. OneItemEach'
    BY <1>1 DEF OneItemEach, OnePerConn
  <1>4. EvictedWhileHeld'
    BY <1>1 DEF EvictedWhileHeld
  <1> QED
    BY <1>1, <1>2, <1>3, <1>4 DEF HeapInv

\* The record of a heap with other items, or with other fields of an item.
WithItems(h, s, x) == [h EXCEPT !.heap = s, !.index = x]

Loaded(h, i, t) == [h EXCEPT !.load[i] = @ + 1, !.tieBreak[i] = t]

Unloaded(h, i) == [h EXCEPT !.load[i] = @ - 1]

LEMMA OtherItems ==
    ASSUME NEW h \in HeapRecord, NEW s \in Seq(Item), NEW x \in [Item -> Nat]
    PROVE  LET g == WithItems(h, s, x)
           IN  /\ g \in HeapRecord /\ g.heap = s /\ g.index = x
               /\ g.load = h.load /\ g.tieBreak = h.tieBreak
  BY DEF HeapRecord, WithItems

LEMMA LoadedFields ==
    ASSUME NEW h \in HeapRecord, NEW i \in Item, NEW t \in Int
    PROVE  /\ Loaded(h, i, t) \in HeapRecord
           /\ Loaded(h, i, t).heap = h.heap /\ Loaded(h, i, t).index = h.index
           /\ Loaded(h, i, t).load = [h.load EXCEPT ![i] = h.load[i] + 1]
           /\ Loaded(h, i, t).tieBreak = [h.tieBreak EXCEPT ![i] = t]
  <1> DEFINE x == [h.load EXCEPT ![i] = h.load[i] + 1]
             y == [h.tieBreak EXCEPT ![i] = t]
             g == [h EXCEPT !.load = x, !.tieBreak = y]
  <1>1. h.load \in [Item -> Int] /\ h.load[i] \in Int /\ h.tieBreak \in [Item -> Int]
    BY HeapTypes
  <1>2. x \in [Item -> Int] /\ y \in [Item -> Int]
    BY <1>1
  <1>3. Loaded(h, i, t) = g
    BY DEF Loaded
  <1> HIDE DEF x, y
  <1>4. /\ g \in HeapRecord /\ g.heap = h.heap /\ g.index = h.index
        /\ g.load = x /\ g.tieBreak = y
    BY <1>2 DEF HeapRecord
  <1> QED
    BY <1>3, <1>4 DEF x, y

LEMMA UnloadedFields ==
    ASSUME NEW h \in HeapRecord, NEW i \in Item
    PROVE  /\ Unloaded(h, i) \in HeapRecord
           /\ Unloaded(h, i).heap = h.heap /\ Unloaded(h, i).index = h.index
           /\ Unloaded(h, i).load = [h.load EXCEPT ![i] = h.load[i] - 1]
           /\ Unloaded(h, i).tieBreak = h.tieBreak
  <1> DEFINE x == [h.load EXCEPT ![i] = h.load[i] - 1]
             g == [h EXCEPT !.load = x]
  <1>1. h.load \in [Item -> Int] /\ h.load[i] \in Int
    BY HeapTypes
  <1>2. x \in [Item -> Int]
    BY <1>1
  <1>3. Unloaded(h, i) = g
    BY DEF Unloaded
  <1> HIDE DEF x
  <1>4. /\ g \in HeapRecord /\ g.heap = h.heap /\ g.index = h.index
        /\ g.load = x /\ g.tieBreak = h.tieBreak
    BY <1>2 DEF HeapRecord
  <1> QED
    BY <1>3, <1>4 DEF x

\* What the invariant says of the current heap.
LEMMA HeapFacts ==
    ASSUME HeapInv
    PROVE  /\ Heap \in HeapRecord /\ Indexed(Heap) /\ OnePerConn(heap)
           /\ heap \in Seq(Item) /\ Heap.heap = heap
           /\ Heap.load = load /\ Heap.tieBreak = tieBreak /\ Heap.index = index
           /\ DOMAIN heap = 1..Len(heap) /\ Len(heap) \in Nat
           /\ InHeap \subseteq Item /\ InHeap = ToSet(heap)
  <1>1. Heap \in HeapRecord /\ Indexed(Heap) /\ OnePerConn(heap)
    BY DEF HeapInv, HeapTypeOK, OneItemEach, OnePerConn
  <1>2. /\ Heap.heap = heap /\ Heap.load = load /\ Heap.tieBreak = tieBreak /\ Heap.index = index
    BY DEF Heap
  <1> QED
    BY <1>1, <1>2, HeapTypes DEF InHeap, ToSet

LEMMA InitHeapInv == HeapInit => HeapInv
  <1> SUFFICES ASSUME HeapInit
               PROVE  HeapInv
    OBVIOUS
  <1> USE DEF HeapInit
  <1>1. Heap \in HeapRecord /\ InHeap = {} /\ Heap.heap = << >>
    BY DEF Heap, HeapRecord, InHeap, ToSet
  <1>2. HeapTypeOK
    BY <1>1 DEF HeapTypeOK
  <1>3. Indexed(Heap)
    BY DEF Indexed, Heap, ToSet
  <1>4. HoldersCounted
    <2>1. ASSUME NEW i \in Item
          PROVE  load[i] = Cardinality(HoldersOf(i))
      <3>1. HoldersOf(i) = {}
        BY ItemTypes DEF HoldersOf
      <3> QED
        BY <3>1, FS_EmptySet
    <2> QED
      BY <2>1 DEF HoldersCounted
  <1>5. Sorted(Heap)
    BY <1>1 DEF Sorted, SortedFrom
  <1> QED
    BY <1>1, <1>2, <1>3, <1>4, <1>5
    DEF HeapInv, OneItemEach, EvictedWhileHeld, UnusedAsNew

LEMMA NewHeapInv ==
    ASSUME HeapInv, NEW conns \in SUBSET Conns, NewHeap(conns)
    PROVE  HeapInv'
  <1> PICK order \in SetToSeqs(conns) : Becomes(PushAll(Heap, order))
    BY DEF NewHeap
  <1> DEFINE g == PushAll(Heap, order)
  <1>1. /\ heap = << >> /\ pickCounter' = 0 /\ sifted' = TRUE
        /\ kind' = kind /\ held' = held /\ missed' = missed /\ InHeap = {}
    BY DEF NewHeap, InHeap, ToSet
  <1>2. /\ g \in HeapRecord /\ Indexed(g) /\ OnePerConn(g.heap)
        /\ g.load = load /\ g.tieBreak = tieBreak
        /\ \A i \in ToSet(g.heap) : i \in Item /\ HoldersOf(i) = {}
    BY <1>1, HeapFacts, PushAllPushes DEF ToSet
  <1>3. \A i : HoldersOf(i)' = HoldersOf(i)
    BY <1>1 DEF HoldersOf
  <1> HIDE DEF g
  <1>4. Sorted(g)
    <2>1. \A i \in ToSet(g.heap) : g.load[i] = 0 /\ g.tieBreak[i] = 0
      BY <1>1, <1>2, FS_EmptySet DEF HeapInv, HoldersCounted, UnusedAsNew
    <2>2. \A p \in 1..Len(g.heap) : g.heap[p] \in ToSet(g.heap)
      BY <1>2, HeapTypes DEF ToSet
    <2>3. \A q \in 2..Len(g.heap) : q \in 1..Len(g.heap) /\ q \div 2 \in 1..Len(g.heap)
      BY <1>2, HeapTypes
    <2> QED
      BY <2>1, <2>2, <2>3 DEF Sorted, SortedFrom, Less
  <1>5. \A u \in Users : held[u] # NoItem => held[u] \notin ToSet(g.heap)
    BY <1>2 DEF HoldersOf
  <1>6. \A u \in Users : IF held[u] = NoItem
                         THEN missed[u] = {}
                         ELSE held[u] \in ToSet(g.heap) <=> ConnOf(held[u]) \notin missed[u]
    BY <1>1, <1>5 DEF HeapInv, EvictedWhileHeld
  <1>7. /\ kind' \in { "roundRobin", "random" } /\ pickCounter' \in Nat
        /\ missed' \in [Users -> SUBSET Conns] /\ held' \in [Users -> Item \cup { NoItem }]
    BY <1>1 DEF HeapInv, HeapTypeOK
  <1>8. \A i \in Item : g.load[i] = Cardinality(HoldersOf(i)')
    BY <1>2, <1>3 DEF HeapInv, HoldersCounted
  <1>9. Becomes(g)
    BY DEF g
  <1> QED
    BY <1>1, <1>2, <1>4, <1>6, <1>7, <1>8, <1>9, HeapInvKept

LEMMA UpdateInv ==
    ASSUME HeapInv, NEW conns \in SUBSET Conns, Update(conns)
    PROVE  HeapInv'
  <1> DEFINE T == { i \in InHeap : ConnOf(i) \in conns }
             kept == Kept(conns)
             added == conns \ { ConnOf(i) : i \in ToSet(kept) }
             compact == [Heap EXCEPT !.heap = kept, !.index = Positions(kept)]
             push == kept = heap /\ FewEnough(Cardinality(added), Len(kept) + Cardinality(added))
  <1>1. PICK order \in SetToSeqs(added) :
          Becomes(IF push THEN PushAll(compact, order) ELSE Heapify(PushAll(compact, order)))
    BY DEF Update
  <1> DEFINE g == PushAll(compact, order)
             r == IF push THEN g ELSE Heapify(g)
  <1>2. /\ kind' = kind /\ pickCounter' = pickCounter /\ held' = held
        /\ sifted' = ~push
        /\ missed' = [u \in Users |-> missed[u] \cup
               ({ ConnOf(i) : i \in UsedBy(u) } \ conns)]
        /\ Becomes(r)
    BY <1>1 DEF Update
  <1>3. HeapTypeOK /\ HoldersCounted /\ EvictedWhileHeld /\ (sifted => Sorted(Heap))
    BY DEF HeapInv
  <1>4. /\ kept \in Seq(Item)
        /\ ToSet(kept) = T
        /\ \A p, q \in DOMAIN kept : kept[p] = kept[q] => p = q
    <2>1. AllDistinct(heap)
      BY HeapFacts, DistinctItems DEF AllDistinct
    <2>2. kept = Only(heap, T)
      BY DEF Kept
    <2> HIDE DEF T, kept
    <2>3. /\ kept \in Seq(Item)
          /\ \A x : HasElement(kept, x) <=> x \in T /\ HasElement(heap, x)
          /\ AllDistinct(kept)
      <3>1. heap \in Seq(Item)
        BY HeapFacts
      <3> QED
        BY <2>1, <2>2, <3>1, OnlyKeeps
    <2>4. \A x \in T : HasElement(heap, x)
      BY DEF T, InHeap, ToSet, HasElement
    <2> QED
      BY <2>3, <2>4 DEF ToSet, HasElement, AllDistinct
  <1> HIDE DEF kept, push
  <1>5. /\ compact \in HeapRecord /\ Indexed(compact) /\ compact.heap = kept
        /\ compact.load = load /\ compact.tieBreak = tieBreak
    <2>1. /\ Positions(kept) \in [Item -> Nat]
          /\ \A p \in DOMAIN kept : Positions(kept)[kept[p]] = p
          /\ \A i \in Item : i \notin ToSet(kept) => Positions(kept)[i] = 0
      BY <1>4, PositionsIndex
    <2>2. /\ compact \in HeapRecord /\ compact.heap = kept /\ compact.index = Positions(kept)
          /\ compact.load = load /\ compact.tieBreak = tieBreak
      <3>1. compact = WithItems(Heap, kept, Positions(kept))
        BY DEF WithItems
      <3> HIDE DEF compact
      <3> QED
        BY <1>4, <2>1, <3>1, HeapFacts, OtherItems
    <2> HIDE DEF compact
    <2> QED
      BY <2>1, <2>2 DEF Indexed
  <1> HIDE DEF compact, added
  <1>6. OnePerConn(kept)
    <2>1. ToSet(kept) \subseteq ToSet(heap)
      BY <1>4, HeapFacts
    <2> QED
      BY <1>5, <2>1, HeapFacts, SameItems
  <1>7. /\ g \in HeapRecord /\ Indexed(g) /\ OnePerConn(g.heap)
        /\ g.load = load /\ g.tieBreak = tieBreak
        /\ ToSet(kept) \subseteq ToSet(g.heap)
        /\ \A i \in ToSet(g.heap) : i \in ToSet(kept) \/ (i \in Item /\ HoldersOf(i) = {})
    <2>1. added \in SUBSET Conns
      BY DEF added
    <2>2. \A p \in DOMAIN compact.heap : ConnOf(compact.heap[p]) \notin added
      BY <1>5 DEF added, ToSet
    <2> QED
      BY <1>5, <1>6, <2>1, <2>2, PushAllPushes
  <1> HIDE DEF g
  <1>8. r \in HeapRecord /\ Indexed(r) /\ ToSet(r.heap) = ToSet(g.heap) /\ r.load = load
    BY <1>7, HeapifySorts DEF Rearranged
  <1>9. sifted' => Sorted(r)
    <2>1. sifted' => ~push
      BY <1>2
    <2> QED
      BY <1>7, <2>1, HeapifySorts
  <1> HIDE DEF r
  <1>10. OnePerConn(r.heap)
    <2>1. g.heap \in Seq(Item)
      BY <1>7, HeapTypes
    <2> QED
      BY <1>7, <1>8, <2>1, SameItems
  <1>11. \A i \in Item : r.load[i] = Cardinality(HoldersOf(i)')
    BY <1>2, <1>3, <1>8 DEF HoldersOf, HoldersCounted
  <1>12. missed' \in [Users -> SUBSET Conns]
    BY <1>2, <1>3, ItemTypes DEF HeapTypeOK, UsedBy
  <1>13. ASSUME NEW u \in Users
         PROVE  IF held'[u] = NoItem
                THEN missed'[u] = {}
                ELSE held'[u] \in ToSet(r.heap) <=> ConnOf(held'[u]) \notin missed'[u]
    <2>1. CASE held[u] = NoItem
      <3>1. missed[u] = {} /\ UsedBy(u) = {}
        BY <1>3, <2>1 DEF EvictedWhileHeld, UsedBy
      <3> QED
        BY <1>2, <2>1, <3>1
    <2>2. CASE held[u] # NoItem
      <3>1. UsedBy(u) = { held[u] } /\ u \in HoldersOf(held[u])
        BY <2>2 DEF UsedBy, HoldersOf
      <3>2. missed'[u] = missed[u] \cup ({ ConnOf(held[u]) } \ conns)
        BY <1>2, <3>1
      <3>3. held[u] \in InHeap <=> ConnOf(held[u]) \notin missed[u]
        BY <1>3, <2>2 DEF EvictedWhileHeld
      <3>4. held[u] \in ToSet(r.heap) <=> held[u] \in T
        BY <1>4, <1>7, <1>8, <3>1
      <3> QED
        BY <1>2, <2>2, <3>2, <3>3, <3>4
    <2> QED
      BY <2>1, <2>2
  <1>14. /\ kind' \in { "roundRobin", "random" } /\ pickCounter' \in Nat
         /\ held' \in [Users -> Item \cup { NoItem }] /\ sifted' \in BOOLEAN
    BY <1>2, <1>3 DEF HeapTypeOK
  <1> QED
    BY <1>2, <1>8, <1>9, <1>10, <1>11, <1>12, <1>13, <1>14, HeapInvKept

\* Where an item is.
LEMMA IndexFinds ==
    ASSUME HeapInv, NEW i \in Item
    PROVE  /\ index[i] \in Nat
           /\ index[i] # 0 => index[i] \in 1..Len(heap) /\ heap[index[i]] = i
           /\ i \in InHeap <=> index[i] # 0
  <1>1. index[i] \in Nat
    BY HeapFacts, HeapTypes
  <1>2. \A p \in 1..Len(heap) : index[heap[p]] = p
    BY HeapFacts DEF Indexed
  <1>3. i \notin ToSet(heap) => index[i] = 0
    BY HeapFacts DEF Indexed
  <1>4. i \in ToSet(heap) => \E p \in 1..Len(heap) : heap[p] = i
    BY HeapFacts DEF ToSet
  <1>5. InHeap = ToSet(heap) /\ Len(heap) \in Nat
    BY HeapFacts
  <1> QED
    BY <1>1, <1>2, <1>3, <1>4, <1>5

\* The heap when the fields of one item change.
LEMMA ItemChanges ==
    ASSUME HeapInv, NEW entry \in Item, NEW h \in HeapRecord,
           h.heap = heap, h.index = index,
           \A i \in Item : i # entry => h.load[i] = load[i] /\ h.tieBreak[i] = tieBreak[i]
    PROVE  /\ Indexed(h)
           /\ entry \in InHeap => /\ Fix(h, index[entry]) \in Rearranged(h)
                                  /\ sifted => Sorted(Fix(h, index[entry]))
           /\ entry \notin InHeap /\ sifted => Sorted(h)
  <1>1. Indexed(h)
    BY HeapFacts DEF Indexed
  <1>2. sifted => Sorted(Heap)
    BY DEF HeapInv
  <1>3. ASSUME entry \in InHeap
        PROVE  /\ Fix(h, index[entry]) \in Rearranged(h)
               /\ sifted => Sorted(Fix(h, index[entry]))
    <2> DEFINE p == index[entry]
    <2>1. p \in 1..Len(heap) /\ heap[p] = entry
      BY <1>3, IndexFinds
    <2> HIDE DEF p
    <2>2. Fix(h, p) \in Rearranged(h)
      BY <1>1, <2>1, FixRearranges
    <2>3. ASSUME sifted
          PROVE  Sorted(Fix(h, p))
      <3>1. /\ Heap \in HeapRecord /\ Indexed(Heap) /\ Sorted(Heap)
            /\ p \in 1..Len(Heap.heap) /\ h.heap = Heap.heap
            /\ \A i \in Item : i # Heap.heap[p] =>
                 h.load[i] = Heap.load[i] /\ h.tieBreak[i] = Heap.tieBreak[i]
        BY <1>2, <2>1, <2>3, HeapFacts
      <3>2. SortedAround(h, p)
        BY <3>1, OneChanges
      <3> QED
        BY <1>1, <2>1, <3>2, FixRestoresOrder
    <2> QED
      BY <2>2, <2>3 DEF p
  <1>4. ASSUME entry \notin InHeap, sifted
        PROVE  Sorted(h)
    <2>1. \A p \in 1..Len(heap) : heap[p] \in Item /\ heap[p] # entry
      BY <1>4, HeapFacts DEF ToSet
    <2>2. \A q \in 2..Len(heap) : q \in 1..Len(heap) /\ q \div 2 \in 1..Len(heap)
      BY HeapFacts
    <2>3. \A q \in 2..Len(heap) : Less(h, q, q \div 2) <=> Less(Heap, q, q \div 2)
      BY <2>1, <2>2, HeapFacts DEF Less
    <2> QED
      BY <1>2, <1>4, <2>3, HeapFacts DEF Sorted, SortedFrom
  <1> QED
    BY <1>1, <1>3, <1>4

\* The root is the first item of the heap.
LEMMA RootInHeap ==
    ASSUME HeapInv, heap # << >>
    PROVE  /\ Head(heap) \in Item /\ Head(heap) \in InHeap
           /\ Head(heap) = heap[1] /\ 1 \in 1..Len(heap)
  <1>1. heap \in Seq(Item) /\ Len(heap) \in Nat /\ DOMAIN heap = 1..Len(heap)
    BY HeapFacts
  <1>2. Len(heap) # 0 /\ Head(heap) = heap[1]
    BY <1>1
  <1>3. 1 \in 1..Len(heap)
    BY <1>1, <1>2
  <1> QED
    BY <1>1, <1>2, <1>3 DEF InHeap, ToSet

LEMMA AcquireInv ==
    ASSUME HeapInv, NEW u \in Users, NEW tie \in Int, Acquire(u, tie), pickCounter' \in Nat
    PROVE  HeapInv'
  <1> DEFINE entry == Head(heap)
             h == Loaded(Heap, entry, tie)
             r == Fix(h, index[entry])
  <1>1. /\ heap # << >> /\ held[u] = NoItem /\ held' = [held EXCEPT ![u] = entry]
        /\ kind' = kind /\ missed' = missed /\ sifted' = sifted /\ Becomes(r)
    BY DEF Acquire, Loaded
  <1>2. /\ HeapTypeOK /\ HoldersCounted /\ EvictedWhileHeld
        /\ held \in [Users -> Item \cup { NoItem }]
    BY DEF HeapInv, HeapTypeOK
  <1>3. entry \in Item /\ entry \in InHeap
    BY <1>1, RootInHeap
  <1> HIDE DEF entry, h
  <1>4. /\ h \in HeapRecord /\ h.heap = heap /\ h.index = index
        /\ h.load = [load EXCEPT ![entry] = load[entry] + 1]
        /\ \A i \in Item : i # entry => h.tieBreak[i] = tieBreak[i]
    <2>1. Heap \in HeapRecord /\ Heap.heap = heap /\ Heap.index = index /\ Heap.load = load
      BY HeapFacts
    <2>2. /\ h \in HeapRecord /\ h.heap = Heap.heap /\ h.index = Heap.index
          /\ h.load = [Heap.load EXCEPT ![entry] = Heap.load[entry] + 1]
          /\ h.tieBreak = [Heap.tieBreak EXCEPT ![entry] = tie]
      BY <1>3, <2>1, LoadedFields DEF h
    <2>3. Heap.tieBreak = tieBreak /\ tieBreak \in [Item -> Int]
      BY HeapFacts, HeapTypes
    <2> QED
      BY <2>1, <2>2, <2>3
  <1>5. load \in [Item -> Int]
    BY HeapFacts, HeapTypes
  <1>6. Indexed(h) /\ r \in Rearranged(h) /\ (sifted => Sorted(r))
    BY <1>3, <1>4, <1>5, ItemChanges
  <1> HIDE DEF r
  <1>7. r \in HeapRecord /\ Indexed(r) /\ ToSet(r.heap) = InHeap /\ r.load = h.load
    BY <1>4, <1>6, HeapFacts DEF Rearranged
  <1>8. OnePerConn(r.heap)
    BY <1>7, HeapFacts, SameItems
  <1>9. ASSUME NEW i \in Item
        PROVE  r.load[i] = Cardinality(HoldersOf(i)')
    <2>1. load[i] = Cardinality(HoldersOf(i))
      BY <1>2 DEF HoldersCounted
    <2>2. CASE i = entry
      <3>1. HoldersOf(i)' = HoldersOf(i) \cup { u } /\ u \notin HoldersOf(i)
        BY <1>1, <1>2, <2>2, ItemTypes DEF HoldersOf
      <3>2. IsFiniteSet(HoldersOf(i))
        BY HoldersFinite
      <3>3. Cardinality(HoldersOf(i)') = Cardinality(HoldersOf(i)) + 1
        BY <3>1, <3>2, FS_AddElement
      <3> QED
        BY <1>4, <1>5, <1>7, <2>1, <2>2, <3>3
    <2>3. CASE i # entry
      <3>1. HoldersOf(i)' = HoldersOf(i)
        BY <1>1, <1>2, <2>3, ItemTypes DEF HoldersOf
      <3> QED
        BY <1>4, <1>5, <1>7, <2>1, <2>3, <3>1
    <2> QED
      BY <2>2, <2>3
  <1>10. ASSUME NEW w \in Users
         PROVE  IF held'[w] = NoItem
                THEN missed'[w] = {}
                ELSE held'[w] \in ToSet(r.heap) <=> ConnOf(held'[w]) \notin missed'[w]
    <2>1. missed[u] = {}
      BY <1>1, <1>2 DEF EvictedWhileHeld
    <2>2. held'[w] = IF w = u THEN entry ELSE held[w]
      BY <1>1, <1>2
    <2> QED
      BY <1>1, <1>2, <1>3, <1>7, <2>1, <2>2, ItemTypes DEF EvictedWhileHeld
  <1>11. /\ kind' \in { "roundRobin", "random" }
         /\ missed' \in [Users -> SUBSET Conns] /\ sifted' \in BOOLEAN
         /\ held' \in [Users -> Item \cup { NoItem }]
    BY <1>1, <1>2, <1>3 DEF HeapTypeOK
  <1> QED
    BY <1>1, <1>6, <1>7, <1>8, <1>9, <1>10, <1>11, HeapInvKept

LEMMA ReleaseInv ==
    ASSUME HeapInv, NEW u \in Users, Release(u)
    PROVE  HeapInv'
  <1> DEFINE entry == held[u]
             h == Unloaded(Heap, entry)
             r == IF index[entry] # 0 THEN Fix(h, index[entry]) ELSE h
  <1>1. /\ entry # NoItem /\ held' = [held EXCEPT ![u] = NoItem]
        /\ missed' = [missed EXCEPT ![u] = {}]
        /\ kind' = kind /\ pickCounter' = pickCounter /\ sifted' = sifted /\ Becomes(r)
    BY DEF Release, Unloaded
  <1>2. /\ HeapTypeOK /\ HoldersCounted /\ EvictedWhileHeld
        /\ held \in [Users -> Item \cup { NoItem }]
    BY DEF HeapInv, HeapTypeOK
  <1>3. entry \in Item
    BY <1>1, <1>2
  <1> HIDE DEF h
  <1>4. /\ h \in HeapRecord /\ h.heap = heap /\ h.index = index
        /\ h.load = [load EXCEPT ![entry] = load[entry] - 1] /\ h.tieBreak = tieBreak
    <2>1. /\ Heap \in HeapRecord /\ Heap.heap = heap /\ Heap.index = index
          /\ Heap.load = load /\ Heap.tieBreak = tieBreak
      BY HeapFacts
    <2>2. /\ h \in HeapRecord /\ h.heap = Heap.heap /\ h.index = Heap.index
          /\ h.load = [Heap.load EXCEPT ![entry] = Heap.load[entry] - 1]
          /\ h.tieBreak = Heap.tieBreak
      BY <1>3, <2>1, UnloadedFields DEF h
    <2> QED
      BY <2>1, <2>2
  <1>5. load \in [Item -> Int]
    BY HeapFacts, HeapTypes
  <1>6. /\ Indexed(h)
        /\ entry \in InHeap => /\ Fix(h, index[entry]) \in Rearranged(h)
                               /\ sifted => Sorted(Fix(h, index[entry]))
        /\ entry \notin InHeap /\ sifted => Sorted(h)
    BY <1>3, <1>4, <1>5, ItemChanges
  <1>7. r \in Rearranged(h) /\ (sifted => Sorted(r))
    <2>1. entry \in InHeap <=> index[entry] # 0
      BY <1>3, IndexFinds
    <2>2. h \in Rearranged(h)
      BY <1>4, <1>6, RearrangedItself
    <2> QED
      BY <1>6, <2>1, <2>2
  <1> HIDE DEF r
  <1>8. /\ r \in HeapRecord /\ Indexed(r) /\ ToSet(r.heap) = InHeap /\ r.load = h.load
        /\ OnePerConn(r.heap)
    <2>1. r \in HeapRecord /\ Indexed(r) /\ ToSet(r.heap) = InHeap /\ r.load = h.load
      BY <1>4, <1>7, HeapFacts DEF Rearranged
    <2> QED
      BY <2>1, HeapFacts, SameItems
  <1>9. ASSUME NEW i \in Item
        PROVE  r.load[i] = Cardinality(HoldersOf(i)')
    <2>1. load[i] = Cardinality(HoldersOf(i))
      BY <1>2 DEF HoldersCounted
    <2>2. CASE i = entry
      <3>1. HoldersOf(i)' = HoldersOf(i) \ { u } /\ u \in HoldersOf(i)
        BY <1>1, <1>2, <2>2, ItemTypes DEF HoldersOf
      <3>2. IsFiniteSet(HoldersOf(i))
        BY HoldersFinite
      <3>3. Cardinality(HoldersOf(i)') = Cardinality(HoldersOf(i)) - 1
        BY <3>1, <3>2, FS_RemoveElement
      <3> HIDE DEF entry
      <3> QED
        BY <1>4, <1>5, <1>8, <2>1, <2>2, <3>3
    <2>3. CASE i # entry
      <3>1. HoldersOf(i)' = HoldersOf(i)
        BY <1>1, <1>2, <2>3, ItemTypes DEF HoldersOf
      <3> HIDE DEF entry
      <3> QED
        BY <1>4, <1>5, <1>8, <2>1, <2>3, <3>1
    <2> QED
      BY <2>2, <2>3
  <1>10. ASSUME NEW w \in Users
         PROVE  IF held'[w] = NoItem
                THEN missed'[w] = {}
                ELSE held'[w] \in ToSet(r.heap) <=> ConnOf(held'[w]) \notin missed'[w]
    <2>1. /\ held'[w] = IF w = u THEN NoItem ELSE held[w]
          /\ missed'[w] = IF w = u THEN {} ELSE missed[w]
      BY <1>1, <1>2 DEF HeapTypeOK
    <2> QED
      BY <1>2, <1>8, <2>1 DEF EvictedWhileHeld
  <1>11. /\ kind' \in { "roundRobin", "random" } /\ pickCounter' \in Nat
         /\ missed' \in [Users -> SUBSET Conns] /\ sifted' \in BOOLEAN
         /\ held' \in [Users -> Item \cup { NoItem }]
    BY <1>1, <1>2 DEF HeapTypeOK
  <1> QED
    BY <1>1, <1>7, <1>8, <1>9, <1>10, <1>11, HeapInvKept

LEMMA HeapStutters ==
    ASSUME HeapInv, UNCHANGED leastLoadedVars
    PROVE  HeapInv'
  BY DEF leastLoadedVars, heapVars, HeapInv, HeapTypeOK, Heap, Indexed, OneItemEach,
         HoldersCounted, HoldersOf, EvictedWhileHeld, UnusedAsNew, InHeap, Sorted, SortedFrom, Less

LEMMA HeapInvStep ==
    ASSUME HeapInv, [HeapNext]_leastLoadedVars
    PROVE  HeapInv'
  <1>1. CASE \E conns \in SUBSET Conns : NewHeap(conns) \/ Update(conns)
    BY <1>1, NewHeapInv, UpdateInv
  <1>2. ASSUME NEW u \in Users, PickRoundRobin(u)
        PROVE  HeapInv'
    <2>1. pickCounter + 1 \in Int /\ pickCounter' \in Nat
      BY <1>2 DEF PickRoundRobin, HeapInv, HeapTypeOK
    <2> QED
      BY <1>2, <2>1, AcquireInv DEF PickRoundRobin
  <1>3. ASSUME NEW u \in Users, PickRandom(u)
        PROVE  HeapInv'
    <2>1. PICK tie \in TieBreaks : Acquire(u, tie)
      BY <1>3 DEF PickRandom
    <2>2. tie \in Int /\ pickCounter' \in Nat
      BY <1>3, LeastLoadedAssumption DEF PickRandom, HeapInv, HeapTypeOK
    <2> QED
      BY <2>1, <2>2, AcquireInv
  <1>4. ASSUME NEW u \in Users, Release(u)
        PROVE  HeapInv'
    BY <1>4, ReleaseInv
  <1>5. CASE UNCHANGED leastLoadedVars
    BY <1>5, HeapStutters
  <1> QED
    BY <1>1, <1>2, <1>3, <1>4, <1>5 DEF HeapNext

LEMMA HeapInvariant == HeapSpec => []HeapInv
  BY InitHeapInv, HeapInvStep, PTL DEF HeapSpec

\* The variables have their types.
THEOREM HeapTypeCorrect == HeapSpec => []HeapTypeOK
  <1>1. HeapInv => HeapTypeOK
    BY DEF HeapInv
  <1> QED
    BY <1>1, HeapInvariant, PTL

\* The load of a connection counts its requests in flight, through updates
\* that compact the slice, add to it and sort it again under them, before an
\* outage and after it; only those during which the connection was evicted are
\* lost.
THEOREM LoadsAreCarriedOver == HeapSpec => []LoadsCarriedOver
  <1>1. ASSUME HeapInv
        PROVE  LoadsCarriedOver
    <2>1. ASSUME NEW i \in InHeap
          PROVE  HoldersOf(i) = { u \in Users : /\ held[u] # NoItem
                                                /\ ConnOf(held[u]) = ConnOf(i)
                                                /\ ConnOf(i) \notin missed[u] }
      <3>1. i \in Item /\ i # NoItem
        BY <1>1, HeapFacts, ItemTypes
      <3>2. ASSUME NEW u \in Users, held[u] = i
            PROVE  held[u] # NoItem /\ ConnOf(i) \notin missed[u]
        BY <2>1, <3>1, <3>2, <1>1 DEF HeapInv, EvictedWhileHeld
      <3>3. ASSUME NEW u \in Users, held[u] # NoItem, ConnOf(held[u]) = ConnOf(i),
                   ConnOf(i) \notin missed[u]
            PROVE  held[u] = i
        <4>1. held[u] \in InHeap
          BY <1>1, <3>3 DEF HeapInv, EvictedWhileHeld
        <4> QED
          BY <1>1, <2>1, <3>3, <4>1 DEF HeapInv, OneItemEach, InHeap, ToSet
      <3> QED
        BY <3>2, <3>3 DEF HoldersOf
    <2> QED
      BY <1>1, <2>1, HeapFacts DEF HeapInv, HoldersCounted, LoadsCarriedOver
  <1> QED
    BY <1>1, HeapInvariant, PTL

\* A pick takes a connection with the least load, however many there are and
\* however often the heap was updated, unless a connection was pushed unsifted
\* since the heap was last sorted as a whole.
THEOREM LeastLoadedIsPicked == HeapSpec => LeastLoadedOnceSifted
  <1> DEFINE Chosen(u) ==
        Picked(u) /\ sifted =>
          \A i \in InHeap \ { held'[u] } :
             LET chosen == held'[u]
             IN  \/ load[chosen] < load[i]
                 \/ load[chosen] = load[i] /\ tieBreak[chosen] <= tieBreak[i]
  <1>1. ASSUME HeapInv, [HeapNext]_leastLoadedVars, NEW u \in Users
        PROVE  Chosen(u)
    <2> SUFFICES ASSUME held[u] = NoItem, held'[u] # NoItem, sifted
                 PROVE  \A i \in InHeap : \/ load[held'[u]] < load[i]
                                          \/ /\ load[held'[u]] = load[i]
                                             /\ tieBreak[held'[u]] <= tieBreak[i]
      BY DEF Picked
    <2>1. PICK w \in Users : \E tie : Acquire(w, tie)
      BY <1>1 DEF HeapNext, NewHeap, Update, Release, PickRoundRobin, PickRandom,
                  leastLoadedVars, HeapInv, HeapTypeOK
    <2>2. heap # << >> /\ held' = [held EXCEPT ![w] = Head(heap)]
      BY <2>1 DEF Acquire
    <2>3. held'[u] = Head(heap)
      BY <1>1, <2>2 DEF HeapInv, HeapTypeOK
    <2>4. Head(heap) = heap[1] /\ 1 \in 1..Len(heap)
      BY <1>1, <2>2, RootInHeap
    <2>5. /\ Heap \in HeapRecord /\ Sorted(Heap) /\ Heap.heap = heap
          /\ Heap.load = load /\ Heap.tieBreak = tieBreak
      BY <1>1, HeapFacts DEF HeapInv
    <2>6. \A p \in 1..Len(heap) : ~Less(Heap, p, 1)
      BY <2>5, RootIsLeast
    <2>7. ASSUME NEW p \in 1..Len(heap)
          PROVE  \/ load[heap[1]] < load[heap[p]]
                 \/ load[heap[1]] = load[heap[p]] /\ tieBreak[heap[1]] <= tieBreak[heap[p]]
      <3>1. /\ load[heap[1]] \in Int /\ load[heap[p]] \in Int
            /\ tieBreak[heap[1]] \in Int /\ tieBreak[heap[p]] \in Int
        BY <2>4, <2>5, HeapTypes
      <3> QED
        BY <2>5, <2>6, <3>1 DEF Less
    <2> QED
      BY <1>1, <2>3, <2>4, <2>7, HeapFacts DEF ToSet
  <1>2. ASSUME HeapInv, [HeapNext]_leastLoadedVars
        PROVE  [\A u \in Users : Chosen(u)]_leastLoadedVars
    <2> HIDE DEF Chosen
    <2> QED
      BY <1>1, <1>2
  <1> QED
    BY <1>2, HeapInvariant, PTL DEF HeapSpec, LeastLoadedOnceSifted

=============================================================================
