---------------------------- MODULE ResolverProofs ----------------------------
(***************************************************************************)
(* Proofs about the polling resolver, for all times to live and intervals: *)
(* lookups keep their distance, and requests for a refresh are answered as *)
(* early as that distance allows.                                          *)
(*                                                                         *)
(* And about the addresses on their way to the balancer, for all addresses,*)
(* keys, scores, sizes and numbers of receivers: MinConnections reports    *)
(* enough of them, and a receiver that does not share its hash reports     *)
(* exactly the best.  The argument: a text can be hashed in pieces, so     *)
(* that a rank is a score; the heap holds the best of what was ranked; and *)
(* so many copies of an address take so many places in the list.           *)
(***************************************************************************)
EXTENDS PollingResolver, Addresses, DataLemmas

\* The types the proofs need.  (A bound on timer would need the maximum of a
\* set, which need not exist for any set of times to live.)
TypeInv ==
    /\ pc \in { "starting", "resolving", "reporting", "selecting", "delaying", "done" }
    /\ ttl \in Nat
    /\ sinceResolve \in 0..MinRefreshInterval
    /\ timer \in Nat
    /\ refreshTimer \in 0..MinRefreshInterval

\* While the task sleeps, neither of its timers can fire before the interval
\* is over; the refresh timer fires exactly then.  Only then does the task
\* start a lookup.
SpacingInv ==
    /\ pc = "starting" => sinceResolve >= MinRefreshInterval
    /\ pc \in { "selecting", "delaying" } => timer + sinceResolve >= MinRefreshInterval
    /\ pc = "delaying" => refreshTimer + sinceResolve = MinRefreshInterval

\* A request that was made since the last lookup began is still in the
\* channel, unless the task took it and is on its way to the next lookup.
RequestInv ==
    asked /\ pc \in { "resolving", "reporting", "selecting" } => refreshCh

IInv == TypeInv /\ SpacingInv /\ RequestInv

LEMMA InitIInv == Init => IInv
  BY ResolverAssumption DEF Init, IInv, TypeInv, SpacingInv, RequestInv

\* The timer is set to no less than the interval.
LEMMA NextLookupLongEnough ==
    ASSUME TypeInv
    PROVE  NextLookup \in Nat /\ NextLookup >= MinRefreshInterval
  BY ResolverAssumption DEF TypeInv, NextLookup

\* Time moves both timers towards zero no faster than the interval passes.
LEMMA TickIInv == IInv /\ Tick => IInv'
  <1> SUFFICES ASSUME IInv, Tick PROVE IInv'
    OBVIOUS
  <1> USE ResolverAssumption DEF Tick, Elapse, otherVars
  <1>1. TypeInv'
    BY DEF IInv, TypeInv
  <1>2. SpacingInv'
    BY DEF IInv, TypeInv, SpacingInv
  <1>3. RequestInv'
    BY DEF IInv, RequestInv
  <1> QED
    BY <1>1, <1>2, <1>3 DEF IInv

LEMMA StepIInv == IInv /\ [Next]_vars => IInv'
  <1> SUFFICES ASSUME IInv, [Next]_vars PROVE IInv'
    OBVIOUS
  <1> USE ResolverAssumption DEF IInv, TypeInv, SpacingInv, RequestInv, timeVars, otherVars
  <1>1. CASE Tick
    BY <1>1, TickIInv
  <1>2. CASE RequestRefresh
    BY <1>2 DEF RequestRefresh
  <1>3. CASE StartResolve
    BY <1>3 DEF StartResolve
  <1>4. CASE \E newTTL \in TTLs : FinishResolve(newTTL)
    BY <1>4 DEF FinishResolve
  <1>5. CASE Report
    BY <1>5, NextLookupLongEnough DEF Report
  <1>6. CASE SelectTimer
    BY <1>6 DEF SelectTimer
  <1>7. CASE SelectRefresh
    BY <1>7 DEF SelectRefresh
  <1>8. CASE EndDelay
    BY <1>8 DEF EndDelay
  <1>9. CASE SelectDone
    BY <1>9 DEF SelectDone
  <1>10. CASE Cancel \/ CallClose \/ AwaitDone
    BY <1>10 DEF Cancel, CallClose, AwaitDone
  <1>11. CASE UNCHANGED vars
    BY <1>11 DEF vars
  <1> QED
    BY <1>1, <1>2, <1>3, <1>4, <1>5, <1>6, <1>7, <1>8, <1>9, <1>10, <1>11
       DEF Next, Run

LEMMA IInvAlways == Spec => []IInv
  BY InitIInv, StepIInv, PTL DEF Spec

-----------------------------------------------------------------------------

\* Lookups begin at least a minimum interval apart, for all times to live,
\* intervals, requests and delays of run.
THEOREM LookupsSpacedOut == Spec => ResolvesSpacedOut
  <1>1. IInv /\ [Next]_vars =>
          [pc = "starting" /\ pc' = "resolving" =>
             sinceResolve >= MinRefreshInterval]_vars
    BY DEF IInv, SpacingInv
  <1> QED
    BY <1>1, IInvAlways, PTL DEF Spec, ResolvesSpacedOut

\* run never sleeps over a request for new addresses for longer than the
\* minimum interval demands.
THEOREM RequestsAnsweredInTime == Spec => []RequestsNotSleptOver
  <1>1. IInv => RequestsNotSleptOver
    BY ResolverAssumption
       DEF IInv, TypeInv, SpacingInv, RequestInv, RequestsNotSleptOver, Asleep
  <1> QED
    BY <1>1, IInvAlways, PTL

-----------------------------------------------------------------------------
(* MinConnections.                                                         *)

\* Too few addresses are multiplied until there are at least the minimum of
\* them, but not to twice the minimum.
THEOREM MultiplierJustEnough ==
    ASSUME NEW n \in 1..(MinConns - 1)
    PROVE  n * Multiplier(n) >= MinConns /\ n * Multiplier(n) < 2 * MinConns
  <1> DEFINE q == MinConns \div n
  <1>1. MinConns \in Nat /\ n \in Nat /\ n > 0 /\ n < MinConns
    BY AddressesAssumption
  <1>2. q \in Int
    BY <1>1
  <1>3. MinConns - n * q \in 0..(n - 1)
    BY <1>1
  <1> HIDE DEF q
  <1>4. n * q \in Int /\ n * (q + 1) = n * q + n
    BY <1>1, <1>2
  <1>5. Multiplier(n) = IF n * q < MinConns THEN q + 1 ELSE q
    BY DEF Multiplier, q
  <1> QED
    BY <1>1, <1>3, <1>4, <1>5

-----------------------------------------------------------------------------
(* The hash.                                                               *)

Bytes == Seq(Nat)

\* The words and the bytes left over are those of the text d.
Spells(words, rest, d) ==
    /\ words \in Seq(Bytes) /\ rest \in Bytes
    /\ Len(rest) < 4 /\ 4 * Len(words) + Len(rest) = Len(d)
    /\ \A n \in 1..Len(words) :
         Len(words[n]) = 4 /\ \A i \in 1..4 : words[n][i] = d[4 * n - 4 + i]
    /\ \A i \in 1..Len(rest) : rest[i] = d[4 * Len(words) + i]

LEMMA Slice ==
    ASSUME NEW d \in Bytes, NEW m \in Nat, NEW n \in Nat, m <= n + 1, m > 0, n <= Len(d)
    PROVE  /\ SubSeq(d, m, n) \in Bytes /\ Len(SubSeq(d, m, n)) = n + 1 - m
           /\ \A i \in 1..(n + 1 - m) : SubSeq(d, m, n)[i] = d[m + i - 1]
  <1>1. \A i \in m..n : d[i] \in Nat
    BY DEF Bytes
  <1>2. m \in Int /\ n \in Int
    OBVIOUS
  <1>3. SubSeq(d, m, n) \in Seq(Nat)
    BY <1>1, <1>2, SubSeqProperties
  <1>4. Len(SubSeq(d, m, n)) = IF m <= n THEN n - m + 1 ELSE 0
    BY <1>1, <1>2, SubSeqProperties
  <1>5. \A i \in 1..(n - m + 1) : SubSeq(d, m, n)[i] = d[m + i - 1]
    BY <1>1, <1>2, SubSeqProperties
  <1>6. (IF m <= n THEN n - m + 1 ELSE 0) = n + 1 - m /\ n - m + 1 = n + 1 - m
    OBVIOUS
  <1> QED
    BY <1>3, <1>4, <1>5, <1>6 DEF Bytes

LEMMA Fourths ==
    ASSUME NEW n \in Nat
    PROVE  n \div 4 \in Nat /\ 4 * (n \div 4) <= n /\ n < 4 * (n \div 4) + 4
  OBVIOUS

\* HashOf cuts a text into words ...
LEMMA HashSpells ==
    ASSUME NEW d \in Bytes
    PROVE  Spells(WordsOf(d), RestOf(d), d)
  <1> DEFINE N == Len(d)
             q == N \div 4
             w == WordsOf(d)
             r == RestOf(d)
  <1>1. N \in Nat /\ q \in Nat /\ 4 * q <= N /\ N < 4 * q + 4
    <2>1. N \in Nat
      BY DEF Bytes
    <2> HIDE DEF N
    <2> QED
      BY <2>1, Fourths
  <1>2. w = [n \in 1..q |-> SubSeq(d, 4 * n - 3, 4 * n)] /\ r = SubSeq(d, 4 * q + 1, N)
    BY DEF WordsOf, RestOf
  <1> HIDE DEF N, q, w, r
  <1>3. ASSUME NEW n \in 1..q
        PROVE  /\ w[n] \in Bytes /\ Len(w[n]) = 4
               /\ \A i \in 1..4 : w[n][i] = d[4 * n - 4 + i]
    <2> DEFINE a == 4 * n - 3
               b == 4 * n
    <2>1. /\ a \in Nat /\ b \in Nat /\ a <= b + 1 /\ a > 0 /\ b <= N
          /\ b + 1 - a = 4 /\ \A i \in 1..4 : a + i - 1 = 4 * n - 4 + i
      BY <1>1
    <2>2. w[n] = SubSeq(d, a, b)
      BY <1>2
    <2> HIDE DEF a, b
    <2>3. /\ SubSeq(d, a, b) \in Bytes /\ Len(SubSeq(d, a, b)) = b + 1 - a
          /\ \A i \in 1..(b + 1 - a) : SubSeq(d, a, b)[i] = d[a + i - 1]
      BY <2>1, Slice DEF N
    <2> QED
      BY <2>1, <2>2, <2>3
  <1>4. w \in Seq(Bytes) /\ Len(w) = q
    <2>1. w \in [1..q -> Bytes]
      BY <1>2, <1>3
    <2> QED
      BY <1>1, <2>1
  <1>5. /\ r \in Bytes /\ Len(r) = N - 4 * q
        /\ \A i \in 1..(N - 4 * q) : r[i] = d[4 * q + i]
    <2> DEFINE k == 4 * q
               a == k + 1
    <2>1. k \in Nat /\ k <= N
      BY <1>1
    <2> HIDE DEF k
    <2>2. a \in Nat /\ a <= N + 1 /\ a > 0 /\ N + 1 - a = N - k
      BY <1>1, <2>1
    <2>3. \A i \in 1..(N - k) : a + i - 1 = k + i
      BY <1>1, <2>1
    <2>4. r = SubSeq(d, a, N)
      BY <1>2 DEF k
    <2> HIDE DEF a
    <2>5. /\ SubSeq(d, a, N) \in Bytes /\ Len(SubSeq(d, a, N)) = N + 1 - a
          /\ \A i \in 1..(N + 1 - a) : SubSeq(d, a, N)[i] = d[a + i - 1]
      BY <1>1, <2>2, Slice DEF N
    <2>6. /\ r \in Bytes /\ Len(r) = N - k
          /\ \A i \in 1..(N - k) : r[i] = d[k + i]
      BY <2>2, <2>3, <2>4, <2>5
    <2> QED
      BY <2>6 DEF k
  <1>6. Len(r) < 4 /\ 4 * Len(w) + Len(r) = N
    BY <1>1, <1>4, <1>5
  <1> QED
    <2>1. /\ \A n \in 1..Len(w) : Len(w[n]) = 4 /\ \A i \in 1..4 : w[n][i] = d[4 * n - 4 + i]
          /\ \A i \in 1..Len(r) : r[i] = d[4 * Len(w) + i]
      BY <1>3, <1>4, <1>5
    <2>2. Spells(w, r, d)
      BY <1>4, <1>5, <1>6, <2>1 DEF Spells, N
    <2> QED
      BY <2>2 DEF w, r

LEMMA SpellsTypes ==
    ASSUME NEW d \in Bytes, NEW w, NEW r, Spells(w, r, d)
    PROVE  /\ w \in Seq(Bytes) /\ r \in Bytes /\ Len(d) \in Nat /\ Len(w) \in Nat
           /\ Len(r) \in 0..3 /\ Len(d) = 4 * Len(w) + Len(r)
           /\ \A n \in 1..Len(w) : w[n] \in Bytes /\ Len(w[n]) = 4
  <1>1. w \in Seq(Bytes) /\ r \in Bytes
    BY DEF Spells
  <1>2. Len(w) \in Nat /\ \A n \in 1..Len(w) : w[n] \in Bytes
    BY <1>1
  <1>3. Len(d) \in Nat /\ Len(r) \in Nat
    BY <1>1 DEF Bytes
  <1>4. Len(r) < 4 /\ 4 * Len(w) + Len(r) = Len(d)
    BY DEF Spells
  <1>5. Len(r) \in 0..3
    <2> DEFINE m == Len(r)
    <2>1. m \in Nat /\ m < 4
      BY <1>3, <1>4
    <2> HIDE DEF m
    <2>2. m \in 0..3
      BY <2>1
    <2> QED
      BY <2>2 DEF m
  <1>6. \A n \in 1..Len(w) : Len(w[n]) = 4
    BY DEF Spells
  <1> QED
    BY <1>1, <1>2, <1>3, <1>4, <1>5, <1>6

\* ... and there is one way to do so.
LEMMA SpelledOnce ==
    ASSUME NEW d \in Bytes, NEW w, NEW r, NEW x, NEW y, Spells(w, r, d), Spells(x, y, d)
    PROVE  w = x /\ r = y
  <1>1. /\ w \in Seq(Bytes) /\ r \in Bytes /\ x \in Seq(Bytes) /\ y \in Bytes
        /\ Len(w) \in Nat /\ Len(x) \in Nat /\ Len(r) \in 0..3 /\ Len(y) \in 0..3
        /\ 4 * Len(w) + Len(r) = 4 * Len(x) + Len(y)
    <2>1. /\ w \in Seq(Bytes) /\ r \in Bytes /\ Len(w) \in Nat /\ Len(r) \in 0..3
          /\ Len(d) = 4 * Len(w) + Len(r)
      BY SpellsTypes
    <2>2. /\ x \in Seq(Bytes) /\ y \in Bytes /\ Len(x) \in Nat /\ Len(y) \in 0..3
          /\ Len(d) = 4 * Len(x) + Len(y)
      BY SpellsTypes
    <2>3. 4 * Len(w) + Len(r) = 4 * Len(x) + Len(y)
      BY <2>1, <2>2
    <2> QED
      BY <2>1, <2>2, <2>3
  <1>2. Len(w) = Len(x) /\ Len(r) = Len(y)
    <2> DEFINE a == Len(w)
               b == Len(x)
               m == Len(r)
               n == Len(y)
    <2>1. a \in Nat /\ b \in Nat /\ m \in 0..3 /\ n \in 0..3 /\ 4 * a + m = 4 * b + n
      BY <1>1
    <2> HIDE DEF a, b, m, n
    <2>2. a = b /\ m = n
      BY <2>1
    <2> QED
      BY <2>2 DEF a, b, m, n
  <1>3. r = y
    <2>1. \A i \in 1..Len(r) : r[i] = y[i]
      BY <1>2 DEF Spells
    <2> QED
      BY <1>1, <1>2, <2>1, SeqEqual DEF Bytes
  <1>4. ASSUME NEW n \in 1..Len(w)
        PROVE  w[n] = x[n]
    <2>1. w[n] \in Bytes /\ x[n] \in Bytes /\ Len(w[n]) = 4 /\ Len(x[n]) = 4
      BY <1>2, SpellsTypes
    <2>2. /\ \A i \in 1..4 : w[n][i] = d[4 * n - 4 + i]
          /\ \A i \in 1..4 : x[n][i] = d[4 * n - 4 + i]
      BY <1>2 DEF Spells
    <2>3. \A i \in 1..Len(w[n]) : w[n][i] = x[n][i]
      BY <2>1, <2>2
    <2> QED
      BY <2>1, <2>3, SeqEqual DEF Bytes
  <1>5. w = x
    BY <1>1, <1>2, <1>4, SeqEqual
  <1> QED
    BY <1>3, <1>5

\* The place of a byte: in a word or left over.
LEMMA PlaceOfByte ==
    ASSUME NEW q \in Nat, NEW m \in 0..3, NEW i \in 1..(4 * q + m)
    PROVE  \/ \E k \in 1..m : i = 4 * q + k
           \/ \E n \in 1..q, j \in 1..4 : i = 4 * n - 4 + j
  <1>1. CASE i > 4 * q
    <2>1. i - 4 * q \in 1..m /\ i = 4 * q + (i - 4 * q)
      BY <1>1
    <2> QED
      BY <2>1
  <1>2. CASE i <= 4 * q
    <2> DEFINE h == i - 1
               k == h \div 4
               n == k + 1
               j == i - 4 * k
    <2>1. h \in Nat /\ i = h + 1
      OBVIOUS
    <2> HIDE DEF h
    <2>2. k \in Nat /\ 4 * k <= h /\ h < 4 * k + 4
      BY <2>1, Fourths
    <2> HIDE DEF k
    <2>3. n \in 1..q /\ j \in 1..4 /\ 4 * n - 4 + j = i
      BY <1>2, <2>1, <2>2
    <2> HIDE DEF n, j
    <2> QED
      BY <2>3
  <1> QED
    BY <1>1, <1>2

\* Different texts have different words or left-over bytes.
LEMMA SpellsOne ==
    ASSUME NEW d \in Bytes, NEW e \in Bytes, NEW w, NEW r, Spells(w, r, d), Spells(w, r, e)
    PROVE  d = e
  <1> DEFINE q == Len(w)
             m == Len(r)
  <1>1. q \in Nat /\ m \in 0..3 /\ Len(d) = 4 * q + m /\ Len(e) = 4 * q + m
    BY SpellsTypes
  <1>2. /\ \A n \in 1..q : \A j \in 1..4 : w[n][j] = d[4 * n - 4 + j]
        /\ \A n \in 1..q : \A j \in 1..4 : w[n][j] = e[4 * n - 4 + j]
        /\ \A k \in 1..m : r[k] = d[4 * q + k]
        /\ \A k \in 1..m : r[k] = e[4 * q + k]
    BY DEF Spells
  <1> HIDE DEF q, m
  <1>3. ASSUME NEW i \in 1..(4 * q + m)
        PROVE  d[i] = e[i]
    <2>1. CASE \E k \in 1..m : i = 4 * q + k
      BY <1>2, <2>1
    <2>2. CASE \E n \in 1..q, j \in 1..4 : i = 4 * n - 4 + j
      <3>1. PICK n \in 1..q, j \in 1..4 : i = 4 * n - 4 + j
        BY <2>2
      <3>2. w[n][j] = d[i] /\ w[n][j] = e[i]
        BY <1>2, <3>1
      <3> QED
        BY <3>2
    <2> QED
      BY <1>1, <2>1, <2>2, PlaceOfByte
  <1> QED
    BY <1>1, <1>3, SeqEqual DEF Bytes

\* The hash of a text that is written in two pieces.
LEMMA TextGoesOn ==
    ASSUME NEW d \in Bytes, NEW e \in Bytes
    PROVE  /\ d \o e \in Bytes /\ Len(d \o e) = Len(d) + Len(e)
           /\ Len(d) \in Nat /\ Len(e) \in Nat
           /\ \A i \in 1..Len(d) : (d \o e)[i] = d[i]
           /\ \A i \in 1..Len(e) : (d \o e)[Len(d) + i] = e[i]
  <1>1. /\ d \o e \in Seq(Nat) /\ Len(d \o e) = Len(d) + Len(e)
        /\ \A i \in 1..(Len(d) + Len(e)) :
             (d \o e)[i] = IF i <= Len(d) THEN d[i] ELSE e[i - Len(d)]
    BY ConcatProperties DEF Bytes
  <1>2. Len(d) \in Nat /\ Len(e) \in Nat
    BY DEF Bytes
  <1>3. \A i \in 1..Len(d) : i \in 1..(Len(d) + Len(e)) /\ i <= Len(d)
    BY <1>2
  <1>4. \A i \in 1..Len(e) : /\ Len(d) + i \in 1..(Len(d) + Len(e))
                             /\ ~(Len(d) + i <= Len(d)) /\ (Len(d) + i) - Len(d) = i
    BY <1>2
  <1> HIDE DEF Bytes
  <1> QED
    BY <1>1, <1>2, <1>3, <1>4 DEF Bytes

\* The words of w and those of v, one after the other.
LEMMA WordsGoOn ==
    ASSUME NEW w \in Seq(Bytes), NEW v \in Seq(Bytes)
    PROVE  /\ w \o v \in Seq(Bytes) /\ Len(w \o v) = Len(w) + Len(v)
           /\ Len(w) \in Nat /\ Len(v) \in Nat
           /\ \A n \in 1..(Len(w) + Len(v)) :
                \/ n \in 1..Len(w) /\ (w \o v)[n] = w[n]
                \/ \E k \in 1..Len(v) : n = Len(w) + k /\ (w \o v)[n] = v[k]
  <1>1. /\ w \o v \in Seq(Bytes) /\ Len(w \o v) = Len(w) + Len(v)
        /\ \A i \in 1..(Len(w) + Len(v)) :
             (w \o v)[i] = IF i <= Len(w) THEN w[i] ELSE v[i - Len(w)]
    BY ConcatProperties
  <1>2. Len(w) \in Nat /\ Len(v) \in Nat
    OBVIOUS
  <1>3. ASSUME NEW n \in 1..(Len(w) + Len(v))
        PROVE  \/ n \in 1..Len(w)
               \/ /\ n - Len(w) \in 1..Len(v) /\ n = Len(w) + (n - Len(w)) /\ ~(n <= Len(w))
    BY <1>2
  <1>4. \A n \in 1..Len(w) : n <= Len(w)
    BY <1>2
  <1> QED
    BY <1>1, <1>2, <1>3, <1>4

\* Words follow on whole words.
LEMMA SpellsOn ==
    ASSUME NEW d \in Bytes, NEW e \in Bytes, NEW w, NEW v, NEW r,
           Spells(w, << >>, d), Spells(v, r, e)
    PROVE  Spells(w \o v, r, d \o e)
  <1> DEFINE t == d \o e
             u == w \o v
             a == Len(w)
             b == Len(v)
  <1>1. /\ w \in Seq(Bytes) /\ a \in Nat /\ Len(d) = 4 * a
    BY SpellsTypes, EmptySeq
  <1>2. /\ v \in Seq(Bytes) /\ b \in Nat /\ r \in Bytes /\ Len(r) \in 0..3
        /\ Len(e) = 4 * b + Len(r)
    BY SpellsTypes
  <1>3. /\ t \in Bytes /\ Len(t) = Len(d) + Len(e)
        /\ \A i \in 1..Len(d) : t[i] = d[i]
        /\ \A i \in 1..Len(e) : t[Len(d) + i] = e[i]
    BY TextGoesOn
  <1>4. /\ u \in Seq(Bytes) /\ Len(u) = a + b
        /\ \A n \in 1..(a + b) : \/ n \in 1..a /\ u[n] = w[n]
                                 \/ \E k \in 1..b : n = a + k /\ u[n] = v[k]
    BY <1>1, <1>2, WordsGoOn
  <1>5. /\ \A n \in 1..a : Len(w[n]) = 4 /\ \A i \in 1..4 : w[n][i] = d[4 * n - 4 + i]
        /\ \A n \in 1..b : Len(v[n]) = 4 /\ \A i \in 1..4 : v[n][i] = e[4 * n - 4 + i]
        /\ \A i \in 1..Len(r) : r[i] = e[4 * b + i]
    BY DEF Spells
  <1> HIDE DEF t, u, a, b
  <1>6. ASSUME NEW n \in 1..(a + b)
        PROVE  Len(u[n]) = 4 /\ \A i \in 1..4 : u[n][i] = t[4 * n - 4 + i]
    <2>1. CASE n \in 1..a /\ u[n] = w[n]
      <3>1. \A i \in 1..4 : 4 * n - 4 + i \in 1..Len(d)
        BY <1>1, <2>1
      <3>2. ASSUME NEW i \in 1..4
            PROVE  u[n][i] = t[4 * n - 4 + i]
        <4>1. w[n][i] = d[4 * n - 4 + i]
          BY <1>5, <2>1
        <4>2. t[4 * n - 4 + i] = d[4 * n - 4 + i]
          BY <1>3, <3>1
        <4> QED
          BY <2>1, <4>1, <4>2
      <3> QED
        BY <1>5, <2>1, <3>2
    <2>2. ASSUME NEW k \in 1..b, n = a + k, u[n] = v[k]
          PROVE  Len(u[n]) = 4 /\ \A i \in 1..4 : u[n][i] = t[4 * n - 4 + i]
      <3>1. \A i \in 1..4 : /\ 4 * k - 4 + i \in 1..Len(e)
                            /\ 4 * n - 4 + i = Len(d) + (4 * k - 4 + i)
        BY <1>1, <1>2, <2>2
      <3>2. ASSUME NEW i \in 1..4
            PROVE  u[n][i] = t[4 * n - 4 + i]
        <4>1. v[k][i] = e[4 * k - 4 + i]
          BY <1>5
        <4>2. t[4 * n - 4 + i] = e[4 * k - 4 + i]
          BY <1>3, <3>1
        <4> QED
          BY <2>2, <4>1, <4>2
      <3> QED
        BY <1>5, <2>2, <3>2
    <2> QED
      BY <1>4, <2>1, <2>2
  <1>7. ASSUME NEW i \in 1..Len(r)
        PROVE  r[i] = t[4 * (a + b) + i]
    <2>1. 4 * b + i \in 1..Len(e) /\ 4 * (a + b) + i = Len(d) + (4 * b + i)
      BY <1>1, <1>2
    <2> QED
      BY <1>3, <1>5, <2>1, SMTT(40)
  <1>8. Len(r) < 4 /\ 4 * (a + b) + Len(r) = Len(t)
    <2>1. Len(t) = 4 * a + (4 * b + Len(r))
      BY <1>1, <1>2, <1>3
    <2> DEFINE c == Len(r)
               l == Len(t)
    <2>2. c \in 0..3 /\ l = 4 * a + (4 * b + c)
      BY <1>2, <2>1
    <2> HIDE DEF c, l
    <2>3. c < 4 /\ 4 * (a + b) + c = l
      BY <1>1, <1>2, <2>2
    <2> QED
      BY <2>3 DEF c, l
  <1>9. Spells(u, r, t)
    BY <1>2, <1>4, <1>6, <1>7, <1>8 DEF Spells
  <1> QED
    BY <1>9 DEF u, t

\* A word that is filled up.
LEMMA SpellsWord ==
    ASSUME NEW d \in Bytes, NEW e \in Bytes, NEW w, NEW r, Spells(w, r, d),
           Len(r) + Len(e) = 4
    PROVE  Spells(w \o << r \o e >>, << >>, d \o e)
  <1> DEFINE t == d \o e
             x == r \o e
             v == << x >>
             u == w \o v
             a == Len(w)
  <1>1. /\ w \in Seq(Bytes) /\ a \in Nat /\ r \in Bytes /\ Len(r) \in 0..3
        /\ Len(d) = 4 * a + Len(r)
    BY SpellsTypes
  <1>2. /\ t \in Bytes /\ Len(t) = Len(d) + Len(e) /\ Len(e) \in Nat
        /\ \A i \in 1..Len(d) : t[i] = d[i]
        /\ \A i \in 1..Len(e) : t[Len(d) + i] = e[i]
    BY TextGoesOn
  <1>3. /\ x \in Bytes /\ Len(x) = Len(r) + Len(e)
        /\ \A i \in 1..Len(r) : x[i] = r[i]
        /\ \A i \in 1..Len(e) : x[Len(r) + i] = e[i]
    BY <1>1, TextGoesOn
  <1> HIDE DEF x, t
  <1>4. v \in Seq(Bytes) /\ Len(v) = 1 /\ v[1] = x
    BY <1>3
  <1> HIDE DEF v
  <1>5. /\ u \in Seq(Bytes) /\ Len(u) = a + 1
        /\ \A n \in 1..(a + 1) : \/ n \in 1..a /\ u[n] = w[n]
                                 \/ n = a + 1 /\ u[n] = x
    <2>1. /\ u \in Seq(Bytes) /\ Len(u) = a + Len(v)
          /\ \A n \in 1..(a + Len(v)) : \/ n \in 1..a /\ u[n] = w[n]
                                        \/ \E k \in 1..Len(v) : n = a + k /\ u[n] = v[k]
      BY <1>1, <1>4, WordsGoOn
    <2> HIDE DEF u, a
    <2> QED
      BY <1>4, <2>1
  <1>6. /\ \A n \in 1..a : Len(w[n]) = 4 /\ \A i \in 1..4 : w[n][i] = d[4 * n - 4 + i]
        /\ \A i \in 1..Len(r) : r[i] = d[4 * a + i]
    BY DEF Spells
  <1> HIDE DEF u, a
  <1>7. ASSUME NEW n \in 1..(a + 1)
        PROVE  Len(u[n]) = 4 /\ \A i \in 1..4 : u[n][i] = t[4 * n - 4 + i]
    <2>1. CASE n \in 1..a /\ u[n] = w[n]
      <3>1. ASSUME NEW i \in 1..4
            PROVE  u[n][i] = t[4 * n - 4 + i]
        <4>1. 4 * n - 4 + i \in 1..Len(d)
          BY <1>1, <2>1
        <4>2. w[n][i] = d[4 * n - 4 + i]
          BY <1>6, <2>1
        <4> QED
          BY <1>2, <2>1, <4>1, <4>2
      <3> QED
        BY <1>6, <2>1, <3>1
    <2>2. CASE n = a + 1 /\ u[n] = x
      <3>1. Len(x) = 4 /\ Len(r) \in 0..3
        BY <1>1, <1>3
      <3>2. ASSUME NEW i \in 1..4
            PROVE  x[i] = t[4 * n - 4 + i]
        <4>1. CASE i <= Len(r)
          <5>1. i \in 1..Len(r) /\ 4 * n - 4 + i = 4 * a + i /\ 4 * a + i \in 1..Len(d)
            BY <1>1, <2>2, <4>1
          <5> QED
            BY <1>2, <1>3, <1>6, <5>1
        <4>2. CASE i > Len(r)
          <5> DEFINE j == i - Len(r)
          <5>1. j \in 1..Len(e) /\ Len(r) + j = i /\ 4 * n - 4 + i = Len(d) + j
            BY <1>1, <1>2, <2>2, <4>2
          <5> HIDE DEF j
          <5> QED
            BY <1>2, <1>3, <5>1
        <4> QED
          BY <1>1, <4>1, <4>2
      <3> QED
        BY <2>2, <3>1, <3>2
    <2> QED
      BY <1>5, <2>1, <2>2
  <1>8. 4 * (a + 1) = Len(t)
    <2> DEFINE b == Len(r)
               c == Len(e)
               l == Len(t)
    <2>1. a \in Nat /\ b \in 0..3 /\ c \in Nat /\ b + c = 4 /\ l = (4 * a + b) + c
      BY <1>1, <1>2
    <2> HIDE DEF b, c, l
    <2>2. 4 * (a + 1) = l
      BY <2>1
    <2> QED
      BY <2>2 DEF l
  <1>9. Spells(u, << >>, t)
    <2>1. << >> \in Bytes /\ Len(<< >>) = 0
      BY DEF Bytes
    <2> QED
      BY <1>1, <1>5, <1>7, <1>8, <2>1 DEF Spells
  <1> QED
    BY <1>9 DEF u, t, v, x

\* Bytes that do not fill up a word.
LEMMA SpellsRest ==
    ASSUME NEW d \in Bytes, NEW e \in Bytes, NEW w, NEW r, Spells(w, r, d),
           Len(r) + Len(e) < 4
    PROVE  Spells(w, r \o e, d \o e)
  <1> DEFINE t == d \o e
             x == r \o e
             a == Len(w)
             b == Len(r)
             c == Len(e)
  <1>1. /\ w \in Seq(Bytes) /\ a \in Nat /\ r \in Bytes /\ b \in 0..3
        /\ Len(d) = 4 * a + b
    BY SpellsTypes
  <1>2. /\ t \in Bytes /\ Len(t) = Len(d) + c /\ c \in Nat
        /\ \A i \in 1..Len(d) : t[i] = d[i]
        /\ \A i \in 1..c : t[Len(d) + i] = e[i]
    BY TextGoesOn
  <1>3. /\ x \in Bytes /\ Len(x) = b + c
        /\ \A i \in 1..b : x[i] = r[i]
        /\ \A i \in 1..c : x[b + i] = e[i]
    BY <1>1, TextGoesOn
  <1>4. /\ \A n \in 1..a : Len(w[n]) = 4 /\ \A i \in 1..4 : w[n][i] = d[4 * n - 4 + i]
        /\ \A i \in 1..b : r[i] = d[4 * a + i]
    BY DEF Spells
  <1>5. b + c < 4
    OBVIOUS
  <1> HIDE DEF t, x, a, b, c
  <1>6. ASSUME NEW n \in 1..a
        PROVE  Len(w[n]) = 4 /\ \A i \in 1..4 : w[n][i] = t[4 * n - 4 + i]
    <2>1. ASSUME NEW i \in 1..4
          PROVE  w[n][i] = t[4 * n - 4 + i]
      <3>1. 4 * n - 4 + i \in 1..Len(d)
        BY <1>1
      <3>2. w[n][i] = d[4 * n - 4 + i]
        BY <1>4
      <3> QED
        BY <1>2, <3>1, <3>2
    <2> QED
      BY <1>4, <2>1
  <1>7. ASSUME NEW i \in 1..(b + c)
        PROVE  x[i] = t[4 * a + i]
    <2>1. CASE i <= b
      <3>1. i \in 1..b /\ 4 * a + i \in 1..Len(d)
        BY <1>1, <1>2, <2>1
      <3> QED
        BY <1>2, <1>3, <1>4, <3>1
    <2>2. CASE i > b
      <3> DEFINE j == i - b
      <3>1. j \in 1..c /\ b + j = i /\ 4 * a + i = Len(d) + j
        BY <1>1, <1>2, <2>2
      <3> HIDE DEF j
      <3> QED
        BY <1>2, <1>3, <3>1
    <2> QED
      BY <1>1, <2>1, <2>2
  <1>8. 4 * a + (b + c) = Len(t)
    BY <1>1, <1>2
  <1>9. Spells(w, x, t)
    BY <1>1, <1>3, <1>5, <1>6, <1>7, <1>8 DEF Spells, a
  <1> QED
    BY <1>9 DEF x, t

\* MurmurHash3.Write leaves the state that the whole text, written at once,
\* would have left: wherever a text is cut, also within a word.
THEOREM WriteInPieces ==
    ASSUME NEW d \in Bytes, NEW e \in Bytes
    PROVE  Write(HashOf(d), e) = HashOf(d \o e)
  <1> DEFINE t == d \o e
             h == HashOf(d)
             w == WordsOf(d)
             r == RestOf(d)
             missing == IF r = << >> THEN 0 ELSE 4 - Len(r)
             start == SubSeq(e, 1, missing)
             body == SubSeq(e, missing + 1, Len(e))
             begun == IF missing = 0 THEN << >> ELSE << r \o start >>
  <1>1. /\ Spells(w, r, d) /\ w \in Seq(Bytes) /\ r \in Bytes /\ Len(r) \in 0..3
    BY HashSpells, SpellsTypes
  <1>2. t \in Bytes /\ Len(t) = Len(d) + Len(e) /\ Len(e) \in Nat
    BY TextGoesOn
  <1>3. h = [words |-> w, rest |-> r, len |-> Len(d)]
    BY DEF HashOf
  <1>4. ASSUME NEW x, NEW y, Spells(x, y, t)
        PROVE  [words |-> x, rest |-> y, len |-> Len(d) + Len(e)] = HashOf(t)
    <2>1. x = WordsOf(t) /\ y = RestOf(t)
      BY <1>2, <1>4, HashSpells, SpelledOnce
    <2> QED
      BY <1>2, <2>1 DEF HashOf
  <1>5. Write(h, e) =
          IF Len(e) < missing
          THEN [h EXCEPT !.rest = @ \o e, !.len = @ + Len(e)]
          ELSE [words |-> h.words \o begun \o WordsOf(body),
                rest |-> RestOf(body), len |-> h.len + Len(e)]
    BY <1>3 DEF Write
  <1> HIDE DEF t, h, w, r
  <1>6. missing \in Nat /\ (missing = 0 <=> r = << >>) /\ (missing # 0 => Len(r) + missing = 4)
    <2>1. r # << >> => Len(r) # 0
      BY <1>1, EmptySeq DEF Bytes
    <2>2. CASE r = << >>
      <3>1. missing = 0
        BY <2>2
      <3> HIDE DEF missing
      <3> QED
        BY <2>2, <3>1
    <2>3. CASE r # << >>
      <3> DEFINE m == Len(r)
      <3>1. missing = 4 - m /\ m \in 0..3 /\ m # 0
        BY <1>1, <2>1, <2>3
      <3> HIDE DEF missing, m
      <3>2. missing \in Nat /\ missing # 0 /\ m + missing = 4
        BY <3>1
      <3> QED
        BY <2>3, <3>2 DEF m
    <2> QED
      BY <2>2, <2>3
  <1> HIDE DEF missing
  <1>7. CASE Len(e) < missing
    <2>1. Len(r) + Len(e) < 4
      BY <1>1, <1>2, <1>6, <1>7
    <2>2. Spells(w, r \o e, t)
      BY <1>1, <2>1, SpellsRest DEF t
    <2>3. Write(h, e) = [words |-> w, rest |-> r \o e, len |-> Len(d) + Len(e)]
      BY <1>3, <1>5, <1>7
    <2> QED
      BY <1>4, <2>2, <2>3 DEF h, t
  <1>8. CASE ~(Len(e) < missing) /\ missing = 0
    <2>1. body = e
      BY <1>8, SubSeqFull DEF Bytes
    <2>2. Spells(WordsOf(e), RestOf(e), e)
      BY HashSpells
    <2>3. Spells(w \o WordsOf(e), RestOf(e), t)
      BY <1>1, <1>6, <1>8, <2>2, SpellsOn DEF t
    <2>4. w \o << >> = w
      BY <1>1, ConcatEmptySeq
    <2>5. Write(h, e) =
            [words |-> w \o WordsOf(e), rest |-> RestOf(e), len |-> Len(d) + Len(e)]
      BY <1>3, <1>5, <1>8, <2>1, <2>4
    <2> QED
      BY <1>4, <2>3, <2>5 DEF h, t
  <1>9. CASE ~(Len(e) < missing) /\ missing # 0
    <2>1. missing \in 1..Len(e)
      BY <1>2, <1>6, <1>9
    <2>2. /\ start \in Bytes /\ Len(start) = missing /\ body \in Bytes
      BY <1>2, <2>1, Slice
    <2>3. start \o body = e
      <3>1. SubSeq(e, 1, missing) \o SubSeq(e, missing + 1, Len(e)) = SubSeq(e, 1, Len(e))
        BY <1>2, <2>1, ConcatAdjacentSubSeq, SMTT(40) DEF Bytes
      <3> QED
        BY <3>1, SubSeqFull DEF Bytes
    <2> HIDE DEF start, body
    <2>4. Len(r) + Len(start) = 4
      BY <1>6, <1>9, <2>2
    <2>5. Spells(w \o << r \o start >>, << >>, d \o start)
      BY <1>1, <2>2, <2>4, SpellsWord
    <2>6. d \o start \in Bytes /\ Spells(WordsOf(body), RestOf(body), body)
      BY <2>2, TextGoesOn, HashSpells
    <2>7. Spells((w \o << r \o start >>) \o WordsOf(body), RestOf(body), (d \o start) \o body)
      BY <2>2, <2>5, <2>6, SpellsOn
    <2>8. (d \o start) \o body = t
      <3>1. d \in Seq(Nat) /\ start \in Seq(Nat) /\ body \in Seq(Nat)
        BY <2>2 DEF Bytes
      <3>2. (d \o start) \o body = d \o (start \o body)
        BY <3>1, ConcatAssociative, SMTT(40)
      <3> QED
        BY <2>3, <3>2 DEF t
    <2>9. Write(h, e) = [words |-> (w \o << r \o start >>) \o WordsOf(body),
                         rest |-> RestOf(body), len |-> Len(d) + Len(e)]
      BY <1>3, <1>5, <1>9
    <2> QED
      BY <1>4, <2>7, <2>8, <2>9 DEF h, t
  <1> QED
    BY <1>7, <1>8, <1>9

LEMMA HashOfNothing == EmptyHash = HashOf(<< >>) /\ << >> \in Bytes
  <1>1. << >> \in Bytes /\ Len(<< >>) = 0
    BY DEF Bytes
  <1>2. Spells(<< >>, << >>, << >>)
    BY <1>1 DEF Spells
  <1>3. WordsOf(<< >>) = << >> /\ RestOf(<< >>) = << >>
    BY <1>1, <1>2, HashSpells, SpelledOnce
  <1> QED
    BY <1>1, <1>3 DEF EmptyHash, HashOf

\* Different texts have different hashes (as the model has them).
LEMMA HashTellsApart ==
    ASSUME NEW d \in Bytes, NEW e \in Bytes, HashOf(d) = HashOf(e)
    PROVE  d = e
  <1>1. WordsOf(d) = WordsOf(e) /\ RestOf(d) = RestOf(e)
    BY DEF HashOf
  <1>2. Spells(WordsOf(d), RestOf(d), d) /\ Spells(WordsOf(d), RestOf(d), e)
    BY <1>1, HashSpells
  <1> QED
    BY <1>2, SpellsOne

\* The rank of an address that was written after the key, and nothing else, is
\* its score.
LEMMA SumIsScore ==
    ASSUME NEW a \in Address
    PROVE  /\ Write(EmptyHash, Key) = HashOf(Key)
           /\ Write(HashOf(Key), Text[a]) = HashOf(Key \o Text[a])
           /\ Sums(HashOf(Key \o Text[a])) = { Score[a] }
  <1>1. Key \in Bytes /\ \A b \in Address : Text[b] \in Bytes
    BY AddressesAssumption DEF Bytes
  <1>2. << >> \o Key = Key
    BY <1>1, ConcatEmptySeq DEF Bytes
  <1>3. Write(EmptyHash, Key) = HashOf(Key)
    BY <1>1, <1>2, HashOfNothing, WriteInPieces
  <1>4. ASSUME NEW b \in Address, HashOf(Key \o Text[a]) = HashOf(Key \o Text[b])
        PROVE  b = a
    <2>1. Key \o Text[a] \in Bytes /\ Key \o Text[b] \in Bytes
      BY <1>1, TextGoesOn
    <2>2. Key \o Text[a] = Key \o Text[b]
      BY <1>4, <2>1, HashTellsApart
    <2>3. Text[a] = Text[b]
      BY <1>1, <2>2, ConcatSimplifications DEF Bytes
    <2> QED
      BY <2>3, AddressesAssumption DEF IsInjective
  <1>5. { b \in Address : HashOf(Key \o Text[a]) = HashOf(Key \o Text[b]) } = { a }
    BY <1>4
  <1>6. Sums(HashOf(Key \o Text[a])) = { Score[b] : b \in { a } }
    BY <1>5 DEF Sums
  <1> QED
    BY <1>1, <1>3, <1>6, WriteInPieces

-----------------------------------------------------------------------------
(* Counting.                                                               *)

\* What has the elements of a finite set one by one has as many.
LEMMA AsMany ==
    ASSUME NEW S, IsFiniteSet(S), NEW T, NEW f \in [S -> T],
           \A x, y \in S : f[x] = f[y] => x = y,
           \A t \in T : \E x \in S : f[x] = t
    PROVE  IsFiniteSet(T) /\ Cardinality(T) = Cardinality(S)
  <1>1. f \in Bijection(S, T)
    BY DEF Bijection, Injection, Surjection, IsInjective
  <1>2. ExistsBijection(S, T)
    BY <1>1 DEF ExistsBijection
  <1> QED
    BY <1>2, FS_Bijection

\* The places where an element of X stands.
PlacesOf(s, X) == { n \in DOMAIN s : s[n] \in X }

\* s has the elements of A, each of them m times: together, those of a set X
\* take m times as many places as X has elements.
EachTimes(s, A, m) ==
    /\ s \in Seq(Address) /\ ToSet(s) = A
    /\ \A X \in SUBSET A : Cardinality(PlacesOf(s, X)) = m * Cardinality(X)

LEMMA PlacesFinite ==
    ASSUME NEW s \in Seq(Address), NEW X
    PROVE  /\ IsFiniteSet(PlacesOf(s, X)) /\ PlacesOf(s, X) \subseteq 1..Len(s)
           /\ Cardinality(PlacesOf(s, X)) \in Nat
  <1>1. PlacesOf(s, X) \subseteq 1..Len(s) /\ Len(s) \in Int
    BY DEF PlacesOf
  <1>2. IsFiniteSet(1..Len(s))
    BY <1>1, FS_Interval
  <1>3. IsFiniteSet(PlacesOf(s, X))
    BY <1>1, <1>2, FS_Subset
  <1> QED
    BY <1>1, <1>3, FS_CardinalityType

\* Without repetitions, every element stands in one place.
LEMMA DistinctOnce ==
    ASSUME NEW s \in Seq(Address), AllDistinct(s)
    PROVE  /\ Cardinality(ToSet(s)) = Len(s)
           /\ \A X \in SUBSET ToSet(s) : /\ IsFiniteSet(X) /\ Cardinality(X) \in Nat
                                         /\ Cardinality(PlacesOf(s, X)) = Cardinality(X)
  <1>1. ASSUME NEW X \in SUBSET ToSet(s)
        PROVE  /\ IsFiniteSet(X) /\ Cardinality(X) \in Nat
               /\ Cardinality(PlacesOf(s, X)) = Cardinality(X)
    <2> DEFINE P == PlacesOf(s, X)
               f == [n \in P |-> s[n]]
    <2>1. f \in [P -> X] /\ \A n \in P : f[n] = s[n]
      BY DEF PlacesOf
    <2>2. \A m, n \in P : f[m] = f[n] => m = n
      BY <2>1 DEF PlacesOf, AllDistinct
    <2>3. \A x \in X : \E n \in P : f[n] = x
      BY <2>1 DEF PlacesOf, ToSet
    <2>4. IsFiniteSet(P)
      BY PlacesFinite
    <2> HIDE DEF P, f
    <2>5. IsFiniteSet(X) /\ Cardinality(X) = Cardinality(P)
      BY <2>1, <2>2, <2>3, <2>4, AsMany
    <2>6. Cardinality(X) \in Nat
      BY <2>5, FS_CardinalityType
    <2> QED
      BY <2>5, <2>6 DEF P
  <1>2. PlacesOf(s, ToSet(s)) = 1..Len(s)
    BY DEF PlacesOf, ToSet
  <1>3. Len(s) \in Nat
    OBVIOUS
  <1>4. Cardinality(1..Len(s)) = Len(s)
    <2> DEFINE n == Len(s)
    <2>1. Cardinality(1..n) = IF 1 > n THEN 0 ELSE n - 1 + 1
      BY <1>3, FS_Interval, SMTT(40)
    <2> HIDE DEF n
    <2>2. Cardinality(1..n) = n
      BY <1>3, <2>1 DEF n
    <2> QED
      BY <2>2 DEF n
  <1> QED
    BY <1>1, <1>2, <1>4

\* A number in the copies: which copy, and which place in it.
LEMMA InCopy ==
    ASSUME NEW n \in Nat \ {0}, NEW m \in Nat
    PROVE  /\ \A j \in 0..(m - 1), p \in 1..n :
                /\ j * n + p \in 1..(m * n)
                /\ 1 + (((j * n + p) - 1) % n) = p
                /\ ((j * n + p) - 1) \div n = j
           /\ \A i \in 1..(m * n) : \E j \in 0..(m - 1), p \in 1..n : i = j * n + p
  <1>1. ASSUME NEW j \in 0..(m - 1), NEW p \in 1..n
        PROVE  /\ j * n + p \in 1..(m * n)
               /\ 1 + (((j * n + p) - 1) % n) = p
               /\ ((j * n + p) - 1) \div n = j
    <2> DEFINE a == j * n
               b == (a + p) - 1
    <2>1. a \in Nat /\ m * n \in Nat /\ a + n <= m * n
      <3>1. (m - 1 - j) * n \in Nat
        BY SMTT(20)
      <3>2. (m - 1 - j) * n = m * n - n - j * n
        BY SMTT(20)
      <3> QED
        BY <3>1, <3>2, SMTT(20)
    <2>2. b \in Nat /\ b = n * j + (p - 1) /\ p - 1 \in 0..(n - 1)
      BY SMTT(20)
    <2>3. b % n = p - 1 /\ b \div n = j
      <3> HIDE DEF b
      <3>1. b = n * (b \div n) + (b % n) /\ b % n \in 0..(n - 1) /\ b \div n \in Nat
        BY <2>2, SMTT(20)
      <3> DEFINE q == b \div n
                 r == b % n
      <3> HIDE DEF q, r
      <3>2. b = n * q + r /\ r \in 0..(n - 1) /\ q \in Nat
        BY <3>1 DEF q, r
      <3>3. n * (q - j) = (p - 1) - r
        BY <2>2, <3>2, SMTT(20)
      <3>4. q = j
        <4>1. CASE q >= j + 1
          <5>1. n * (q - j - 1) \in Nat
            BY <3>2, <4>1, SMTT(20)
          <5>2. n * (q - j - 1) = n * (q - j) - n
            BY <3>2, SMTT(20)
          <5> QED
            BY <2>2, <3>2, <3>3, <5>1, <5>2, SMTT(20)
        <4>2. CASE q + 1 <= j
          <5>1. n * (j - q - 1) \in Nat
            BY <3>2, <4>2, SMTT(20)
          <5>2. n * (j - q - 1) = 0 - n * (q - j) - n
            BY <3>2, SMTT(20)
          <5> QED
            BY <2>2, <3>2, <3>3, <5>1, <5>2, SMTT(20)
        <4> QED
          BY <3>2, <4>1, <4>2
      <3>5. r = p - 1
        BY <2>2, <3>2, <3>4, SMTT(20)
      <3> QED
        BY <3>4, <3>5 DEF q, r
    <2>4. a + p \in 1..(m * n)
      <3> HIDE DEF a
      <3> DEFINE c == m * n
      <3>1. c \in Nat /\ a + n <= c /\ a \in Nat
        BY <2>1
      <3> HIDE DEF c
      <3>2. a + p \in 1..c
        BY <3>1
      <3> QED
        BY <3>2 DEF c
    <2> QED
      BY <2>1, <2>2, <2>3, <2>4
  <1>2. ASSUME NEW i \in 1..(m * n)
        PROVE  \E j \in 0..(m - 1), p \in 1..n : i = j * n + p
    <2> DEFINE h == i - 1
               j == h \div n
               r == h % n
    <2>1. m * n \in Nat
      BY SMTT(20)
    <2>2. h \in Nat /\ i = h + 1 /\ h < m * n
      BY <2>1
    <2> HIDE DEF h
    <2>3. h = n * j + r /\ r \in 0..(n - 1) /\ j \in Nat
      BY <2>2, SMTT(20)
    <2> HIDE DEF j, r
    <2>4. j < m
      <3>1. CASE j >= m
        <4>1. n * (j - m) \in Nat
          BY <2>3, <3>1, SMTT(20)
        <4>2. n * (j - m) = n * j - m * n
          BY <2>3, SMTT(20)
        <4> QED
          BY <2>1, <2>2, <2>3, <4>1, <4>2, SMTT(20)
      <3> QED
        BY <2>3, <3>1
    <2>5. j \in 0..(m - 1) /\ r + 1 \in 1..n /\ i = j * n + (r + 1)
      BY <2>2, <2>3, <2>4, SMTT(20)
    <2> QED
      BY <2>5
  <1> QED
    BY <1>1, <1>2

\* A finite set so many times.
LEMMA ManyTimes ==
    ASSUME NEW m \in Nat, NEW S, IsFiniteSet(S)
    PROVE  /\ IsFiniteSet((0..(m - 1)) \X S)
           /\ Cardinality((0..(m - 1)) \X S) = m * Cardinality(S)
  <1>1. IsFiniteSet(0..(m - 1)) /\ Cardinality(0..(m - 1)) = m
    <2> DEFINE b == m - 1
    <2>1. /\ IsFiniteSet(0..b) /\ Cardinality(0..b) = IF 0 > b THEN 0 ELSE b - 0 + 1
      BY FS_Interval
    <2>2. (IF 0 > b THEN 0 ELSE b - 0 + 1) = m
      OBVIOUS
    <2> QED
      BY <2>1, <2>2
  <1> DEFINE M == 0..(m - 1)
  <1> HIDE DEF M
  <1>2. IsFiniteSet(M \X S) /\ Cardinality(M \X S) = Cardinality(M) * Cardinality(S)
    BY <1>1, FS_Product DEF M
  <1> QED
    BY <1>1, <1>2 DEF M

\* So many copies of a sequence without repetitions.
LEMMA TimesEach ==
    ASSUME NEW s \in Seq(Address), AllDistinct(s), Len(s) > 0, NEW m \in Nat \ {0}
    PROVE  /\ EachTimes(Times(m, s), ToSet(s), m)
           /\ Len(Times(m, s)) = m * Len(s)
  <1> DEFINE n == Len(s)
             t == Times(m, s)
             At(j, p) == j * n + p
  <1>1. n \in Nat \ {0} /\ m * n \in Nat /\ DOMAIN s = 1..n
    <2>1. n \in Nat \ {0} /\ DOMAIN s = 1..n
      OBVIOUS
    <2> HIDE DEF n
    <2> QED
      BY <2>1, SMTT(20)
  <1>2. t = [i \in 1..(m * n) |-> s[1 + ((i - 1) % n)]]
    BY DEF Times
  <1> HIDE DEF n, t
  <1>3. /\ \A j \in 0..(m - 1), p \in 1..n :
             /\ At(j, p) \in 1..(m * n)
             /\ 1 + ((At(j, p) - 1) % n) = p
             /\ (At(j, p) - 1) \div n = j
        /\ \A i \in 1..(m * n) : \E j \in 0..(m - 1), p \in 1..n : i = At(j, p)
    BY <1>1, InCopy, Zenon
  <1> HIDE DEF At
  <1>4. \A j \in 0..(m - 1), p \in 1..n : t[At(j, p)] = s[p]
    BY <1>2, <1>3
  <1>5. \A p \in 1..n : s[p] \in Address
    BY <1>1
  <1>6. t \in [1..(m * n) -> Address]
    <2>1. ASSUME NEW i \in 1..(m * n)
          PROVE  t[i] \in Address
      <3>1. PICK j \in 0..(m - 1), p \in 1..n : i = At(j, p)
        BY <1>3
      <3> QED
        BY <1>4, <1>5, <3>1
    <2> QED
      BY <1>2, <2>1
  <1>7. t \in Seq(Address) /\ Len(t) = m * n /\ DOMAIN t = 1..(m * n)
    BY <1>1, <1>6
  <1>8. ToSet(t) = ToSet(s)
    <2>1. ASSUME NEW i \in DOMAIN t
          PROVE  t[i] \in ToSet(s)
      <3>1. PICK j \in 0..(m - 1), p \in 1..n : i = At(j, p)
        BY <1>3, <1>7, <2>1
      <3> QED
        BY <1>1, <1>4, <3>1 DEF ToSet
    <2>2. ASSUME NEW p \in DOMAIN s
          PROVE  s[p] \in ToSet(t)
      <3>1. 0 \in 0..(m - 1) /\ p \in 1..n
        BY <1>1
      <3>2. At(0, p) \in DOMAIN t /\ t[At(0, p)] = s[p]
        BY <1>3, <1>4, <1>7, <3>1
      <3> QED
        BY <3>2 DEF ToSet
    <2> QED
      BY <2>1, <2>2 DEF ToSet
  <1>9. ASSUME NEW X \in SUBSET ToSet(s)
        PROVE  Cardinality(PlacesOf(t, X)) = m * Cardinality(X)
    <2> DEFINE P == PlacesOf(s, X)
               Q == PlacesOf(t, X)
               D == (0..(m - 1)) \X P
               f == [x \in D |-> At(x[1], x[2])]
    <2>1. IsFiniteSet(P) /\ P \subseteq 1..n /\ Cardinality(P) = Cardinality(X)
      BY DistinctOnce, PlacesFinite DEF n
    <2>2. IsFiniteSet(D) /\ Cardinality(D) = m * Cardinality(P)
      BY <2>1, ManyTimes
    <2>3. ASSUME NEW x \in D
          PROVE  /\ x = << x[1], x[2] >> /\ x[1] \in 0..(m - 1) /\ x[2] \in 1..n
                 /\ f[x] = At(x[1], x[2]) /\ f[x] \in Q
      <3>1. x = << x[1], x[2] >> /\ x[1] \in 0..(m - 1) /\ x[2] \in P
        OBVIOUS
      <3>2. At(x[1], x[2]) \in DOMAIN t /\ t[At(x[1], x[2])] = s[x[2]]
        BY <1>3, <1>4, <1>7, <2>1, <3>1
      <3> QED
        BY <2>1, <3>1, <3>2 DEF PlacesOf
    <2>4. f \in [D -> Q]
      BY <2>3
    <2>5. ASSUME NEW x \in D, NEW y \in D, f[x] = f[y]
          PROVE  x = y
      <3> HIDE DEF f, D
      <3>1. /\ x = << x[1], x[2] >> /\ x[1] \in 0..(m - 1) /\ x[2] \in 1..n
            /\ y = << y[1], y[2] >> /\ y[1] \in 0..(m - 1) /\ y[2] \in 1..n
            /\ At(x[1], x[2]) = At(y[1], y[2])
        BY <2>3, <2>5
      <3>2. x[1] = y[1] /\ x[2] = y[2]
        BY <1>3, <3>1
      <3> QED
        BY <3>1, <3>2
    <2>6. ASSUME NEW q \in Q
          PROVE  \E x \in D : f[x] = q
      <3>1. q \in 1..(m * n) /\ t[q] \in X
        BY <1>7 DEF PlacesOf
      <3>2. PICK j \in 0..(m - 1), p \in 1..n : q = At(j, p)
        BY <1>3, <3>1
      <3>3. p \in P
        BY <1>1, <1>4, <3>1, <3>2 DEF PlacesOf
      <3>4. << j, p >> \in D /\ f[<< j, p >>] = q
        BY <3>2, <3>3
      <3> QED
        BY <3>4
    <2> HIDE DEF D, f, P, Q
    <2>7. Cardinality(Q) = Cardinality(D)
      BY <2>2, <2>4, <2>5, <2>6, AsMany
    <2> QED
      BY <2>1, <2>2, <2>7 DEF Q
  <1>10. EachTimes(t, ToSet(s), m)
    BY <1>7, <1>8, <1>9 DEF EachTimes
  <1> QED
    BY <1>7, <1>10 DEF t, n

-----------------------------------------------------------------------------
(* What the decorators make of a list.                                     *)

\* Accepted, of any set of addresses.
AcceptedOf(S) ==
    IF Required \/ S \cap Matching # {} THEN S \cap Matching ELSE S

\* How often MinConnections repeats n addresses.
TimesOf(n) == IF n < MinConns THEN Multiplier(n) ELSE 1

\* How often each of the accepted addresses is ranked.
CopiesOf(S) == IF subsetFirst THEN 1 ELSE TimesOf(Cardinality(AcceptedOf(S)))

LEMMA MultiplierNatural ==
    ASSUME NEW n \in Nat \ {0}
    PROVE  Multiplier(n) \in Nat /\ (n < MinConns => Multiplier(n) > 0)
  <1> DEFINE q == MinConns \div n
  <1>1. MinConns \in Nat
    BY AddressesAssumption
  <1>2. q \in Nat
    BY <1>1
  <1>3. MinConns - n * q \in 0..(n - 1)
    BY <1>1
  <1>4. Multiplier(n) = IF n * q < MinConns THEN q + 1 ELSE q
    BY DEF Multiplier
  <1> HIDE DEF q
  <1>5. n * q \in Nat
    BY <1>2, SMTT(20)
  <1>6. ASSUME n < MinConns
        PROVE  Multiplier(n) > 0
    <2>1. CASE q = 0
      BY <1>1, <1>3, <1>4, <1>6, <2>1
    <2>2. CASE q # 0
      BY <1>2, <1>4, <2>2
    <2> QED
      BY <2>1, <2>2
  <1> QED
    BY <1>2, <1>4, <1>6

\* A sequence without repetitions, each once.
LEMMA EachOnce ==
    ASSUME NEW s \in Seq(Address), AllDistinct(s)
    PROVE  EachTimes(s, ToSet(s), 1)
  <1>1. \A X \in SUBSET ToSet(s) : Cardinality(PlacesOf(s, X)) = 1 * Cardinality(X)
    BY DistinctOnce
  <1> QED
    BY <1>1 DEF EachTimes

\* minConnsReceiver.OnResolve repeats every address equally often.
LEMMA ReplicateEach ==
    ASSUME NEW s \in Seq(Address), AllDistinct(s), s # << >>
    PROVE  /\ EachTimes(Replicate(s), ToSet(s), TimesOf(Cardinality(ToSet(s))))
           /\ TimesOf(Cardinality(ToSet(s))) \in Nat
           /\ TimesOf(Cardinality(ToSet(s))) > 0
  <1>1. Cardinality(ToSet(s)) = Len(s)
    BY DistinctOnce
  <1>2. Len(s) \in Nat /\ Len(s) # 0
    BY EmptySeq
  <1>3. CASE Len(s) >= MinConns
    <2>1. Replicate(s) = s /\ TimesOf(Len(s)) = 1
      BY <1>2, <1>3, AddressesAssumption DEF Replicate, TimesOf
    <2> QED
      BY <1>1, <2>1, EachOnce
  <1>4. CASE Len(s) < MinConns
    <2>1. TimesOf(Len(s)) = Multiplier(Len(s)) /\ Replicate(s) = Times(Multiplier(Len(s)), s)
      BY <1>2, <1>4, AddressesAssumption DEF Replicate, TimesOf
    <2>2. Multiplier(Len(s)) \in Nat \ {0}
      BY <1>2, <1>4, MultiplierNatural
    <2> QED
      BY <1>1, <1>2, <2>1, <2>2, TimesEach
  <1> QED
    BY <1>2, <1>3, <1>4, AddressesAssumption

\* A lookup finds no address twice.
LEMMA FoundDistinct ==
    ASSUME NEW s \in SetToAllKPermutations(Address)
    PROVE  s \in Seq(Address) /\ AllDistinct(s)
  <1>1. PICK S \in SUBSET Address : s \in SetToSeqs(S)
    BY DEF SetToAllKPermutations
  <1> DEFINE n == Cardinality(S)
  <1>2. s \in [1..n -> S] /\ \A i, j \in 1..n : i # j => s[i] # s[j]
    BY <1>1 DEF SetToSeqs
  <1>3. n \in Nat
    <2>1. IsFiniteSet(S)
      BY AddressesAssumption, FS_Subset
    <2> QED
      BY <2>1, FS_CardinalityType
  <1> HIDE DEF n
  <1>4. s \in [1..n -> Address]
    BY <1>2
  <1>5. s \in Seq(Address) /\ DOMAIN s = 1..n
    BY <1>3, <1>4
  <1> QED
    BY <1>2, <1>5 DEF AllDistinct

\* applyAddressFamilyPolicy keeps the accepted addresses.
LEMMA PolicyAccepts ==
    ASSUME NEW s \in Seq(Address), AllDistinct(s),
           Required => ToSet(s) \subseteq Matching
    PROVE  /\ ApplyPolicy(s) \in Seq(Address) /\ AllDistinct(ApplyPolicy(s))
           /\ ToSet(ApplyPolicy(s)) = AcceptedOf(ToSet(s))
  <1> DEFINE t == Only(s, Matching)
  <1>1. /\ t \in Seq(Address) /\ AllDistinct(t)
        /\ \A x : HasElement(t, x) <=> x \in Matching /\ HasElement(s, x)
    BY OnlyKeeps
  <1> HIDE DEF t
  <1>2. \A u, x : HasElement(u, x) <=> x \in ToSet(u)
    BY DEF HasElement, ToSet
  <1>3. ToSet(t) = ToSet(s) \cap Matching
    <2>1. \A x : x \in ToSet(t) <=> x \in Matching /\ x \in ToSet(s)
      BY <1>1, <1>2
    <2> QED
      BY <2>1
  <1>4. t # << >> <=> ToSet(t) # {}
    <2>1. t = << >> => ToSet(t) = {}
      BY DEF ToSet
    <2>2. t # << >> => t[1] \in ToSet(t)
      <3>1. t # << >> => Len(t) # 0
        BY <1>1, EmptySeq
      <3>2. Len(t) \in Nat /\ DOMAIN t = 1..Len(t)
        BY <1>1
      <3>3. t # << >> => 1 \in DOMAIN t
        BY <3>1, <3>2
      <3> QED
        BY <3>3 DEF ToSet
    <2> QED
      BY <2>1, <2>2
  <1>5. ApplyPolicy(s) = IF Required \/ t # << >> THEN t ELSE s
    BY DEF ApplyPolicy, t
  <1> HIDE DEF Matching, Required
  <1> QED
    BY <1>1, <1>3, <1>4, <1>5 DEF AcceptedOf

-----------------------------------------------------------------------------
(* The heap.                                                               *)

Entry == [addr : Address, rank : Nat]

\* The heap has the addresses at the places f[1], f[2], ... of s, all of them
\* among the first n.
Places(f, heap, s, n) ==
    /\ f \in [1..Len(heap) -> 1..n] /\ IsInjective(f)
    /\ \A p \in 1..Len(heap) : heap[p].addr = s[f[p]]

\* The ranks are scores, and none of the first n addresses that is not in the
\* heap has a higher score than one that is.
Top(f, heap, s, n) ==
    /\ \A p \in 1..Len(heap) : heap[p].rank = Score[s[f[p]]]
    /\ \A q \in 1..n : (\A p \in 1..Len(heap) : f[p] # q) =>
           \A p \in 1..Len(heap) : Score[s[q]] <= Score[s[f[p]]]

Ranked(heap, s, n, best) ==
    \E f \in [1..Len(heap) -> 1..n] : Places(f, heap, s, n) /\ (best => Top(f, heap, s, n))

HeapOf(heap, n) == heap \in Seq(Entry) /\ Len(heap) = IF n < K THEN n ELSE K

LEMMA ScoreTypes ==
    /\ \A a \in Address : Score[a] \in Nat
    /\ \A a, b \in Address : Score[a] = Score[b] => a = b
    /\ K \in Nat /\ K > 0 /\ MinConns \in Nat
  BY AddressesAssumption DEF IsInjective

\* An address that is appended.
LEMMA AppendKeeps ==
    ASSUME NEW s \in Seq(Address), NEW n \in Nat, n + 1 <= Len(s), n < K,
           NEW heap, HeapOf(heap, n), NEW best \in BOOLEAN, Ranked(heap, s, n, best),
           NEW v \in Nat, best => v = Score[s[n + 1]]
    PROVE  LET new == Append(heap, [addr |-> s[n + 1], rank |-> v])
           IN  HeapOf(new, n + 1) /\ Ranked(new, s, n + 1, best)
  <1> DEFINE e == [addr |-> s[n + 1], rank |-> v]
             new == Append(heap, e)
  <1>1. s[n + 1] \in Address /\ e \in Entry /\ e.addr = s[n + 1] /\ e.rank = v
    BY DEF Entry
  <1>2. heap \in Seq(Entry) /\ Len(heap) = n
    BY DEF HeapOf
  <1>3. PICK f \in [1..n -> 1..n] : Places(f, heap, s, n) /\ (best => Top(f, heap, s, n))
    BY <1>2 DEF Ranked
  <1> HIDE DEF e
  <1>4. /\ new \in Seq(Entry) /\ Len(new) = n + 1 /\ new[n + 1] = e
        /\ \A p \in 1..n : new[p] = heap[p]
    BY <1>1, <1>2
  <1>5. HeapOf(new, n + 1)
    BY <1>4, ScoreTypes DEF HeapOf
  <1> DEFINE g == [p \in 1..(n + 1) |-> IF p = n + 1 THEN n + 1 ELSE f[p]]
  <1>6. /\ \A p \in 1..n : g[p] = f[p] /\ g[p] \in 1..n
        /\ g[n + 1] = n + 1 /\ g \in [1..(n + 1) -> 1..(n + 1)]
    BY <1>3
  <1>7. \A p \in 1..(n + 1) : p \in 1..n \/ p = n + 1
    OBVIOUS
  <1>8. IsInjective(g)
    <2>1. \A p, q \in 1..n : f[p] = f[q] => p = q
      BY <1>3 DEF Places, IsInjective
    <2>2. \A p \in 1..n : g[p] # n + 1
      BY <1>6
    <2> HIDE DEF g
    <2>3. DOMAIN g = 1..(n + 1)
      BY <1>6
    <2> QED
      BY <1>6, <1>7, <2>1, <2>2, <2>3 DEF IsInjective
  <1> HIDE DEF new, g
  <1>9. Places(g, new, s, n + 1)
    <2>1. ASSUME NEW p \in 1..(n + 1)
          PROVE  new[p].addr = s[g[p]]
      <3>1. CASE p \in 1..n
        BY <1>2, <1>3, <1>4, <1>6, <3>1 DEF Places
      <3>2. CASE p = n + 1
        BY <1>1, <1>4, <1>6, <3>2
      <3> QED
        BY <1>7, <3>1, <3>2
    <2> QED
      BY <1>4, <1>6, <1>8, <2>1 DEF Places
  <1>10. ASSUME best
         PROVE  Top(g, new, s, n + 1)
    <2>1. Top(f, heap, s, n)
      BY <1>3, <1>10
    <2>2. ASSUME NEW p \in 1..(n + 1)
          PROVE  new[p].rank = Score[s[g[p]]]
      <3>1. CASE p \in 1..n
        BY <1>2, <1>4, <1>6, <2>1, <3>1 DEF Top
      <3>2. CASE p = n + 1
        BY <1>1, <1>4, <1>6, <1>10, <3>2
      <3> QED
        BY <1>7, <3>1, <3>2
    <2>3. \A q \in 1..(n + 1) : \E p \in 1..(n + 1) : g[p] = q
      <3>1. f \in Surjection(1..n, 1..n)
        <4>1. f \in Injection(1..n, 1..n)
          BY <1>3 DEF Places, Injection
        <4>2. IsFiniteSet(1..n)
          <5>1. 1 \in Int /\ n \in Int
            OBVIOUS
          <5> QED
            BY <5>1, FS_Interval, Zenon
        <4> QED
          BY <4>1, <4>2, FS_Injection
      <3>2. \A q \in 1..n : \E p \in 1..n : f[p] = q
        BY <3>1 DEF Surjection
      <3>3. \A q \in 1..n : \E p \in 1..(n + 1) : g[p] = q
        BY <1>6, <3>2
      <3> QED
        BY <1>6, <1>7, <3>3
    <2> QED
      BY <1>4, <2>2, <2>3 DEF Top
  <1>11. Ranked(new, s, n + 1, best)
    BY <1>4, <1>6, <1>9, <1>10 DEF Ranked
  <1> QED
    BY <1>5, <1>11 DEF new, e

\* An address that replaces a root of least rank, or is left out.
LEMMA ReplaceKeeps ==
    ASSUME NEW s \in Seq(Address), NEW n \in Nat, n + 1 <= Len(s), ~(n < K),
           NEW heap, HeapOf(heap, n), NEW best \in BOOLEAN, Ranked(heap, s, n, best),
           NEW v \in Nat, best => v = Score[s[n + 1]],
           NEW p \in DOMAIN heap, \A q \in DOMAIN heap : heap[p].rank <= heap[q].rank
    PROVE  LET e == [addr |-> s[n + 1], rank |-> v]
               new == IF e.rank > heap[p].rank THEN [heap EXCEPT ![p] = e] ELSE heap
           IN  HeapOf(new, n + 1) /\ Ranked(new, s, n + 1, best)
  <1> DEFINE e == [addr |-> s[n + 1], rank |-> v]
             new == IF v > heap[p].rank THEN [heap EXCEPT ![p] = e] ELSE heap
  <1>1. e \in Entry /\ e.addr = s[n + 1] /\ e.rank = v
    BY DEF Entry
  <1>2. /\ heap \in Seq(Entry) /\ Len(heap) = K /\ K \in Nat /\ DOMAIN heap = 1..K
        /\ p \in 1..K /\ \A q \in 1..K : heap[q] \in Entry /\ heap[q].rank \in Nat
    <2>1. heap \in Seq(Entry) /\ Len(heap) = K /\ K \in Nat
      BY ScoreTypes DEF HeapOf
    <2>2. DOMAIN heap = 1..K /\ \A q \in 1..K : heap[q] \in Entry
      BY <2>1
    <2> QED
      BY <2>1, <2>2 DEF Entry
  <1>3. PICK f \in [1..K -> 1..n] : Places(f, heap, s, n) /\ (best => Top(f, heap, s, n))
    BY <1>2 DEF Ranked
  <1>4. \A i \in 1..(n + 1) : s[i] \in Address
    OBVIOUS
  <1>5. n + 1 \in Nat /\ ~(n + 1 < K)
    BY <1>2
  <1> HIDE DEF e
  <1>6. CASE v > heap[p].rank
    <2> DEFINE g == [q \in 1..K |-> IF q = p THEN n + 1 ELSE f[q]]
    <2>1. new = [heap EXCEPT ![p] = e]
      BY <1>6
    <2>2. /\ new \in Seq(Entry) /\ Len(new) = K /\ new[p] = e
          /\ \A q \in 1..K : q # p => new[q] = heap[q]
      BY <1>1, <1>2, <2>1, ExceptSeq
    <2>3. HeapOf(new, n + 1)
      BY <1>5, <2>2 DEF HeapOf
    <2> HIDE DEF new
    <2>4. /\ g[p] = n + 1 /\ g \in [1..K -> 1..(n + 1)]
          /\ \A q \in 1..K : q # p => g[q] = f[q]
          /\ \A q \in 1..K : f[q] # n + 1
      BY <1>2, <1>3
    <2> HIDE DEF g
    <2>5. IsInjective(g)
      <3>1. \A i, j \in 1..K : f[i] = f[j] => i = j
        BY <1>3 DEF Places, IsInjective
      <3>2. DOMAIN g = 1..K
        BY <2>4
      <3> QED
        BY <2>4, <3>1, <3>2 DEF IsInjective
    <2>6. Places(g, new, s, n + 1)
      <3>1. ASSUME NEW q \in 1..K
            PROVE  new[q].addr = s[g[q]]
        <4>1. CASE q = p
          BY <1>1, <2>2, <2>4, <4>1
        <4>2. CASE q # p
          BY <1>2, <1>3, <2>2, <2>4, <4>2 DEF Places
        <4> QED
          BY <4>1, <4>2
      <3> QED
        BY <2>2, <2>4, <2>5, <3>1 DEF Places
    <2>7. ASSUME best
          PROVE  Top(g, new, s, n + 1)
      <3>1. /\ \A q \in 1..K : heap[q].rank = Score[s[f[q]]]
            /\ \A i \in 1..n : (\A q \in 1..K : f[q] # i) =>
                 \A q \in 1..K : Score[s[i]] <= Score[s[f[q]]]
        BY <1>2, <1>3, <2>7 DEF Top
      <3>2. ASSUME NEW q \in 1..K
            PROVE  new[q].rank = Score[s[g[q]]]
        <4>1. CASE q = p
          BY <1>1, <2>2, <2>4, <2>7, <4>1
        <4>2. CASE q # p
          BY <2>2, <2>4, <3>1, <4>2
        <4> QED
          BY <4>1, <4>2
      <3>3. \A i \in 1..(n + 1) : Score[s[i]] \in Nat
        BY <1>4, ScoreTypes
      <3>4. ASSUME NEW i \in 1..(n + 1), \A q \in 1..K : g[q] # i, NEW q \in 1..K
            PROVE  Score[s[i]] <= Score[s[g[q]]]
        <4>1. i \in 1..n
          BY <1>2, <2>4, <3>4
        <4>2. Score[s[i]] <= heap[p].rank /\ Score[s[i]] <= heap[q].rank
          <5>1. CASE i = f[p]
            BY <1>2, <3>1, <5>1
          <5>2. CASE i # f[p]
            <6>1. \A j \in 1..K : f[j] # i
              BY <2>4, <3>4, <5>2
            <6> QED
              BY <1>2, <3>1, <4>1, <6>1
          <5> QED
            BY <5>1, <5>2
        <4>3. CASE q = p
          <5>1. Score[s[g[q]]] = v
            BY <2>4, <2>7, <4>3
          <5> QED
            BY <1>2, <1>6, <3>3, <4>2, <5>1, SMTT(40)
        <4>4. CASE q # p
          BY <2>4, <3>1, <4>2, <4>4
        <4> QED
          BY <4>3, <4>4
      <3> QED
        BY <2>2, <3>2, <3>4 DEF Top
    <2>8. Ranked(new, s, n + 1, best)
      BY <2>2, <2>4, <2>6, <2>7 DEF Ranked
    <2> QED
      BY <1>1, <1>6, <2>3, <2>8 DEF new, e
  <1>7. CASE ~(v > heap[p].rank)
    <2>1. HeapOf(heap, n + 1)
      BY <1>2, <1>5 DEF HeapOf
    <2>2. f \in [1..K -> 1..(n + 1)]
      BY <1>3
    <2>3. Places(f, heap, s, n + 1)
      BY <1>2, <1>3, <2>2 DEF Places
    <2>4. ASSUME best
          PROVE  Top(f, heap, s, n + 1)
      <3>1. /\ \A q \in 1..K : heap[q].rank = Score[s[f[q]]]
            /\ \A i \in 1..n : (\A q \in 1..K : f[q] # i) =>
                 \A q \in 1..K : Score[s[i]] <= Score[s[f[q]]]
        BY <1>2, <1>3, <2>4 DEF Top
      <3>2. ASSUME NEW i \in 1..(n + 1), \A q \in 1..K : f[q] # i, NEW q \in 1..K
            PROVE  Score[s[i]] <= Score[s[f[q]]]
        <4>1. CASE i = n + 1
          <5>1. Score[s[i]] = v /\ heap[p].rank <= heap[q].rank
            BY <1>2, <2>4, <4>1
          <5> QED
            BY <1>2, <1>7, <3>1, <5>1, SMTT(40)
        <4>2. CASE i # n + 1
          BY <3>1, <3>2, <4>2
        <4> QED
          BY <4>1, <4>2
      <3> QED
        BY <1>2, <3>1, <3>2 DEF Top
    <2>5. Ranked(heap, s, n + 1, best)
      BY <1>2, <2>2, <2>3, <2>4 DEF Ranked
    <2> QED
      BY <1>1, <1>7, <2>1, <2>5 DEF e
  <1> QED
    BY <1>6, <1>7

\* addressHeap.rank keeps the best of the addresses it has seen.
LEMMA InsertKeeps ==
    ASSUME NEW s \in Seq(Address), NEW n \in Nat, n + 1 <= Len(s),
           NEW heap, HeapOf(heap, n), NEW best \in BOOLEAN, Ranked(heap, s, n, best),
           NEW v \in Nat, best => v = Score[s[n + 1]],
           NEW new \in Insert(heap, [addr |-> s[n + 1], rank |-> v])
    PROVE  HeapOf(new, n + 1) /\ Ranked(new, s, n + 1, best)
  <1> DEFINE e == [addr |-> s[n + 1], rank |-> v]
  <1>1. Len(heap) < K <=> n < K
    BY ScoreTypes DEF HeapOf
  <1>2. CASE n < K
    <2>1. new = Append(heap, e)
      BY <1>1, <1>2 DEF Insert
    <2> QED
      BY <1>2, <2>1, AppendKeeps
  <1>3. CASE ~(n < K)
    <2>1. PICK p \in DOMAIN heap :
              /\ \A q \in DOMAIN heap : heap[p].rank <= heap[q].rank
              /\ new = IF e.rank > heap[p].rank THEN [heap EXCEPT ![p] = e] ELSE heap
      BY <1>1, <1>3 DEF Insert
    <2> QED
      BY <1>3, <2>1, ReplaceKeeps
  <1> QED
    BY <1>2, <1>3

Better(A, a) == { b \in A : Score[b] > Score[a] }

\* The elements of A for which there is room if each of them is there m times.
BestOf(A, m) == { a \in A : m * Cardinality(Better(A, a)) < K }

LEMMA AddrsOfHeap ==
    ASSUME NEW s \in Seq(Address), NEW n \in Nat, n <= Len(s),
           NEW heap, HeapOf(heap, n), NEW best, Ranked(heap, s, n, best)
    PROVE  /\ Addrs(heap) \in Seq(Address) /\ ToSet(Addrs(heap)) \subseteq ToSet(s)
           /\ AllDistinct(s) => AllDistinct(Addrs(heap))
  <1> DEFINE k == Len(heap)
             t == Addrs(heap)
  <1>1. heap \in Seq(Entry) /\ k \in Nat /\ DOMAIN heap = 1..k
    BY DEF HeapOf
  <1>2. PICK f \in [1..k -> 1..n] : Places(f, heap, s, n)
    BY DEF Ranked
  <1>3. t = [p \in 1..k |-> heap[p].addr]
    BY <1>1 DEF Addrs
  <1> HIDE DEF t
  <1>4. \A p \in 1..k : t[p] = s[f[p]] /\ f[p] \in DOMAIN s
    BY <1>2, <1>3 DEF Places
  <1>5. DOMAIN t = 1..k
    BY <1>3
  <1> HIDE DEF k
  <1>6. t \in Seq(Address)
    <2>1. \A p \in 1..k : t[p] \in Address
      BY <1>4
    <2>2. t \in [1..k -> Address]
      BY <1>3, <2>1
    <2> QED
      BY <1>1, <2>2
  <1>7. ToSet(t) \subseteq ToSet(s)
    BY <1>4, <1>5 DEF ToSet
  <1>8. ASSUME AllDistinct(s)
        PROVE  AllDistinct(t)
    <2>1. \A p, q \in 1..k : f[p] = f[q] => p = q
      BY <1>2 DEF Places, IsInjective, k
    <2> QED
      BY <1>4, <1>5, <1>8, <2>1 DEF AllDistinct
  <1> QED
    BY <1>6, <1>7, <1>8 DEF t

\* With all addresses ranked, those in the heap are the best.
LEMMA RankedBest ==
    ASSUME NEW s \in Seq(Address), NEW A, NEW m, EachTimes(s, A, m), Len(s) > K,
           NEW heap, HeapOf(heap, Len(s)), Ranked(heap, s, Len(s), TRUE)
    PROVE  ToSet(Addrs(heap)) = BestOf(A, m)
  <1> DEFINE n == Len(s)
             B(a) == PlacesOf(s, Better(A, a))
  <1>1. n \in Nat /\ DOMAIN s = 1..n /\ K \in Nat /\ K > 0 /\ n > K
    BY ScoreTypes
  <1>2. Len(heap) = K /\ DOMAIN heap = 1..K
    <2>1. heap \in Seq(Entry) /\ Len(heap) = IF n < K THEN n ELSE K
      BY DEF HeapOf
    <2> HIDE DEF n
    <2>2. Len(heap) = K
      BY <1>1, <2>1
    <2> QED
      BY <2>1, <2>2
  <1>3. PICK f \in [1..K -> 1..n] : Places(f, heap, s, n) /\ Top(f, heap, s, n)
    BY <1>2 DEF Ranked
  <1> HIDE DEF n
  <1>4. /\ \A p \in 1..K : f[p] \in 1..n /\ Addrs(heap)[p] = s[f[p]]
        /\ DOMAIN Addrs(heap) = 1..K
        /\ \A p, q \in 1..K : f[p] = f[q] => p = q
    BY <1>2, <1>3 DEF Places, Addrs, IsInjective
  <1>5. \A q \in 1..n : (\A p \in 1..K : f[p] # q) =>
           \A p \in 1..K : Score[s[q]] <= Score[s[f[p]]]
    BY <1>2, <1>3 DEF Top
  <1>6. /\ A = ToSet(s) /\ A \subseteq Address
        /\ \A q \in 1..n : s[q] \in A /\ Score[s[q]] \in Nat
    <2>1. A = ToSet(s) /\ \A q \in 1..n : s[q] \in A /\ s[q] \in Address
      BY <1>1 DEF EachTimes, ToSet
    <2> QED
      BY <2>1, ScoreTypes DEF ToSet
  <1>7. ASSUME NEW a
        PROVE  /\ IsFiniteSet(B(a)) /\ Cardinality(B(a)) = m * Cardinality(Better(A, a))
               /\ Cardinality(B(a)) \in Nat
               /\ \A q \in 1..n : q \in B(a) <=> Score[s[q]] > Score[a]
    <2>1. Better(A, a) \in SUBSET A
      BY DEF Better
    <2>2. IsFiniteSet(B(a)) /\ Cardinality(B(a)) \in Nat
      BY PlacesFinite
    <2>3. Cardinality(B(a)) = m * Cardinality(Better(A, a))
      BY <2>1 DEF EachTimes
    <2> QED
      BY <1>1, <1>6, <2>2, <2>3 DEF PlacesOf, Better
  <1>8. B(s[1]) \subseteq 1..n /\ \A a : B(a) \subseteq 1..n
    BY <1>1 DEF PlacesOf
  <1> HIDE DEF B
  <1> DEFINE R == { f[p] : p \in 1..K }
  <1>9. IsFiniteSet(R) /\ Cardinality(R) = K
    <2>1. IsFiniteSet(1..K) /\ Cardinality(1..K) = K
      <3>1. IsFiniteSet(1..K) /\ Cardinality(1..K) = IF 1 > K THEN 0 ELSE K - 1 + 1
        BY <1>1, FS_Interval
      <3> QED
        BY <1>1, <3>1
    <2>2. f \in [1..K -> R] /\ \A t \in R : \E p \in 1..K : f[p] = t
      BY <1>3
    <2>3. \A p, q \in 1..K : f[p] = f[q] => p = q
      BY <1>4
    <2> DEFINE D == 1..K
    <2> HIDE DEF R, D
    <2>4. IsFiniteSet(R) /\ Cardinality(R) = Cardinality(D)
      BY <2>1, <2>2, <2>3, AsMany DEF D
    <2> QED
      BY <2>1, <2>4 DEF D
  <1>10. ASSUME NEW p \in 1..K
         PROVE  s[f[p]] \in BestOf(A, m)
    <2> DEFINE a == s[f[p]]
    <2>1. B(a) \subseteq R \ { f[p] }
      <3>1. ASSUME NEW q \in B(a)
            PROVE  q \in R \ { f[p] }
        <4>1. q \in 1..n /\ Score[s[q]] > Score[a]
          BY <1>7, <1>8
        <4>2. Score[a] \in Nat /\ Score[s[q]] \in Nat
          BY <1>4, <1>6, <4>1
        <4>3. q # f[p]
          BY <4>1, <4>2
        <4>4. ~(\A j \in 1..K : f[j] # q)
          BY <1>5, <4>1, <4>2
        <4> QED
          BY <4>3, <4>4
      <3> QED
        BY <3>1
    <2>2. IsFiniteSet(R \ { f[p] }) /\ Cardinality(R \ { f[p] }) = K - 1
      <3>1. f[p] \in R
        OBVIOUS
      <3> HIDE DEF R
      <3> QED
        BY <1>9, <3>1, FS_RemoveElement
    <2>3. Cardinality(B(a)) <= K - 1
      <3> HIDE DEF R
      <3> QED
        BY <2>1, <2>2, FS_Subset
    <2>4. Cardinality(B(a)) < K
      BY <1>1, <1>7, <2>3
    <2>5. m * Cardinality(Better(A, a)) < K
      BY <1>7, <2>4
    <2>6. a \in A
      BY <1>4, <1>6
    <2> QED
      BY <2>5, <2>6 DEF BestOf
  <1>11. ASSUME NEW a \in A, \A p \in 1..K : s[f[p]] # a
         PROVE  ~(m * Cardinality(Better(A, a)) < K)
    <2>1. PICK q \in 1..n : s[q] = a
      BY <1>1, <1>6 DEF ToSet
    <2>2. \A p \in 1..K : f[p] # q
      BY <1>11, <2>1
    <2>3. ASSUME NEW p \in 1..K
          PROVE  f[p] \in B(a)
      <3>1. Score[a] <= Score[s[f[p]]]
        BY <1>5, <2>1, <2>2
      <3>2. Score[a] # Score[s[f[p]]]
        <4>1. s[f[p]] \in Address /\ a \in Address /\ s[f[p]] # a
          BY <1>4, <1>6, <1>11
        <4> QED
          BY <4>1, ScoreTypes
      <3>3. Score[a] \in Nat /\ Score[s[f[p]]] \in Nat
        BY <1>4, <1>6, <2>1
      <3>4. Score[s[f[p]]] > Score[a]
        BY <3>1, <3>2, <3>3
      <3> QED
        BY <1>4, <1>7, <3>4
    <2>4. R \subseteq B(a)
      BY <2>3
    <2>5. K <= Cardinality(B(a))
      <3> HIDE DEF R
      <3> QED
        BY <1>7, <1>9, <2>4, FS_Subset
    <2> QED
      BY <1>1, <1>7, <2>5
  <1>12. ToSet(Addrs(heap)) = { s[f[p]] : p \in 1..K }
    BY <1>4 DEF ToSet
  <1> QED
    BY <1>10, <1>11, <1>12 DEF BestOf

\* If there is room for all addresses, all of them are among the best.
LEMMA FewBest ==
    ASSUME NEW s \in Seq(Address), NEW A, NEW m, EachTimes(s, A, m), Len(s) <= K
    PROVE  A = BestOf(A, m)
  <1> DEFINE n == Len(s)
  <1>1. n \in Nat /\ DOMAIN s = 1..n /\ K \in Nat /\ n <= K
    BY ScoreTypes
  <1> HIDE DEF n
  <1>2. ASSUME NEW a \in A
        PROVE  m * Cardinality(Better(A, a)) < K
    <2> DEFINE B == PlacesOf(s, Better(A, a))
    <2>1. PICK q \in 1..n : s[q] = a
      BY <1>1 DEF EachTimes, ToSet
    <2>2. Cardinality(B) = m * Cardinality(Better(A, a))
      <3>1. Better(A, a) \in SUBSET A
        BY DEF Better
      <3> QED
        BY <3>1 DEF EachTimes
    <2>3. a \in Address
      BY <1>1, <2>1
    <2>4. B \subseteq (1..n) \ { q }
      <3>1. ~(Score[a] > Score[a])
        BY <2>3, ScoreTypes
      <3> QED
        BY <1>1, <2>1, <3>1 DEF PlacesOf, Better
    <2> HIDE DEF B
    <2>5. IsFiniteSet((1..n) \ { q }) /\ Cardinality((1..n) \ { q }) = n - 1
      <3>1. IsFiniteSet(1..n) /\ Cardinality(1..n) = IF 1 > n THEN 0 ELSE n - 1 + 1
        BY <1>1, FS_Interval
      <3>2. Cardinality(1..n) = n
        BY <1>1, <3>1
      <3> QED
        BY <3>1, <3>2, FS_RemoveElement
    <2>6. Cardinality(B) <= n - 1 /\ Cardinality(B) \in Nat
      <3> DEFINE D == (1..n) \ { q }
      <3>1. IsFiniteSet(D) /\ Cardinality(D) = n - 1 /\ B \subseteq D
        BY <2>4, <2>5
      <3> HIDE DEF D
      <3>2. IsFiniteSet(B) /\ Cardinality(B) <= Cardinality(D)
        BY <3>1, FS_Subset
      <3> QED
        BY <3>1, <3>2, FS_CardinalityType
    <2>7. Cardinality(B) < K
      BY <1>1, <2>6
    <2> QED
      BY <2>2, <2>7
  <1> QED
    BY <1>2 DEF BestOf

-----------------------------------------------------------------------------
(* What is reported.                                                       *)

Counted(count) == { a \in Address : count[a] > 0 }

\* ReplicatedEnough, of one report.
EnoughCounted(count) ==
    \A a \in Counted(count) :
        LET times == count[a]
            distinct == Cardinality(Counted(count))
        IN  /\ \A b \in Counted(count) : count[b] = times
            /\ times * distinct >= MinConns
            /\ times > 1 => times * distinct < 2 * MinConns

CountOf(s) == [a \in Address |-> Copies(s, a)]

LEMMA CountTypes ==
    ASSUME NEW s \in Seq(Address)
    PROVE  CountOf(s) \in [Address -> Nat] /\ Counted(CountOf(s)) = ToSet(s)
  <1>1. ASSUME NEW a \in Address
        PROVE  /\ Copies(s, a) = Cardinality(PlacesOf(s, { a })) /\ Copies(s, a) \in Nat
               /\ Copies(s, a) > 0 <=> a \in ToSet(s)
    <2>1. Copies(s, a) = Cardinality(PlacesOf(s, { a }))
      <3>1. PlacesOf(s, { a }) = { n \in DOMAIN s : s[n] = a }
        BY DEF PlacesOf
      <3> QED
        BY <3>1 DEF Copies
    <2>2. /\ IsFiniteSet(PlacesOf(s, { a })) /\ Cardinality(PlacesOf(s, { a })) \in Nat
      BY PlacesFinite
    <2>3. Cardinality(PlacesOf(s, { a })) = 0 <=> PlacesOf(s, { a }) = {}
      BY <2>2, FS_EmptySet
    <2>4. PlacesOf(s, { a }) = {} <=> a \notin ToSet(s)
      BY DEF PlacesOf, ToSet
    <2>5. Copies(s, a) \in Nat /\ (Copies(s, a) = 0 <=> a \notin ToSet(s))
      BY <2>1, <2>2, <2>3, <2>4, Zenon
    <2>6. Copies(s, a) > 0 <=> Copies(s, a) # 0
      BY <2>5
    <2> QED
      BY <2>1, <2>5, <2>6
  <1>2. ToSet(s) \subseteq Address
    BY DEF ToSet
  <1>3. \A a \in Address : CountOf(s)[a] = Copies(s, a)
    BY DEF CountOf
  <1>4. CountOf(s) \in [Address -> Nat]
    BY <1>1 DEF CountOf
  <1> QED
    BY <1>1, <1>2, <1>3, <1>4 DEF Counted

\* minConnsReceiver.OnResolve reports enough addresses, but not too many.
LEMMA ReplicatedIsEnough ==
    ASSUME NEW s \in Seq(Address), AllDistinct(s)
    PROVE  /\ Replicate(s) \in Seq(Address) /\ ToSet(Replicate(s)) = ToSet(s)
           /\ EnoughCounted(CountOf(Replicate(s)))
  <1> DEFINE t == Replicate(s)
             n == Cardinality(ToSet(s))
             m == TimesOf(n)
  <1>1. CASE s = << >>
    <2>1. t = << >> /\ ToSet(s) = {}
      BY <1>1 DEF Replicate, ToSet
    <2>2. t \in Seq(Address)
      BY <2>1
    <2>3. Counted(CountOf(t)) = {}
      BY <1>1, <2>1, <2>2, CountTypes
    <2> QED
      BY <1>1, <2>1, <2>2, <2>3 DEF EnoughCounted
  <1>2. CASE s # << >>
    <2>1. EachTimes(t, ToSet(s), m) /\ m \in Nat /\ m > 0
      BY <1>2, ReplicateEach
    <2>2. t \in Seq(Address) /\ ToSet(t) = ToSet(s)
      BY <2>1 DEF EachTimes
    <2>3. Counted(CountOf(t)) = ToSet(s)
      BY <2>2, CountTypes
    <2>4. n \in Nat /\ n > 0
      <3>1. n = Len(s)
        BY DistinctOnce
      <3>2. Len(s) \in Nat /\ Len(s) # 0
        BY <1>2, EmptySeq
      <3> QED
        BY <3>1, <3>2
    <2>5. ASSUME NEW a \in ToSet(s)
          PROVE  CountOf(t)[a] = m
      <3>1. { a } \in SUBSET ToSet(s) /\ Cardinality({ a }) = 1 /\ a \in Address
        <4>1. Cardinality({ a }) = 1
          BY FS_Singleton
        <4>2. a \in Address
          BY DEF ToSet
        <4> QED
          BY <4>1, <4>2
      <3>2. Cardinality(PlacesOf(t, { a })) = m * Cardinality({ a })
        BY <2>1, <3>1 DEF EachTimes
      <3>3. PlacesOf(t, { a }) = { i \in DOMAIN t : t[i] = a }
        BY DEF PlacesOf
      <3> HIDE DEF m, t
      <3>4. Cardinality(PlacesOf(t, { a })) = m
        BY <2>1, <3>1, <3>2
      <3>5. Copies(t, a) = Cardinality(PlacesOf(t, { a }))
        BY <3>3 DEF Copies
      <3>6. CountOf(t)[a] = Copies(t, a)
        BY <3>1 DEF CountOf
      <3> QED
        BY <3>4, <3>5, <3>6
    <2>6. m * n >= MinConns /\ (m > 1 => m * n < 2 * MinConns)
      <3> HIDE DEF n
      <3>1. CASE n >= MinConns
        <4>1. m = 1
          BY <2>4, <3>1, ScoreTypes DEF TimesOf
        <4> HIDE DEF m
        <4> QED
          BY <2>4, <3>1, <4>1, ScoreTypes
      <3>2. CASE n < MinConns
        <4>1. m = Multiplier(n) /\ n \in 1..(MinConns - 1)
          BY <2>4, <3>2, ScoreTypes DEF TimesOf
        <4> HIDE DEF m
        <4>2. n * m >= MinConns /\ n * m < 2 * MinConns
          BY <4>1, MultiplierJustEnough
        <4>3. n * m = m * n
          BY <2>1, <2>4
        <4> QED
          BY <4>2, <4>3
      <3> QED
        BY <2>4, <3>1, <3>2, ScoreTypes
    <2> HIDE DEF t, m
    <2>7. EnoughCounted(CountOf(t))
      BY <2>3, <2>5, <2>6 DEF EnoughCounted
    <2> QED
      BY <2>2, <2>7 DEF t
  <1> QED
    BY <1>1, <1>2

-----------------------------------------------------------------------------
(* The invariant.                                                          *)

Phases == { "idle", "reset", "key", "address", "sum" }

AddressTypeInv ==
    /\ phase \in [Receivers -> Phases]
    /\ found \in [Receivers -> SUBSET Address]
    /\ lookup \in [Receivers -> SUBSET Address]
    /\ addrs \in [Receivers -> Seq(Address)]
    /\ chosen \in [Receivers -> Seq(Entry)]
    /\ ranked \in [Receivers -> Nat]
    /\ reported \in [Receivers -> [Address -> Nat]]

\* No receiver shares the hash.
Alone == \E r \in Receivers : Receivers = { r }

\* While a receiver ranks, its list has every accepted address equally often,
\* and its heap has as many of those ranked so far as there is room for: the
\* best of them, if nobody else uses the hash.
RankInv(r) ==
    phase[r] # "idle" =>
        /\ EachTimes(addrs[r], AcceptedOf(found[r]), CopiesOf(found[r]))
        /\ subsetFirst => AllDistinct(addrs[r])
        /\ Len(addrs[r]) > K
        /\ ranked[r] < Len(addrs[r])
        /\ HeapOf(chosen[r], ranked[r])
        /\ Ranked(chosen[r], addrs[r], ranked[r], Alone)

IdleInv(r) == phase[r] = "idle" => chosen[r] = << >> /\ ranked[r] = 0

\* What the hash has been fed, if nobody else uses it.
HashInv(r) ==
    Alone =>
        /\ phase[r] = "key" => hash = EmptyHash
        /\ phase[r] = "address" => hash = HashOf(Key)
        /\ phase[r] = "sum" => hash = HashOf(Key \o Text[addrs[r][ranked[r] + 1]])

\* What was reported last.
ReportInv(r) ==
    /\ subsetFirst => EnoughCounted(reported[r])
    /\ Alone => Counted(reported[r]) = BestOf(AcceptedOf(lookup[r]), CopiesOf(lookup[r]))

ReceiverInv(r) == RankInv(r) /\ IdleInv(r) /\ HashInv(r) /\ ReportInv(r)

AddressInv ==
    /\ AddressTypeInv /\ subsetFirst \in BOOLEAN
    /\ \A r \in Receivers : ReceiverInv(r)

LEMMA AddressInvInit == AddressesInit => AddressInv
  <1> SUFFICES ASSUME AddressesInit
               PROVE  AddressInv
    OBVIOUS
  <1>1. AddressTypeInv
    BY DEF AddressesInit, AddressTypeInv, Phases
  <1>2. ASSUME NEW r \in Receivers
        PROVE  ReceiverInv(r)
    <2>1. /\ phase[r] = "idle" /\ chosen[r] = << >> /\ ranked[r] = 0 /\ lookup[r] = {}
          /\ reported[r] = [a \in Address |-> 0]
      BY <1>2 DEF AddressesInit
    <2>2. RankInv(r) /\ IdleInv(r) /\ HashInv(r)
      BY <2>1 DEF RankInv, IdleInv, HashInv
    <2>3. Counted(reported[r]) = {}
      BY <2>1 DEF Counted
    <2>4. \A m : BestOf(AcceptedOf({}), m) = {}
      BY DEF BestOf, AcceptedOf
    <2>5. ReportInv(r)
      BY <2>1, <2>3, <2>4 DEF ReportInv, EnoughCounted
    <2> QED
      BY <2>2, <2>5 DEF ReceiverInv
  <1> QED
    BY <1>1, <1>2 DEF AddressInv, AddressesInit

\* The policy and the order of the decorators never change.
LEMMA ConfigStays ==
    ASSUME UNCHANGED configVars
    PROVE  /\ \A S : AcceptedOf(S)' = AcceptedOf(S)
           /\ \A S : CopiesOf(S)' = CopiesOf(S)
           /\ subsetFirst' = subsetFirst
  <1>1. policy' = policy /\ subsetFirst' = subsetFirst
    BY DEF configVars
  <1>2. Required' = Required /\ Matching' = Matching
    BY <1>1 DEF Required, Matching
  <1>3. \A S : AcceptedOf(S)' = AcceptedOf(S)
    BY <1>2 DEF AcceptedOf
  <1>4. \A S : CopiesOf(S)' = CopiesOf(S)
    BY <1>1, <1>3 DEF CopiesOf
  <1> QED
    BY <1>1, <1>3, <1>4

\* A step of another receiver.  (If there is another, the hash is shared.)
LEMMA OthersKeep ==
    ASSUME NEW r \in Receivers, NEW q \in Receivers, q # r, ReceiverInv(q),
           UNCHANGED configVars,
           UNCHANGED << phase[q], found[q], addrs[q], chosen[q], ranked[q],
                        lookup[q], reported[q] >>
    PROVE  ReceiverInv(q)'
  <1>1. ~Alone
    BY DEF Alone
  <1>2. /\ \A S : AcceptedOf(S)' = AcceptedOf(S)
        /\ \A S : CopiesOf(S)' = CopiesOf(S)
        /\ subsetFirst' = subsetFirst
    BY ConfigStays
  <1>3. AcceptedOf(found[q])' = AcceptedOf(found[q]) /\ CopiesOf(found[q])' = CopiesOf(found[q])
    BY <1>2
  <1>4. RankInv(q)'
    BY <1>2, <1>3 DEF ReceiverInv, RankInv
  <1>5. IdleInv(q)'
    BY DEF ReceiverInv, IdleInv
  <1>6. HashInv(q)'
    BY <1>1 DEF HashInv
  <1>7. ReportInv(q)'
    BY <1>1, <1>2 DEF ReceiverInv, ReportInv
  <1> QED
    BY <1>4, <1>5, <1>6, <1>7 DEF ReceiverInv

\* The calls of the hash's methods.
LEMMA FeedKeeps ==
    ASSUME AddressInv, NEW r \in Receivers, NEW from \in Phases \ { "idle" },
           NEW to \in Phases \ { "idle" }, NEW h, Feed(r, from, to, h),
           Alone =>
             /\ to = "key" => h = EmptyHash
             /\ to = "address" => h = HashOf(Key)
             /\ to = "sum" => h = HashOf(Key \o Text[addrs[r][ranked[r] + 1]])
    PROVE  AddressInv'
  <1>1. /\ phase[r] = from /\ phase' = [phase EXCEPT ![r] = to] /\ hash' = h
        /\ UNCHANGED << configVars, found, addrs, chosen, ranked, lookup, reported >>
    BY DEF Feed
  <1>2. AddressTypeInv
    BY DEF AddressInv
  <1>3. phase'[r] = to /\ \A q \in Receivers : q # r => phase'[q] = phase[q]
    BY <1>1, <1>2 DEF AddressTypeInv
  <1>4. AddressTypeInv'
    BY <1>1, <1>2 DEF AddressTypeInv
  <1>5. ReceiverInv(r) /\ subsetFirst \in BOOLEAN
    BY DEF AddressInv
  <1>6. /\ \A S : AcceptedOf(S)' = AcceptedOf(S)
        /\ \A S : CopiesOf(S)' = CopiesOf(S)
        /\ subsetFirst' = subsetFirst
    BY <1>1, ConfigStays
  <1>7. RankInv(r)'
    BY <1>1, <1>3, <1>5, <1>6 DEF ReceiverInv, RankInv
  <1>8. IdleInv(r)'
    BY <1>3 DEF IdleInv
  <1>9. HashInv(r)'
    BY <1>1, <1>3 DEF HashInv
  <1>10. ReportInv(r)'
    BY <1>1, <1>5, <1>6 DEF ReceiverInv, ReportInv
  <1>11. ReceiverInv(r)'
    BY <1>7, <1>8, <1>9, <1>10 DEF ReceiverInv
  <1>12. ASSUME NEW q \in Receivers, q # r
         PROVE  ReceiverInv(q)'
    <2>1. ReceiverInv(q) /\ UNCHANGED configVars
      BY <1>1 DEF AddressInv
    <2>2. UNCHANGED << phase[q], found[q], addrs[q], chosen[q], ranked[q],
                       lookup[q], reported[q] >>
      BY <1>1, <1>3, <1>12
    <2> QED
      BY <1>12, <2>1, <2>2, OthersKeep
  <1> QED
    BY <1>4, <1>5, <1>6, <1>11, <1>12 DEF AddressInv

\* A report.
LEMMA DeliverKeeps ==
    ASSUME AddressInv, NEW r \in Receivers, NEW s \in Seq(Address), Deliver(r, s),
           UNCHANGED << configVars, hash >>,
           NEW S \in SUBSET Address, found' = [found EXCEPT ![r] = S],
           subsetFirst => AllDistinct(s),
           Alone => ToSet(s) = BestOf(AcceptedOf(S), CopiesOf(S))
    PROVE  AddressInv'
  <1> DEFINE t == IF subsetFirst THEN Replicate(s) ELSE s
  <1>1. t \in Seq(Address) /\ ToSet(t) = ToSet(s)
    <2>1. subsetFirst => Replicate(s) \in Seq(Address) /\ ToSet(Replicate(s)) = ToSet(s)
      BY ReplicatedIsEnough
    <2> QED
      BY <2>1
  <1>2. subsetFirst => EnoughCounted(CountOf(t))
    BY ReplicatedIsEnough
  <1>3. CountOf(t) \in [Address -> Nat] /\ Counted(CountOf(t)) = ToSet(s)
    BY <1>1, CountTypes
  <1>4. AddressTypeInv
    BY DEF AddressInv
  <1>5. /\ reported' = [reported EXCEPT ![r] = CountOf(t)]
        /\ lookup' = [lookup EXCEPT ![r] = found'[r]]
        /\ phase' = [phase EXCEPT ![r] = "idle"]
        /\ addrs' = [addrs EXCEPT ![r] = << >>]
        /\ chosen' = [chosen EXCEPT ![r] = << >>]
        /\ ranked' = [ranked EXCEPT ![r] = 0]
    BY DEF Deliver, CountOf
  <1> HIDE DEF t
  <1>6. /\ found'[r] = S /\ lookup'[r] = S /\ reported'[r] = CountOf(t)
        /\ phase'[r] = "idle" /\ chosen'[r] = << >> /\ ranked'[r] = 0
    BY <1>4, <1>5 DEF AddressTypeInv
  <1>7. AddressTypeInv'
    <2>1. found' \in [Receivers -> SUBSET Address] /\ lookup' \in [Receivers -> SUBSET Address]
      BY <1>4, <1>5, <1>6 DEF AddressTypeInv
    <2>2. reported' \in [Receivers -> [Address -> Nat]]
      BY <1>3, <1>4, <1>5 DEF AddressTypeInv
    <2>3. phase' \in [Receivers -> Phases] /\ ranked' \in [Receivers -> Nat]
      BY <1>4, <1>5 DEF AddressTypeInv, Phases
    <2>4. addrs' \in [Receivers -> Seq(Address)] /\ chosen' \in [Receivers -> Seq(Entry)]
      BY <1>4, <1>5 DEF AddressTypeInv
    <2> QED
      BY <2>1, <2>2, <2>3, <2>4 DEF AddressTypeInv
  <1>8. /\ \A X : AcceptedOf(X)' = AcceptedOf(X)
        /\ \A X : CopiesOf(X)' = CopiesOf(X)
        /\ subsetFirst' = subsetFirst
    BY ConfigStays
  <1>9. AcceptedOf(lookup[r])' = AcceptedOf(S) /\ CopiesOf(lookup[r])' = CopiesOf(S)
    BY <1>6, <1>8
  <1>10. RankInv(r)' /\ IdleInv(r)' /\ HashInv(r)'
    BY <1>6 DEF RankInv, IdleInv, HashInv
  <1>11. ReportInv(r)'
    BY <1>2, <1>3, <1>6, <1>8, <1>9 DEF ReportInv
  <1>12. ReceiverInv(r)'
    BY <1>10, <1>11 DEF ReceiverInv
  <1>13. ASSUME NEW q \in Receivers, q # r
         PROVE  ReceiverInv(q)'
    <2>1. ReceiverInv(q) /\ UNCHANGED configVars
      BY DEF AddressInv
    <2>2. UNCHANGED << phase[q], found[q], addrs[q], chosen[q], ranked[q],
                       lookup[q], reported[q] >>
      BY <1>4, <1>5, <1>13 DEF AddressTypeInv
    <2> QED
      BY <1>13, <2>1, <2>2, OthersKeep
  <1> QED
    BY <1>7, <1>8, <1>12, <1>13 DEF AddressInv

\* A lookup: the result is reported at once, or has to be ranked.
LEMMA ResolveKeeps ==
    ASSUME AddressInv, NEW r \in Receivers, NEW s \in SetToAllKPermutations(Address),
           ResolveOnce(r, s)
    PROVE  AddressInv'
  <1> DEFINE S == ToSet(s)
             p == ApplyPolicy(s)
             result == IF subsetFirst THEN p ELSE Replicate(p)
  <1>1. /\ s \in Seq(Address) /\ AllDistinct(s)
        /\ phase[r] = "idle"
        /\ Required => ToSet(s) \subseteq Matching
        /\ found' = [found EXCEPT ![r] = S]
        /\ UNCHANGED << configVars, hash >>
        /\ \/ Len(result) <= K /\ Deliver(r, result)
           \/ /\ Len(result) > K
              /\ addrs' = [addrs EXCEPT ![r] = result]
              /\ phase' = [phase EXCEPT ![r] = "reset"]
              /\ UNCHANGED << chosen, ranked, lookup, reported >>
    BY FoundDistinct DEF ResolveOnce
  <1>2. p \in Seq(Address) /\ AllDistinct(p) /\ ToSet(p) = AcceptedOf(S)
    BY <1>1, PolicyAccepts
  <1>3. S \in SUBSET Address
    BY <1>1 DEF ToSet
  <1>4. AddressTypeInv /\ ReceiverInv(r) /\ subsetFirst \in BOOLEAN
    BY DEF AddressInv
  <1> HIDE DEF S, p
  <1>5. /\ result \in Seq(Address) /\ ToSet(result) = AcceptedOf(S)
        /\ subsetFirst => AllDistinct(result)
    <2>1. Replicate(p) \in Seq(Address) /\ ToSet(Replicate(p)) = ToSet(p)
      BY <1>2, ReplicatedIsEnough
    <2> QED
      BY <1>2, <2>1
  <1>6. p # << >> => EachTimes(result, AcceptedOf(S), CopiesOf(S))
    <2>1. EachTimes(p, AcceptedOf(S), 1)
      BY <1>2, EachOnce
    <2>2. p # << >> => EachTimes(Replicate(p), AcceptedOf(S), TimesOf(Cardinality(AcceptedOf(S))))
      BY <1>2, ReplicateEach
    <2> QED
      BY <1>4, <2>1, <2>2 DEF CopiesOf
  <1>7. p = << >> => result = << >>
    BY SMTT(40) DEF Replicate
  <1> HIDE DEF result
  <1>8. CASE Len(result) <= K /\ Deliver(r, result)
    <2>1. ToSet(result) = BestOf(AcceptedOf(S), CopiesOf(S))
      <3>1. CASE p # << >>
        BY <1>5, <1>6, <1>8, <3>1, FewBest
      <3>2. CASE p = << >>
        <4>1. AcceptedOf(S) = {}
          BY <1>5, <1>7, <3>2 DEF ToSet
        <4> QED
          BY <1>5, <4>1 DEF BestOf
      <3> QED
        BY <3>1, <3>2
    <2> QED
      BY <1>1, <1>3, <1>5, <1>8, <2>1, DeliverKeeps
  <1>9. CASE /\ Len(result) > K
             /\ addrs' = [addrs EXCEPT ![r] = result]
             /\ phase' = [phase EXCEPT ![r] = "reset"]
             /\ UNCHANGED << chosen, ranked, lookup, reported >>
    <2>1. p # << >>
      <3>1. Len(<< >>) = 0
        OBVIOUS
      <3> QED
        BY <1>7, <1>9, <3>1, ScoreTypes
    <2>2. /\ found'[r] = S /\ addrs'[r] = result /\ phase'[r] = "reset"
          /\ chosen'[r] = << >> /\ ranked'[r] = 0
      BY <1>1, <1>4, <1>9 DEF AddressTypeInv, ReceiverInv, IdleInv
    <2>3. /\ \A X : AcceptedOf(X)' = AcceptedOf(X)
          /\ \A X : CopiesOf(X)' = CopiesOf(X)
          /\ subsetFirst' = subsetFirst
      BY <1>1, ConfigStays
    <2>4. AcceptedOf(found[r])' = AcceptedOf(S) /\ CopiesOf(found[r])' = CopiesOf(S)
      BY <2>2, <2>3
    <2>5. HeapOf(<< >>, 0) /\ Ranked(<< >>, result, 0, Alone)
      <3>1. HeapOf(<< >>, 0)
        BY ScoreTypes DEF HeapOf
      <3>2. Len(<< >>) = 0
        OBVIOUS
      <3> DEFINE f == [i \in 1..0 |-> i]
      <3>3. f \in [1..0 -> 1..0] /\ IsInjective(f) /\ \A i \in 1..0 : FALSE
        BY DEF IsInjective
      <3> HIDE DEF f
      <3>4. Places(f, << >>, result, 0) /\ Top(f, << >>, result, 0)
        BY <3>2, <3>3 DEF Places, Top
      <3> QED
        BY <3>1, <3>2, <3>3, <3>4 DEF Ranked
    <2>6. Len(result) \in Nat /\ 0 < Len(result) /\ Len(result) > K
      BY <1>5, <1>9, ScoreTypes
    <2>7. RankInv(r)'
      <3>1. EachTimes(result, AcceptedOf(S), CopiesOf(S))
        BY <1>6, <2>1
      <3> HIDE DEF EachTimes
      <3> QED
        BY <1>5, <2>2, <2>3, <2>4, <2>5, <2>6, <3>1 DEF RankInv
    <2>8. IdleInv(r)' /\ HashInv(r)'
      BY <2>2 DEF IdleInv, HashInv
    <2>9. ReportInv(r)'
      BY <1>4, <1>9, <2>3 DEF ReceiverInv, ReportInv
    <2>10. ReceiverInv(r)'
      BY <2>7, <2>8, <2>9 DEF ReceiverInv
    <2>11. ASSUME NEW q \in Receivers, q # r
           PROVE  ReceiverInv(q)'
      <3>1. ReceiverInv(q) /\ UNCHANGED configVars
        BY <1>1 DEF AddressInv
      <3>2. UNCHANGED << phase[q], found[q], addrs[q], chosen[q], ranked[q],
                         lookup[q], reported[q] >>
        BY <1>1, <1>4, <1>9, <2>11 DEF AddressTypeInv
      <3> QED
        BY <2>11, <3>1, <3>2, OthersKeep
    <2>12. AddressTypeInv'
      BY <1>1, <1>3, <1>4, <1>5, <1>9 DEF AddressTypeInv, Phases
    <2> QED
      BY <1>4, <2>3, <2>10, <2>11, <2>12 DEF AddressInv
  <1> QED
    BY <1>1, <1>8, <1>9

LEMMA SumsAreNumbers ==
    ASSUME NEW h
    PROVE  Sums(h) \subseteq Nat
  BY ScoreTypes DEF Sums

\* The end of a turn of the ranking loop.
LEMMA SumKeeps ==
    ASSUME AddressInv, NEW r \in Receivers, Sum32(r)
    PROVE  AddressInv'
  <1> DEFINE s == addrs[r]
             n == ranked[r]
             a == s[n + 1]
  <1>1. AddressTypeInv /\ ReceiverInv(r) /\ subsetFirst \in BOOLEAN /\ phase[r] = "sum"
    BY DEF AddressInv, Sum32
  <1>2. UNCHANGED configVars /\ UNCHANGED hash /\ UNCHANGED found
    BY DEF Sum32
  <1>3. /\ EachTimes(s, AcceptedOf(found[r]), CopiesOf(found[r]))
        /\ subsetFirst => AllDistinct(s)
        /\ Len(s) > K /\ n < Len(s)
        /\ HeapOf(chosen[r], n) /\ Ranked(chosen[r], s, n, Alone)
        /\ Alone => hash = HashOf(Key \o Text[a])
    BY <1>1 DEF ReceiverInv, RankInv, HashInv
  <1>4. s \in Seq(Address) /\ n \in Nat /\ found[r] \in SUBSET Address
    BY <1>1 DEF AddressTypeInv
  <1>5. PICK v \in Sums(hash) :
          \E heap \in Insert(chosen[r], [addr |-> a, rank |-> v]) :
            \/ /\ n + 1 < Len(s)
               /\ chosen' = [chosen EXCEPT ![r] = heap]
               /\ ranked' = [ranked EXCEPT ![r] = @ + 1]
               /\ phase' = [phase EXCEPT ![r] = "reset"]
               /\ UNCHANGED << addrs, lookup, reported >>
            \/ /\ n + 1 = Len(s)
               /\ Deliver(r, Addrs(heap))
    BY DEF Sum32
  <1>6. PICK heap \in Insert(chosen[r], [addr |-> a, rank |-> v]) :
            \/ /\ n + 1 < Len(s)
               /\ chosen' = [chosen EXCEPT ![r] = heap]
               /\ ranked' = [ranked EXCEPT ![r] = @ + 1]
               /\ phase' = [phase EXCEPT ![r] = "reset"]
               /\ UNCHANGED << addrs, lookup, reported >>
            \/ /\ n + 1 = Len(s)
               /\ Deliver(r, Addrs(heap))
    BY <1>5
  <1>7. Alone \in BOOLEAN
    BY DEF Alone
  <1>8. n + 1 \in 1..Len(s) /\ a \in Address
    <2>1. Len(s) \in Nat /\ \A i \in 1..Len(s) : s[i] \in Address
      BY <1>4
    <2>2. n + 1 \in 1..Len(s)
      BY <1>3, <1>4, <2>1
    <2> QED
      BY <2>1, <2>2
  <1> HIDE DEF s, n
  <1>9. v \in Nat /\ (Alone => v = Score[a])
    <2>1. v \in Nat
      BY SumsAreNumbers
    <2>2. Alone => Sums(hash) = { Score[a] }
      <3> HIDE DEF a
      <3> QED
        BY <1>3, <1>8, SumIsScore
    <2> QED
      BY <1>5, <2>1, <2>2
  <1>10. HeapOf(heap, n + 1) /\ Ranked(heap, s, n + 1, Alone)
    <2>1. n + 1 <= Len(s)
      BY <1>8
    <2> QED
      BY <1>3, <1>4, <1>6, <1>7, <1>9, <2>1, InsertKeeps
  <1>11. CASE /\ n + 1 < Len(s)
              /\ chosen' = [chosen EXCEPT ![r] = heap]
              /\ ranked' = [ranked EXCEPT ![r] = @ + 1]
              /\ phase' = [phase EXCEPT ![r] = "reset"]
              /\ UNCHANGED << addrs, lookup, reported >>
    <2>1. /\ chosen'[r] = heap /\ ranked'[r] = n + 1 /\ phase'[r] = "reset"
          /\ addrs'[r] = s /\ found'[r] = found[r]
      BY <1>1, <1>2, <1>11 DEF AddressTypeInv, n, s
    <2>2. heap \in Seq(Entry) /\ n + 1 \in Nat
      BY <1>4, <1>10 DEF HeapOf
    <2>3. AddressTypeInv'
      BY <1>1, <1>2, <1>4, <1>11, <2>2 DEF AddressTypeInv, Phases, n
    <2>4. /\ \A X : AcceptedOf(X)' = AcceptedOf(X)
          /\ \A X : CopiesOf(X)' = CopiesOf(X)
          /\ subsetFirst' = subsetFirst
      BY <1>2, ConfigStays
    <2>5. /\ AcceptedOf(found[r])' = AcceptedOf(found[r])
          /\ CopiesOf(found[r])' = CopiesOf(found[r])
      BY <2>1, <2>4
    <2>6. RankInv(r)'
      BY <1>3, <1>10, <1>11, <2>1, <2>4, <2>5 DEF RankInv
    <2>7. IdleInv(r)' /\ HashInv(r)'
      BY <2>1 DEF IdleInv, HashInv
    <2>8. ReportInv(r)'
      BY <1>1, <1>11, <2>4 DEF ReceiverInv, ReportInv
    <2>9. ReceiverInv(r)'
      BY <2>6, <2>7, <2>8 DEF ReceiverInv
    <2>10. ASSUME NEW q \in Receivers, q # r
           PROVE  ReceiverInv(q)'
      <3>1. ReceiverInv(q)
        BY DEF AddressInv
      <3>2. UNCHANGED << phase[q], found[q], addrs[q], chosen[q], ranked[q],
                         lookup[q], reported[q] >>
        BY <1>1, <1>2, <1>11, <2>10 DEF AddressTypeInv
      <3> QED
        BY <1>2, <2>10, <3>1, <3>2, OthersKeep
    <2> QED
      BY <1>1, <2>3, <2>4, <2>9, <2>10 DEF AddressInv
  <1>12. CASE n + 1 = Len(s) /\ Deliver(r, Addrs(heap))
    <2>1. HeapOf(heap, Len(s)) /\ Ranked(heap, s, Len(s), Alone) /\ Len(s) \in Nat
      BY <1>4, <1>10, <1>12
    <2>2. Addrs(heap) \in Seq(Address) /\ (AllDistinct(s) => AllDistinct(Addrs(heap)))
      BY <1>4, <2>1, AddrsOfHeap
    <2>3. Alone => ToSet(Addrs(heap)) = BestOf(AcceptedOf(found[r]), CopiesOf(found[r]))
      <3>1. ASSUME Alone
            PROVE  Ranked(heap, s, Len(s), TRUE)
        BY <2>1, <3>1 DEF Ranked
      <3> QED
        BY <1>3, <1>4, <2>1, <3>1, RankedBest
    <2>4. found' = [found EXCEPT ![r] = found[r]]
      BY <1>1, <1>2 DEF AddressTypeInv
    <2>5. UNCHANGED << configVars, hash >>
      BY <1>2
    <2> QED
      BY <1>3, <1>4, <1>12, <2>2, <2>3, <2>4, <2>5, DeliverKeeps
  <1> QED
    BY <1>6, <1>11, <1>12

LEMMA AddressInvStep ==
    ASSUME AddressInv, [AddressesNext]_addressVars
    PROVE  AddressInv'
  <1>1. CASE UNCHANGED addressVars
    <2>1. /\ UNCHANGED configVars /\ UNCHANGED hash /\ UNCHANGED phase /\ UNCHANGED found
          /\ UNCHANGED addrs /\ UNCHANGED chosen /\ UNCHANGED ranked
          /\ UNCHANGED lookup /\ UNCHANGED reported
      BY <1>1 DEF addressVars, taskVars
    <2>2. /\ \A S : AcceptedOf(S)' = AcceptedOf(S)
          /\ \A S : CopiesOf(S)' = CopiesOf(S)
          /\ subsetFirst' = subsetFirst
      BY <2>1, ConfigStays
    <2>3. AddressTypeInv'
      BY <2>1 DEF AddressInv, AddressTypeInv
    <2>4. ASSUME NEW r \in Receivers
          PROVE  ReceiverInv(r)'
      <3>1. ReceiverInv(r)
        BY DEF AddressInv
      <3>2. RankInv(r)'
        BY <2>1, <2>2, <3>1 DEF ReceiverInv, RankInv
      <3>3. IdleInv(r)' /\ HashInv(r)'
        BY <2>1, <3>1 DEF ReceiverInv, IdleInv, HashInv
      <3>4. ReportInv(r)'
        BY <2>1, <2>2, <3>1 DEF ReceiverInv, ReportInv
      <3> QED
        BY <3>2, <3>3, <3>4 DEF ReceiverInv
    <2> QED
      BY <2>2, <2>3, <2>4 DEF AddressInv
  <1>2. ASSUME NEW r \in Receivers, NEW s \in SetToAllKPermutations(Address), ResolveOnce(r, s)
        PROVE  AddressInv'
    BY <1>2, ResolveKeeps
  <1>3. ASSUME NEW r \in Receivers, Reset(r)
        PROVE  AddressInv'
    <2>1. Feed(r, "reset", "key", EmptyHash)
      BY <1>3 DEF Reset
    <2> QED
      BY <2>1, FeedKeeps DEF Phases
  <1>4. ASSUME NEW r \in Receivers, WriteKey(r)
        PROVE  AddressInv'
    <2>1. Feed(r, "key", "address", Write(hash, Key)) /\ phase[r] = "key"
      BY <1>4 DEF WriteKey, Feed
    <2>2. Alone => hash = EmptyHash
      BY <2>1 DEF AddressInv, ReceiverInv, HashInv
    <2>3. Alone => Write(hash, Key) = HashOf(Key)
      <3>1. Key \in Bytes /\ << >> \o Key = Key
        BY AddressesAssumption, ConcatEmptySeq DEF Bytes
      <3>2. Write(EmptyHash, Key) = HashOf(Key)
        BY <3>1, HashOfNothing, WriteInPieces
      <3> QED
        BY <2>2, <3>2
    <2> QED
      BY <2>1, <2>3, FeedKeeps DEF Phases
  <1>5. ASSUME NEW r \in Receivers, WriteAddress(r)
        PROVE  AddressInv'
    <2> DEFINE s == addrs[r]
               n == ranked[r]
               a == s[n + 1]
    <2>1. Feed(r, "address", "sum", Write(hash, Text[a])) /\ phase[r] = "address"
      BY <1>5 DEF WriteAddress, Feed
    <2>2. (Alone => hash = HashOf(Key)) /\ n < Len(s) /\ s \in Seq(Address) /\ n \in Nat
      BY <2>1 DEF AddressInv, AddressTypeInv, ReceiverInv, HashInv, RankInv
    <2>3. a \in Address
      <3> HIDE DEF s, n
      <3>1. Len(s) \in Nat /\ \A i \in 1..Len(s) : s[i] \in Address
        BY <2>2
      <3>2. n + 1 \in 1..Len(s)
        BY <2>2, <3>1
      <3> QED
        BY <3>1, <3>2
    <2>4. Alone => Write(hash, Text[a]) = HashOf(Key \o Text[a])
      <3> HIDE DEF a
      <3> QED
        BY <2>2, <2>3, SumIsScore
    <2> QED
      BY <2>1, <2>4, FeedKeeps DEF Phases
  <1>6. ASSUME NEW r \in Receivers, Sum32(r)
        PROVE  AddressInv'
    BY <1>6, SumKeeps
  <1> QED
    BY <1>1, <1>2, <1>3, <1>4, <1>5, <1>6 DEF AddressesNext

LEMMA AddressInvAlways == AddressesSpec => []AddressInv
  <1>1. AddressInv /\ [AddressesNext]_addressVars => AddressInv'
    BY AddressInvStep
  <1> QED
    BY <1>1, AddressInvInit, PTL DEF AddressesSpec

\* However many receivers share the hash, and whatever it makes of that, and
\* in either order of the decorators: MinConnections reports enough addresses,
\* less than twice the minimum if it repeats any, and all equally often.
THEOREM AlwaysReplicatedEnough == AddressesSpec => []ReplicatedEnough
  <1>1. AddressInv => ReplicatedEnough
    <2> SUFFICES ASSUME AddressInv, NEW r \in Receivers, subsetFirst,
                        NEW a \in Reported(r)
                 PROVE  LET times == reported[r][a]
                            distinct == Cardinality(Reported(r))
                        IN  /\ \A b \in Reported(r) : reported[r][b] = times
                            /\ times * distinct >= MinConns
                            /\ times > 1 => times * distinct < 2 * MinConns
      BY DEF ReplicatedEnough
    <2>1. EnoughCounted(reported[r])
      BY DEF AddressInv, ReceiverInv, ReportInv
    <2>2. Counted(reported[r]) = Reported(r)
      BY DEF Counted, Reported
    <2> QED
      BY <2>1, <2>2 DEF EnoughCounted
  <1> QED
    BY <1>1, AddressInvAlways, PTL

\* With the hash to itself, a receiver reports exactly the accepted addresses
\* with the highest scores, for all addresses, keys, scores, sizes, and orders
\* in which the addresses are found.
THEOREM SubsetAlwaysBest ==
    ASSUME Alone
    PROVE  AddressesSpec => []SubsetBest
  <1>1. AddressInv => SubsetBest
    <2> SUFFICES ASSUME AddressInv, NEW r \in Receivers
                 PROVE  LET few == Cardinality(Accepted(r)) < MinConns
                            copies == IF few /\ ~subsetFirst
                                      THEN Multiplier(Cardinality(Accepted(r))) ELSE 1
                            Above(a) == { b \in Accepted(r) : Score[b] > Score[a] }
                        IN  Reported(r) =
                              { a \in Accepted(r) : copies * Cardinality(Above(a)) < K }
      BY DEF SubsetBest
    <2>1. Counted(reported[r]) = BestOf(AcceptedOf(lookup[r]), CopiesOf(lookup[r]))
      BY DEF AddressInv, ReceiverInv, ReportInv
    <2>2. Counted(reported[r]) = Reported(r) /\ AcceptedOf(lookup[r]) = Accepted(r)
      BY DEF Counted, Reported, AcceptedOf, Accepted
    <2>3. CopiesOf(lookup[r]) =
            IF Cardinality(Accepted(r)) < MinConns /\ ~subsetFirst
            THEN Multiplier(Cardinality(Accepted(r))) ELSE 1
      BY <2>2 DEF CopiesOf, TimesOf
    <2> QED
      BY <2>1, <2>2, <2>3 DEF BestOf, Better
  <1> QED
    BY <1>1, AddressInvAlways, PTL

===============================================================================
