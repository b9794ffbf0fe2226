------------------------------ MODULE DataLemmas ------------------------------
(***************************************************************************)
(* What the other proofs need of natural numbers, loops and finite sets.   *)
(*                                                                         *)
(* Induction is stated about the set of the numbers that have a property:  *)
(* a set is a value, and a lemma about every set can be instantiated where *)
(* one about every predicate cannot.                                       *)
(***************************************************************************)
EXTENDS Lists, WellFoundedInduction, FiniteSetTheorems, SequenceTheorems, TLAPS

\* A set of natural numbers that is not empty has a least element.
LEMMA LeastNatural ==
    ASSUME NEW S \in SUBSET Nat, S # {}
    PROVE  \E n \in S : \A m \in S : n <= m
<1>1. IsWellFoundedOn(OpToRel(<, Nat), Nat)
  BY NatLessThanWellFounded
<1>2. PICK n \in S : \A m \in S : ~(<< m, n >> \in OpToRel(<, Nat))
  <2>1. S \subseteq Nat
    OBVIOUS
  <2> QED
    BY <1>1, <2>1, WFMin
<1>3. \A m \in S : ~(m < n)
  BY <1>2 DEF OpToRel
<1> QED
  BY <1>3

\* Induction: a set that holds 0 and the successor of every number it holds
\* has all natural numbers ...
LEMMA NatSetInduction ==
    ASSUME NEW S, 0 \in S, \A n \in Nat : n \in S => n + 1 \in S
    PROVE  Nat \subseteq S
<1>1. SUFFICES ASSUME NEW k \in Nat, k \notin S
               PROVE  FALSE
  OBVIOUS
<1> DEFINE T == { n \in Nat : n \notin S }
<1>2. PICK n \in T : \A m \in T : n <= m
  <2>1. T \in SUBSET Nat /\ T # {}
    BY <1>1
  <2> HIDE DEF T
  <2> QED
    BY <2>1, LeastNatural
<1>3. n - 1 \in Nat
  BY <1>2
<1>4. n - 1 \in S
  BY <1>2, <1>3
<1> QED
  BY <1>2, <1>3, <1>4

\* ... and up to a bound.
LEMMA UpToInduction ==
    ASSUME NEW N \in Nat, NEW S, 0 \in S,
           \A n \in 0..(N - 1) : n \in S => n + 1 \in S
    PROVE  0..N \subseteq S
<1> DEFINE T == { n \in Nat : n <= N => n \in S }
<1>1. 0 \in T
  OBVIOUS
<1>2. ASSUME NEW n \in Nat, n \in T
      PROVE  n + 1 \in T
  BY <1>2
<1>3. Nat \subseteq T
  <2> HIDE DEF T
  <2> QED
    BY <1>1, <1>2, NatSetInduction
<1> QED
  BY <1>3

LEMMA Halves ==
    ASSUME NEW n \in Nat
    PROVE  /\ n \div 2 \in Nat /\ n \div 2 <= n
           /\ \A m \in 0..n : m \div 2 <= n \div 2
  OBVIOUS

\* F is the body of a loop with N turns: turn n makes x into F[<< n, x >>].
StaysIn(S, N, F) == \A n \in 0..(N - 1), x \in S : F[<< n, x >>] \in S

IsHistory(at, b, N, F) ==
    /\ at[0] = b
    /\ \A n \in 0..(N - 1) : at[n + 1] = F[<< n, at[n] >>]

\* A loop has a history: the values before and after each turn.
LEMMA LoopHasHistory ==
    ASSUME NEW S, NEW b \in S, NEW N \in Nat, NEW F, StaysIn(S, N, F)
    PROVE  \E at \in [0..N -> S] : IsHistory(at, b, N, F)
<1> USE DEF StaysIn, IsHistory
<1> DEFINE Part(n) == { g \in [0..n -> S] :
                          /\ g[0] = b
                          /\ \A k \in 0..(n - 1) : g[k + 1] = F[<< k, g[k] >>] }
           T == { n \in 0..N : Part(n) # {} }
<1>1. 0 \in T
  <2>1. [k \in 0..0 |-> b] \in Part(0)
    OBVIOUS
  <2> QED
    BY <2>1
<1>2. ASSUME NEW n \in 0..(N - 1), n \in T
      PROVE  n + 1 \in T
  <2>1. PICK g : g \in Part(n)
    BY <1>2
  <2> DEFINE h == [k \in 0..(n + 1) |-> IF k = n + 1 THEN F[<< n, g[n] >>] ELSE g[k]]
  <2>2. g[n] \in S /\ F[<< n, g[n] >>] \in S
    BY <2>1
  <2>3. h \in [0..(n + 1) -> S]
    BY <2>1, <2>2
  <2>4. h[0] = b
    BY <2>1
  <2>5. ASSUME NEW k \in 0..((n + 1) - 1)
        PROVE  h[k + 1] = F[<< k, h[k] >>]
    <3>1. k \in 0..(n + 1) /\ k + 1 \in 0..(n + 1) /\ k # n + 1
      OBVIOUS
    <3>2. h[k] = g[k] /\ h[k + 1] = (IF k = n THEN F[<< n, g[n] >>] ELSE g[k + 1])
      BY <3>1
    <3>3. k # n => g[k + 1] = F[<< k, g[k] >>]
      BY <2>1
    <3> HIDE DEF h
    <3> QED
      BY <3>2, <3>3
  <2>6. h \in Part(n + 1)
    BY <2>3, <2>4, <2>5
  <2>7. n + 1 \in 0..N
    OBVIOUS
  <2> HIDE DEF Part
  <2> QED
    BY <2>6, <2>7
<1>3. 0..N \subseteq T
  <2> HIDE DEF T
  <2> QED
    BY <1>1, <1>2, UpToInduction
<1>4. PICK g : g \in Part(N)
  <2>1. N \in T
    <3>1. N \in 0..N
      OBVIOUS
    <3> HIDE DEF T
    <3> QED
      BY <1>3, <3>1
  <2>2. Part(N) # {}
    BY <2>1
  <2> QED
    BY <2>2
<1> QED
  BY <1>4

-----------------------------------------------------------------------------
(* Filtering a sequence.                                                   *)

\* The loop of Only, turn by turn.
OnlyHistory(only, s, T) ==
    /\ Only(s, T) = only[Len(s)]
    /\ only[0] = << >>
    /\ \A n \in 0..(Len(s) - 1) : only[n + 1] =
          IF s[n + 1] \in T THEN Append(only[n], s[n + 1]) ELSE only[n]

LEMMA OnlyUnfolds ==
    ASSUME NEW S, NEW s \in Seq(S), NEW T
    PROVE  \E only \in [0..Len(s) -> Seq(S)] : OnlyHistory(only, s, T)
<1> DEFINE N == Len(s)
           Q == Seq(S)
           b == << >>
           Turn(n, t) == IF s[n + 1] \in T THEN Append(t, s[n + 1]) ELSE t
           F == [x \in (0..(N - 1)) \X Q |-> Turn(x[1], x[2])]
           Loop(f) == f = [n \in 0..N |-> IF n = 0 THEN b ELSE
                             IF s[n] \in T THEN Append(f[n - 1], s[n]) ELSE f[n - 1]]
           only == CHOOSE f : Loop(f)
<1>1. N \in Nat /\ (\A n \in 1..N : s[n] \in S) /\ b \in Q
  OBVIOUS
<1>2. ASSUME NEW n \in 0..(N - 1), NEW t \in Q
      PROVE  Turn(n, t) \in Q
  <2>1. n + 1 \in 1..N /\ s[n + 1] \in S
    BY <1>1
  <2> QED
    BY <2>1, AppendProperties
<1>3. \A f : Loop(f) <=>
          f = [n \in 0..N |-> IF n = 0 THEN b ELSE Turn(n - 1, f[n - 1])]
  <2>1. \A n \in 0..N : (n - 1) + 1 = n
    BY <1>1
  <2>2. \A n \in 0..N : s[(n - 1) + 1] = s[n]
    BY <2>1
  <2> QED
    BY <2>2, Zenon
<1>4. Only(s, T) = only[N]
  BY DEF Only
<1> HIDE DEF b, Q, N, Turn, Loop
<1>5. \A n \in 0..(N - 1), t \in Q : F[<< n, t >>] = Turn(n, t)
  OBVIOUS
<1>6. StaysIn(Q, N, F)
  BY <1>2, <1>5 DEF StaysIn
<1> HIDE DEF F
<1>7. PICK f \in [0..N -> Q] : IsHistory(f, b, N, F)
  BY <1>1, <1>6, LoopHasHistory
<1>8. Loop(f)
  <2>1. ASSUME NEW n \in 0..N, n # 0
        PROVE  f[n] = Turn(n - 1, f[n - 1])
    <3>1. n - 1 \in 0..(N - 1) /\ (n - 1) + 1 = n /\ n - 1 \in 0..N
      BY <1>1, <2>1
    <3>2. f[n - 1] \in Q /\ f[n] = F[<< n - 1, f[n - 1] >>]
      BY <1>7, <3>1 DEF IsHistory
    <3> QED
      BY <1>5, <3>1, <3>2
  <2>2. \A n \in 0..N : f[n] = IF n = 0 THEN b ELSE Turn(n - 1, f[n - 1])
    BY <1>7, <2>1 DEF IsHistory
  <2>3. f = [n \in 0..N |-> IF n = 0 THEN b ELSE Turn(n - 1, f[n - 1])]
    BY <1>7, <2>2
  <2> QED
    BY <1>3, <2>3
<1>9. Loop(only)
  BY <1>8
<1> HIDE DEF only
<1>10. only = [n \in 0..N |-> IF n = 0 THEN b ELSE Turn(n - 1, only[n - 1])]
  BY <1>3, <1>9
<1>11. only[0] = b
  BY <1>1, <1>10
<1>12. ASSUME NEW n \in 0..(N - 1)
       PROVE  only[n + 1] = Turn(n, only[n])
  <2>1. n + 1 \in 0..N /\ n + 1 # 0 /\ (n + 1) - 1 = n
    BY <1>1
  <2> QED
    BY <1>10, <2>1
<1>13. \A n \in 0..N : only[n] \in Q
  <2> DEFINE E == { n \in 0..N : only[n] \in Q }
  <2>1. 0 \in E
    BY <1>1, <1>11
  <2>2. ASSUME NEW n \in 0..(N - 1), n \in E
        PROVE  n + 1 \in E
    <3>1. Turn(n, only[n]) \in Q /\ n + 1 \in 0..N
      BY <1>1, <1>2, <2>2
    <3> QED
      BY <1>12, <3>1
  <2>3. 0..N \subseteq E
    <3> HIDE DEF E
    <3> QED
      BY <1>1, <2>1, <2>2, UpToInduction
  <2> QED
    BY <2>3
<1>14. only \in [0..N -> Q]
  <2>1. only = [n \in 0..N |-> only[n]]
    BY <1>10
  <2> QED
    BY <1>13, <2>1
<1> QED
  BY <1>4, <1>11, <1>12, <1>14 DEF OnlyHistory, N, b, Q, Turn

HasElement(s, x) == \E p \in DOMAIN s : s[p] = x

AllDistinct(s) == \A p, q \in DOMAIN s : s[p] = s[q] => p = q

\* Only keeps exactly the elements in T, no element twice that was not there
\* twice before, and everything if everything is in T.
LEMMA OnlyKeeps ==
    ASSUME NEW S, NEW s \in Seq(S), NEW T
    PROVE  /\ Only(s, T) \in Seq(S)
           /\ \A x : HasElement(Only(s, T), x) <=> x \in T /\ HasElement(s, x)
           /\ AllDistinct(s) => AllDistinct(Only(s, T))
           /\ (\A p \in DOMAIN s : s[p] \in T) => Only(s, T) = s
<1> DEFINE N == Len(s)
           Distinct == \A p, q \in DOMAIN s : s[p] = s[q] => p = q
           All == \A p \in DOMAIN s : s[p] \in T
           Good(n, t) ==
             /\ \A x : (\E p \in DOMAIN t : t[p] = x)
                         <=> x \in T /\ \E p \in 1..n : s[p] = x
             /\ Distinct => \A p, q \in DOMAIN t : t[p] = t[q] => p = q
             /\ All => Len(t) = n /\ \A p \in 1..n : t[p] = s[p]
<1>1. N \in Nat /\ DOMAIN s = 1..N /\ \A n \in 1..N : s[n] \in S
  OBVIOUS
<1>2. PICK only \in [0..N -> Seq(S)] :
          /\ Only(s, T) = only[N]
          /\ only[0] = << >>
          /\ \A n \in 0..(N - 1) : only[n + 1] =
               IF s[n + 1] \in T THEN Append(only[n], s[n + 1]) ELSE only[n]
  <2>1. PICK only \in [0..Len(s) -> Seq(S)] : OnlyHistory(only, s, T)
    BY OnlyUnfolds
  <2> QED
    BY <2>1 DEF OnlyHistory
<1>3. Good(0, only[0])
  BY <1>2
<1>4. ASSUME NEW n \in 0..(N - 1), Good(n, only[n])
      PROVE  Good(n + 1, only[n + 1])
  <2> DEFINE t == only[n]
             e == s[n + 1]
             u == only[n + 1]
  <2>1. t \in Seq(S) /\ e \in S /\ n + 1 \in 1..N /\ n \in Nat
    BY <1>1, <1>2
  <2>2. \A p \in 1..(n + 1) : p \in 1..n \/ p = n + 1
    BY <2>1
  <2>3. CASE e \in T
    <3>1. u = Append(t, e)
      BY <1>2, <2>3
    <3> HIDE DEF t, e, u
    <3>2. /\ DOMAIN t = 1..Len(t) /\ DOMAIN u = 1..(Len(t) + 1) /\ Len(u) = Len(t) + 1
          /\ Len(t) \in Nat
          /\ \A p \in 1..Len(t) : u[p] = t[p]
          /\ u[Len(t) + 1] = e
      BY <2>1, <3>1
    <3>3. \A p \in 1..(Len(t) + 1) : p \in 1..Len(t) \/ p = Len(t) + 1
      BY <3>2
    <3>4. ASSUME NEW x
          PROVE  (\E p \in DOMAIN u : u[p] = x)
                   <=> x \in T /\ \E p \in 1..(n + 1) : s[p] = x
      <4>1. (\E p \in DOMAIN u : u[p] = x) <=> x = e \/ \E p \in DOMAIN t : t[p] = x
        BY <3>2, <3>3, SMTT(40)
      <4>2. (\E p \in 1..(n + 1) : s[p] = x) <=> x = e \/ \E p \in 1..n : s[p] = x
        BY <2>1, <2>2 DEF e
      <4> QED
        BY <1>4, <2>3, <4>1, <4>2 DEF t
    <3>5. ASSUME Distinct, NEW p \in DOMAIN u, NEW q \in DOMAIN u, u[p] = u[q]
          PROVE  p = q
      <4>1. \A r \in DOMAIN t : t[r] # e
        <5>1. \A r \in 1..n : s[r] # e
          BY <1>1, <2>1, <3>5, SMTT(40) DEF e
        <5> QED
          BY <1>4, <5>1 DEF t
      <4>2. \A p1, q1 \in DOMAIN t : t[p1] = t[q1] => p1 = q1
        BY <1>4, <3>5 DEF t
      <4> QED
        BY <3>2, <3>3, <3>5, <4>1, <4>2
    <3>6. ASSUME All
          PROVE  Len(u) = n + 1 /\ \A p \in 1..(n + 1) : u[p] = s[p]
      <4>1. Len(t) = n /\ \A p \in 1..n : t[p] = s[p]
        BY <1>4, <3>6 DEF t
      <4> QED
        BY <2>2, <3>2, <4>1 DEF e
    <3> HIDE DEF Distinct, All
    <3>7. Good(n + 1, u)
      BY <3>4, <3>5, <3>6
    <3> QED
      BY <3>7 DEF u
  <2>4. CASE e \notin T
    <3>1. u = t
      BY <1>2, <2>4
    <3>2. n + 1 \in DOMAIN s
      BY <1>1, <2>1
    <3>3. ~All
      BY <2>4, <3>2
    <3> HIDE DEF t, e, u, All
    <3>4. \A x \in T : (\E p \in 1..(n + 1) : s[p] = x) <=> (\E p \in 1..n : s[p] = x)
      BY <2>1, <2>2, <2>4 DEF e
    <3>5. Good(n + 1, u)
      BY <1>4, <3>1, <3>3, <3>4 DEF t
    <3> QED
      BY <3>5 DEF u
  <2> QED
    BY <2>3, <2>4
<1>5. Good(N, only[N])
  <2> DEFINE E == { n \in 0..N : Good(n, only[n]) }
  <2> HIDE DEF Good, N
  <2>1. 0 \in E
    BY <1>1, <1>3
  <2>2. ASSUME NEW n \in 0..(N - 1), n \in E
        PROVE  n + 1 \in E
    <3>1. n + 1 \in 0..N
      BY <1>1
    <3>2. Good(n + 1, only[n + 1])
      BY <1>4, <2>2
    <3> QED
      BY <3>1, <3>2
  <2>3. 0..N \subseteq E
    <3> HIDE DEF E
    <3> QED
      BY <1>1, <2>1, <2>2, UpToInduction
  <2>4. N \in 0..N
    BY <1>1
  <2> QED
    BY <2>3, <2>4
<1>6. All => Only(s, T) = s
  <2>1. ASSUME All
        PROVE  only[N] = s
    <3>1. only[N] \in Seq(S) /\ Len(only[N]) = N /\ \A p \in 1..N : only[N][p] = s[p]
      BY <1>1, <1>2, <1>5, <2>1
    <3> QED
      BY <3>1, SeqEqual
  <2> QED
    BY <1>2, <2>1
<1> DEFINE r == Only(s, T)
<1>7. r \in Seq(S) /\ Good(N, r) /\ (All => r = s)
  <2>1. r = only[N] /\ N \in 0..N
    BY <1>1, <1>2
  <2> HIDE DEF Good, All, N, r
  <2> QED
    BY <1>2, <1>5, <1>6, <2>1 DEF r
<1> HIDE DEF N, r
<1>8. \A x : (\E p \in DOMAIN r : r[p] = x) <=> x \in T /\ \E p \in DOMAIN s : s[p] = x
  BY <1>1, <1>7
<1>9. Distinct => \A p, q \in DOMAIN r : r[p] = r[q] => p = q
  BY <1>7
<1> QED
  BY <1>7, <1>8, <1>9 DEF r, HasElement, AllDistinct

=============================================================================
