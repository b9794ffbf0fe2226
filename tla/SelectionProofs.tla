---------------------------- MODULE SelectionProofs ----------------------------
(***************************************************************************)
(* Proofs about the steps by which a request comes to its connection:      *)
(*   - what the balancer's loop over the health states selects, for any    *)
(*     finite set of connections, and that this is the same as a           *)
(*     definition that does not follow the loop;                           *)
(*   - the polling health checker, for all thresholds: changes are earned, *)
(*     enough probes always decide, and the balancer is informed;          *)
(*   - the pickers that work without a lock, for any connections and       *)
(*     requests: replacing a power-of-two picker loses no load, and a      *)
(*     round-robin picker gives every connection its turn.                 *)
(***************************************************************************)
EXTENDS Mixes, PollingChecker, AtomicPickers, FiniteSetTheorems, TLAPS

-----------------------------------------------------------------------------
(* Usable connections.                                                     *)

\* The connections in better states than s.
Better(mix, s) == { c \in DOMAIN mix : mix[c] < s }

\* A larger set of connections is enough when a smaller one is.
LEMMA MoreIsEnough ==
    ASSUME NEW S, IsFiniteSet(S), NEW A \in SUBSET S, NEW B \in SUBSET S, A \subseteq B
    PROVE  /\ Cardinality(A) \in Nat /\ Cardinality(B) \in Nat
           /\ Cardinality(A) <= Cardinality(B)
  <1>1. IsFiniteSet(A) /\ IsFiniteSet(B)
    BY FS_Subset
  <1> QED
    BY <1>1, FS_Subset, FS_CardinalityType

LEMMA MinConnsType ==
    ASSUME NEW mix, IsFiniteSet(DOMAIN mix)
    PROVE  MinConns(mix) \in Nat /\ MinConns(mix) >= 3
  <1>1. Cardinality(DOMAIN mix) \in Nat
    BY FS_CardinalityType
  <1>2. RoundPercent(25, Cardinality(DOMAIN mix)) \in Nat
    BY <1>1 DEF RoundPercent
  <1> QED
    BY <1>2 DEF MinConns

\* A picker gets a connection exactly when it is not unhealthy and fewer than
\* the minimum are in better states.
THEOREM UsableAreTheBest ==
    ASSUME NEW S, IsFiniteSet(S), NEW mix \in [S -> States]
    PROVE  Usable(mix) =
               { c \in S : /\ mix[c] # StateUnhealthy
                           /\ Cardinality(Better(mix, mix[c])) < MinConns(mix) }
  <1> DEFINE H == InState(mix, StateHealthy)
             U == InState(mix, StateUnknown)
             D == InState(mix, StateDegraded)
             min == MinConns(mix)
             Wanted(c) == /\ mix[c] # StateUnhealthy
                          /\ Cardinality(Better(mix, mix[c])) < min
  <1> USE DEF StateHealthy, StateUnknown, StateDegraded, StateUnhealthy
  <1>1. /\ DOMAIN mix = S
        /\ H \subseteq S /\ U \subseteq S /\ D \subseteq S
    BY DEF InState
  <1>2. min \in Nat /\ min >= 3
    BY <1>1, MinConnsType
  <1>3. /\ Cardinality({}) = 0
        /\ Cardinality(H) \in Nat /\ Cardinality(H \cup U) \in Nat
        /\ Cardinality(H) <= Cardinality(H \cup U)
    BY <1>1, MoreIsEnough, FS_EmptySet
  <1>4. /\ \A c \in S : c \in H => Better(mix, mix[c]) = {}
        /\ \A c \in S : c \in U => Better(mix, mix[c]) = H
        /\ \A c \in S : c \in D => Better(mix, mix[c]) = H \cup U
    BY <1>1 DEF Better, InState, States
  <1>5. /\ \A c \in S : mix[c] # StateUnhealthy <=> c \in H \cup U \cup D
        /\ H \cap U = {} /\ H \cap D = {} /\ U \cap D = {}
    BY <1>1 DEF InState, States
  <1>6. ASSUME NEW c \in S
        PROVE  Wanted(c) <=> \/ c \in H
                             \/ c \in U /\ Cardinality(H) < min
                             \/ c \in D /\ Cardinality(H \cup U) < min
    <2> HIDE DEF H, U, D, min
    <2>1. CASE c \in H
      <3>1. Cardinality(Better(mix, mix[c])) = 0
        BY <1>3, <1>4, <2>1
      <3> QED
        BY <1>2, <1>5, <2>1, <3>1
    <2>2. CASE c \in U
      BY <1>4, <1>5, <2>2
    <2>3. CASE c \in D
      BY <1>4, <1>5, <2>3
    <2>4. CASE c \notin H \cup U \cup D
      BY <1>5, <2>4
    <2> QED
      BY <2>1, <2>2, <2>3, <2>4
  <1>7. CollectUsable(mix, {}, StateHealthy) = H
    BY <1>2, <1>3 DEF CollectUsable
  <1>8. CASE Cardinality(H) >= min
    <2>1. Usable(mix) = H
      BY <1>7, <1>8 DEF Usable, CollectUsable
    <2>2. \A c \in S : Wanted(c) <=> c \in H
      <3> HIDE DEF H, U, D, min, Wanted
      <3> QED
        BY <1>2, <1>3, <1>6, <1>8
    <2> QED
      BY <1>1, <2>1, <2>2
  <1>9. CASE ~(Cardinality(H) >= min)
    <2>1. Usable(mix) = IF Cardinality(H \cup U) >= min THEN H \cup U ELSE H \cup U \cup D
      BY <1>7, <1>9 DEF Usable, CollectUsable
    <2>2. \A c \in S : Wanted(c) <=>
              c \in IF Cardinality(H \cup U) >= min THEN H \cup U ELSE H \cup U \cup D
      <3> HIDE DEF H, U, D, min, Wanted
      <3> QED
        BY <1>2, <1>3, <1>6, <1>9
    <2> QED
      BY <1>1, <2>1, <2>2
  <1> QED
    BY <1>8, <1>9

\* A picker fails for want of usable connections only when all are unhealthy.
THEOREM UnusableOnlyIfUnhealthy ==
    ASSUME NEW S, IsFiniteSet(S), NEW mix \in [S -> States], Usable(mix) = {}
    PROVE  \A c \in S : mix[c] = StateUnhealthy
  <1> USE DEF StateHealthy, StateUnknown, StateDegraded, StateUnhealthy
  <1> DEFINE Fit == { c \in S : mix[c] # StateUnhealthy }
  <1>1. SUFFICES ASSUME NEW c \in S, mix[c] # StateUnhealthy
                 PROVE  \E d \in Fit : Better(mix, mix[d]) = {}
    <2>1. MinConns(mix) >= 3 /\ MinConns(mix) \in Nat
      BY MinConnsType
    <2> QED
      BY <1>1, <2>1, UsableAreTheBest, FS_EmptySet
  <1>2. PICK d \in Fit : \A e \in Fit : mix[d] <= mix[e]
    <2>1. CASE \E d \in S : mix[d] = StateHealthy
      BY <2>1 DEF States
    <2>2. CASE (\A d \in S : mix[d] # StateHealthy) /\ \E d \in S : mix[d] = StateUnknown
      BY <2>2 DEF States
    <2>3. CASE \A d \in S : mix[d] # StateHealthy /\ mix[d] # StateUnknown
      BY <1>1, <2>3 DEF States
    <2> QED
      BY <2>1, <2>2, <2>3
  <1>3. Better(mix, mix[d]) = {}
    BY <1>2 DEF Better, States
  <1> QED
    BY <1>2, <1>3

\* The two ways to round a quarter.
LEMMA QuarterRounds ==
    ASSUME NEW n \in Nat
    PROVE  QuarterOf(n) = RoundPercent(25, n)
  <1> DEFINE m == (25 * n + 50) \div 100
  <1>1. m \in Nat /\ 100 * m <= 25 * n + 50 /\ 25 * n + 50 < 100 * (m + 1)
    OBVIOUS
  <1> HIDE DEF m
  <1>2. m \in 0..n /\ 4 * m - 2 <= n /\ n < 4 * m + 2
    BY <1>1
  <1>3. \A k \in 0..n : 4 * k - 2 <= n /\ n < 4 * k + 2 => k = m
    BY <1>2
  <1>4. QuarterOf(n) = m
    BY <1>2, <1>3 DEF QuarterOf
  <1> QED
    BY <1>4 DEF m, RoundPercent

\* The states of the connections, the healthiest first.
LEMMA ViewOfMix ==
    ASSUME count \in [States -> Nat]
    PROVE  /\ Total \in Nat
           /\ CurrentView \in [1..Total -> States]
           /\ \A s \in States : UpTo(s) - count[s] \in Nat
           /\ \A n \in 1..Total, s \in States :
                CurrentView[n] < s <=> n <= UpTo(s) - count[s]
  <1> USE DEF StateHealthy, StateUnknown, StateDegraded, StateUnhealthy
  <1> DEFINE a == count[-1]
             b == count[0]
             c == count[1]
             d == count[2]
             Fits(n, s) == n <= UpTo(s) /\ n > UpTo(s) - count[s]
  <1>1. a \in Nat /\ b \in Nat /\ c \in Nat /\ d \in Nat
    BY DEF States
  <1>2. /\ UpTo(-1) = a /\ UpTo(0) = a + b /\ UpTo(1) = a + b + c /\ UpTo(2) = a + b + c + d
        /\ Total = a + b + c + d
    BY <1>1 DEF UpTo, Total
  <1>3. /\ UpTo(-1) - count[-1] = 0 /\ UpTo(0) - count[0] = a
        /\ UpTo(1) - count[1] = a + b /\ UpTo(2) - count[2] = a + b + c
    BY <1>1, <1>2
  <1> HIDE DEF a, b, c, d
  <1>4. \A s \in States : s \in { -1, 0, 1, 2 }
    BY DEF States
  <1>5. ASSUME NEW n \in 1..Total
        PROVE  /\ CurrentView[n] \in States
               /\ \A s \in States : CurrentView[n] < s <=> n <= UpTo(s) - count[s]
    <2> DEFINE v == CHOOSE s \in States : Fits(n, s)
    <2>1. n \in Nat /\ 1 <= n /\ n <= a + b + c + d
      BY <1>1, <1>2
    <2>2. \E s \in States : Fits(n, s)
      <3>1. CASE n <= a
        BY <1>1, <1>2, <1>3, <2>1, <3>1 DEF States
      <3>2. CASE a < n /\ n <= a + b
        BY <1>1, <1>2, <1>3, <2>1, <3>2 DEF States
      <3>3. CASE a + b < n /\ n <= a + b + c
        BY <1>1, <1>2, <1>3, <2>1, <3>3 DEF States
      <3>4. CASE a + b + c < n
        BY <1>1, <1>2, <1>3, <2>1, <3>4 DEF States
      <3> QED
        BY <1>1, <2>1, <3>1, <3>2, <3>3, <3>4
    <2>3. CurrentView[n] = v
      BY DEF CurrentView
    <2>4. v \in States /\ Fits(n, v)
      BY <2>2
    <2> HIDE DEF v
    <2>5. ASSUME NEW s \in States
          PROVE  v < s <=> n <= UpTo(s) - count[s]
      <3>1. /\ v = -1 => n <= a
            /\ v = 0 => n <= a + b /\ n > a
            /\ v = 1 => n <= a + b + c /\ n > a + b
            /\ v = 2 => n > a + b + c
        BY <1>2, <1>3, <2>4
      <3>2. v \in { -1, 0, 1, 2 } /\ s \in { -1, 0, 1, 2 }
        BY <1>4, <2>4
      <3>3. CASE s = -1
        BY <1>1, <1>3, <2>1, <3>1, <3>2, <3>3
      <3>4. CASE s = 0
        BY <1>1, <1>3, <2>1, <3>1, <3>2, <3>4
      <3>5. CASE s = 1
        BY <1>1, <1>3, <2>1, <3>1, <3>2, <3>5
      <3>6. CASE s = 2
        BY <1>1, <1>3, <2>1, <3>1, <3>2, <3>6
      <3> QED
        BY <3>2, <3>3, <3>4, <3>5, <3>6
    <2> QED
      BY <2>3, <2>4, <2>5
  <1>6. CurrentView \in [1..Total -> States]
    <2>1. CurrentView = [n \in 1..Total |-> CurrentView[n]]
      BY DEF CurrentView
    <2> QED
      BY <1>5, <2>1
  <1>7. \A s \in States : UpTo(s) - count[s] \in Nat
    BY <1>1, <1>3, <1>4
  <1> QED
    BY <1>1, <1>2, <1>5, <1>6, <1>7

\* The numbers of connections in each state stay natural numbers.
LEMMA MixType == MixSpec => [](count \in [States -> Nat])
  <1>1. MixInit => count \in [States -> Nat]
    BY DEF MixInit
  <1>2. count \in [States -> Nat] /\ [MixNext]_count => (count \in [States -> Nat])'
    BY DEF MixNext, Appear, Disappear, Change, States, StateUnknown
  <1> QED
    BY <1>1, <1>2, PTL DEF MixSpec

\* A picker gets a connection exactly when it is not unhealthy and there are
\* fewer than three, or than a quarter, in better states: whatever the mix of
\* states, and however many connections there are.
THEOREM UsableIsAlwaysBestEnough == MixSpec => []UsableIsBestEnough
  <1>1. ASSUME count \in [States -> Nat]
        PROVE  UsableIsBestEnough
    <2> DEFINE v == CurrentView
               N == Total
    <2>1. /\ N \in Nat /\ v \in [1..N -> States]
          /\ \A s \in States : UpTo(s) - count[s] \in Nat
          /\ \A n \in 1..N, s \in States : v[n] < s <=> n <= UpTo(s) - count[s]
      BY <1>1, ViewOfMix
    <2> HIDE DEF v, N
    <2>2. IsFiniteSet(1..N) /\ Cardinality(1..N) = N /\ DOMAIN v = 1..N
      BY <2>1, FS_Interval
    <2>3. MinConns(v) = Enough
      BY <2>1, <2>2, QuarterRounds DEF MinConns, Enough, N
    <2>4. ASSUME NEW n \in 1..N
          PROVE  Cardinality(Better(v, v[n])) = UpTo(v[n]) - count[v[n]]
      <3> DEFINE k == UpTo(v[n]) - count[v[n]]
      <3>1. v[n] \in States /\ k \in Nat
        BY <2>1
      <3>2. ~(n <= k)
        <4>1. v[n] \in Int
          BY <3>1 DEF States, StateHealthy, StateUnknown, StateDegraded, StateUnhealthy
        <4>2. ~(v[n] < v[n])
          BY <4>1
        <4> QED
          BY <2>1, <3>1, <4>2
      <3>3. \A m \in 1..N : v[m] < v[n] <=> m <= k
        BY <2>1, <3>1
      <3> HIDE DEF k
      <3>4. Better(v, v[n]) = 1..k
        BY <2>1, <2>2, <3>1, <3>2, <3>3 DEF Better
      <3>5. Cardinality(1..k) = k
        BY <3>1, FS_Interval
      <3> QED
        BY <3>4, <3>5 DEF k
    <2>5. Usable(v) =
            { n \in 1..N : /\ v[n] # StateUnhealthy
                           /\ Cardinality(Better(v, v[n])) < MinConns(v) }
      BY <2>1, <2>2, UsableAreTheBest
    <2>6. Usable(v) =
            { n \in 1..N : v[n] # StateUnhealthy /\ UpTo(v[n]) - count[v[n]] < Enough }
      BY <2>3, <2>4, <2>5
    <2> QED
      BY <2>6 DEF UsableIsBestEnough, v, N
  <1> QED
    BY <1>1, MixType, PTL

-----------------------------------------------------------------------------
(* The polling checker.                                                    *)

\* One counter serves both directions.  Except before the first probe, it is
\* the length of the current run of probes against the current state.
CounterInv ==
    /\ first => /\ passed = 0 /\ failed = 0 /\ state # StateHealthy
                /\ counter = HealthyThreshold
    /\ ~first /\ state # StateHealthy =>
           counter = passed /\ passed < HealthyThreshold
    /\ state = StateHealthy => counter = failed /\ failed < UnhealthyThreshold

\* A connection that is not healthy takes the latest bad result at once.
ResultInv ==
    /\ failed > 0 => result # StateHealthy
    /\ failed > 0 /\ state # StateHealthy => state = result

ReportInv ==
    /\ pc = "reporting" => result = state
    /\ pc # "reporting" => tracked = state

IInv == TypeOK /\ CounterInv /\ ResultInv /\ ReportInv

LEMMA InitIInv == Init => IInv
  <1> SUFFICES ASSUME Init PROVE IInv
    OBVIOUS
  <1> USE CheckerAssumption
      DEF Init, States, StateHealthy, StateUnknown, StateDegraded, StateUnhealthy
  <1>1. ctxDone \in BOOLEAN /\ first \in BOOLEAN
    BY Zenon
  <1>2. TypeOK
    BY <1>1 DEF TypeOK
  <1>3. CounterInv
    BY DEF CounterInv
  <1>4. ResultInv /\ ReportInv
    BY DEF ResultInv, ReportInv
  <1> QED
    BY <1>2, <1>3, <1>4 DEF IInv

\* What a result does to state and counter: it confirms the side the connection
\* is on, it is one more against that side, or it is the last one needed.
LEMMA JudgeCases ==
    ASSUME TypeOK, NEW newResult \in States, Judge(newResult)
    PROVE  \/ /\ (newResult = StateHealthy) <=> (state = StateHealthy)
              /\ state' = newResult /\ counter' = 0
           \/ /\ newResult = StateHealthy /\ state # StateHealthy
              /\ counter + 1 < HealthyThreshold
              /\ state' = state /\ counter' = counter + 1
           \/ /\ newResult = StateHealthy /\ state # StateHealthy
              /\ counter + 1 >= HealthyThreshold
              /\ state' = newResult /\ counter' = 0
           \/ /\ newResult # StateHealthy /\ state = StateHealthy
              /\ counter + 1 < UnhealthyThreshold
              /\ state' = state /\ counter' = counter + 1
           \/ /\ newResult # StateHealthy /\ state = StateHealthy
              /\ counter + 1 >= UnhealthyThreshold
              /\ state' = newResult /\ counter' = 0
  BY CheckerAssumption DEF TypeOK, Judge, Count

LEMMA ProbeIInv ==
    ASSUME IInv, NEW newResult \in States, Probe(newResult)
    PROVE  IInv'
  <1> USE CheckerAssumption
  <1>a. Judge(newResult)
    BY DEF Probe
  <1>b. /\ result' = newResult /\ first' = FALSE
        /\ newResult = StateHealthy =>
             passed' = CountUpTo(passed, HealthyThreshold) /\ failed' = 0
        /\ newResult # StateHealthy =>
             passed' = 0 /\ failed' = CountUpTo(failed, UnhealthyThreshold)
    BY DEF Probe
  <1>1. TypeOK'
    <2>1. state' \in States /\ counter' \in Nat
      BY <1>a, JudgeCases DEF IInv, TypeOK
    <2>2. passed' \in 0..HealthyThreshold /\ failed' \in 0..UnhealthyThreshold
      BY <1>b DEF IInv, TypeOK, CountUpTo
    <2> QED
      BY <2>1, <2>2 DEF IInv, TypeOK, Probe
  <1>2. CounterInv'
    <2>1. passed \in Nat /\ failed \in Nat /\ counter \in Nat
      BY DEF IInv, TypeOK
    <2>2. CASE first
      <3>1. failed = 0 /\ state # StateHealthy /\ counter = HealthyThreshold
        BY <2>2 DEF IInv, CounterInv
      <3> QED
        BY <1>a, <1>b, <2>1, <3>1, JudgeCases DEF IInv, CounterInv
    <2>3. CASE ~first
      <3>1. /\ state # StateHealthy => counter = passed /\ passed < HealthyThreshold
            /\ state = StateHealthy => counter = failed /\ failed < UnhealthyThreshold
        BY <2>3 DEF IInv, CounterInv
      <3> QED
        BY <1>a, <1>b, <2>1, <3>1, JudgeCases DEF IInv, CounterInv, CountUpTo
    <2> QED
      BY <2>2, <2>3
  <1>3. ResultInv'
    BY <1>a, <1>b, JudgeCases DEF IInv, TypeOK, CounterInv, ResultInv, CountUpTo
  <1>4. ReportInv'
    BY <1>a, JudgeCases DEF IInv, TypeOK, ReportInv, Probe
  <1> QED
    BY <1>1, <1>2, <1>3, <1>4 DEF IInv

LEMMA StepIInv == IInv /\ [Next]_vars => IInv'
  <1> SUFFICES ASSUME IInv, [Next]_vars PROVE IInv'
    OBVIOUS
  <1>1. CASE \E newResult \in States : Probe(newResult)
    BY <1>1, ProbeIInv
  <1> USE DEF IInv, TypeOK, CounterInv, ResultInv, ReportInv, judgeVars
  <1>2. CASE Report
    BY <1>2 DEF Report
  <1>3. CASE SelectTick
    BY <1>3 DEF SelectTick
  <1>4. CASE SelectDone
    BY <1>4 DEF SelectDone
  <1>5. CASE Cancel \/ CallClose \/ AwaitDone
    <2>1. UNCHANGED << pc, state, counter, result, tracked, first, passed, failed >>
      BY <1>5 DEF Cancel, CallClose, AwaitDone
    <2>2. ctxDone' \in BOOLEAN
      BY <1>5 DEF Cancel, CallClose, AwaitDone
    <2>3. closePc' \in { "idle", "waiting", "returned" }
      BY <1>5 DEF Cancel, CallClose, AwaitDone
    <2> QED
      BY <2>1, <2>2, <2>3
  <1>6. CASE UNCHANGED vars
    BY <1>6 DEF vars
  <1> QED
    BY <1>1, <1>2, <1>3, <1>4, <1>5, <1>6 DEF Next, Check

LEMMA IInvAlways == Spec => []IInv
  BY InitIInv, StepIInv, PTL DEF Spec

-----------------------------------------------------------------------------

\* Every variable keeps its type; the counter never runs away.
THEOREM TypeCorrect == Spec => []TypeOK
  <1>1. IInv => TypeOK
    BY DEF IInv
  <1> QED
    BY <1>1, IInvAlways, PTL

\* The threshold of probes in one direction decides, whatever came before.
THEOREM ProbesAlwaysDecide == Spec => []EnoughProbesDecide
  <1>1. IInv => EnoughProbesDecide
    BY CheckerAssumption
       DEF IInv, TypeOK, CounterInv, ResultInv, EnoughProbesDecide
  <1> QED
    BY <1>1, IInvAlways, PTL

\* The balancer's view never drifts from the checker's.
THEOREM BalancerAlwaysInformed == Spec => []BalancerInformed
  <1>1. IInv => BalancerInformed
    BY DEF IInv, ReportInv, BalancerInformed
  <1> QED
    BY <1>1, IInvAlways, PTL

\* No connection changes sides before it earned it, but for the first probe.
THEOREM ChangesAlwaysEarned == Spec => ChangesEarned
  <1> DEFINE Earned ==
        /\ state # StateHealthy /\ state' = StateHealthy
             => first \/ passed' = HealthyThreshold
        /\ state = StateHealthy /\ state' # StateHealthy
             => failed' = UnhealthyThreshold
  <1>1. ASSUME IInv, NEW newResult \in States, Probe(newResult)
        PROVE  Earned
    BY <1>1, CheckerAssumption
       DEF IInv, TypeOK, CounterInv, Probe, Judge, Count, CountUpTo, States,
           StateHealthy, StateUnknown, StateDegraded, StateUnhealthy
  <1>2. IInv /\ [Next]_vars => [Earned]_vars
    <2> SUFFICES ASSUME IInv, Next PROVE Earned
      OBVIOUS
    <2>1. CASE \E newResult \in States : Probe(newResult)
      BY <1>1, <2>1
    <2>2. CASE Report \/ SelectTick \/ SelectDone \/ Cancel \/ CallClose \/ AwaitDone
      BY <2>2 DEF Report, SelectTick, SelectDone, Cancel, CallClose, AwaitDone,
                  judgeVars
    <2> QED
      BY <2>1, <2>2 DEF Next, Check
  <1> QED
    BY <1>2, IInvAlways, PTL DEF Spec, ChangesEarned

-----------------------------------------------------------------------------
(* Power of two.                                                           *)


\* How far a pick has come: what it drew is in the picker it fetched.
PickInv ==
    \A u \in Callers :
        /\ Idle(u) => absent[u] = {}
        /\ drawn[u] # NoEntry =>
             \E c \in DOMAIN view[u] : drawn[u][1] = << c, view[u][c] >>
        /\ entry[u] # NoEntry => view[u] = NoEntries
        /\ taken[u] # NoEntry => view[u] = NoEntries /\ entry[u] = NoEntry

UsersOf(i) == { u \in Callers : taken[u] = i }

\* A load counts the requests that use the item.
LoadInv == \A i \in PowerItem : loads[i] = Cardinality(UsersOf(i))

\* The latest picker's item of connection c.
Current(c, tag) == c \in DOMAIN entries /\ entries[c] = tag

\* An item that a request holds or may yet draw is the current one of its
\* connection, unless a picker without the connection has come between.
ShareInv ==
    \A u \in Callers, c \in Backends, tag \in Tags :
        \/ entry[u] = << c, tag >>
        \/ taken[u] = << c, tag >>
        \/ c \in DOMAIN view[u] /\ view[u][c] = tag
        => (Current(c, tag) <=> c \notin absent[u])

\* The inductive invariant.
PowerInv ==
    /\ PowerTypeOK
    /\ PickInv
    /\ LoadInv
    /\ ShareInv

-----------------------------------------------------------------------------

\* A table gives its connections a tag each, and the empty one gives none.
LEMMA TableType ==
    /\ \A t \in ItemTables : /\ DOMAIN t \subseteq Backends
                             /\ \A c \in DOMAIN t : t[c] \in Tags
    /\ NoEntries \in ItemTables
    /\ DOMAIN NoEntries = {}
  BY DEF ItemTables, NoEntries

\* An item is never the placeholder, alone or with the load read of it.
LEMMA ItemsAreItems ==
    /\ \A i \in PowerItem : i # NoEntry
    /\ \A i \in PowerItem, n \in Nat : << i, n >> # NoEntry
  <1>1. \A i \in PowerItem, n \in Nat : << i, n >> \in (Backends \X Tags) \X Nat
    BY DEF PowerItem
  <1> QED
    BY <1>1, AtomicAssumption DEF PowerItem

LEMMA UsersFinite ==
    \A i : IsFiniteSet(UsersOf(i)) /\ Cardinality(UsersOf(i)) \in Nat
  BY AtomicAssumption, FS_Subset, FS_CardinalityType DEF UsersOf

LEMMA InitPowerInv == PowerInit => PowerInv
  <1> SUFFICES ASSUME PowerInit
               PROVE  PowerInv
    OBVIOUS
  <1> USE DEF PowerInit
  <1>1. PowerTypeOK
    BY TableType DEF PowerTypeOK
  <1>2. PickInv
    BY DEF PickInv
  <1>3. LoadInv
    <2>1. \A i \in PowerItem : UsersOf(i) = {}
      BY ItemsAreItems DEF UsersOf
    <2> QED
      BY <2>1, FS_EmptySet DEF LoadInv
  <1>4. ShareInv
    BY ItemsAreItems, TableType DEF ShareInv, PowerItem
  <1> QED
    BY <1>1, <1>2, <1>3, <1>4 DEF PowerInv

-----------------------------------------------------------------------------
(* Each action preserves the invariant.                                    *)

LEMMA NewPickerStep ==
    ASSUME PowerInv, NEW conns \in SUBSET Backends, NewPowerOfTwo(conns)
    PROVE  PowerInv'
  <1> USE DEF PowerInv
  <1>1. PICK new \in [conns -> Tags] :
            (\A c \in conns : ItemFor(c, new[c])) /\ entries' = new
    BY DEF NewPowerOfTwo
  <1>2. UNCHANGED << loads, view, drawn, entry, taken >>
    BY DEF NewPowerOfTwo
  <1>3. \A u \in Callers : absent'[u] =
            IF Idle(u) THEN {} ELSE absent[u] \cup (Backends \ conns)
    BY DEF NewPowerOfTwo
  <1>4. PowerTypeOK'
    <2>1. entries' \in ItemTables
      BY <1>1 DEF ItemTables
    <2>2. absent' \in [Callers -> SUBSET Backends]
      BY DEF NewPowerOfTwo, PowerTypeOK
    <2>3. published' \in BOOLEAN
      BY DEF NewPowerOfTwo
    <2> QED
      BY <1>2, <2>1, <2>2, <2>3 DEF PowerTypeOK
  <1>5. PickInv'
    BY <1>2, <1>3 DEF PickInv, Idle
  <1>6. LoadInv'
    BY <1>2 DEF LoadInv, UsersOf
  <1>7. ShareInv'
    <2> SUFFICES ASSUME NEW u \in Callers, NEW c \in Backends, NEW tag \in Tags,
                        \/ entry[u] = << c, tag >>
                        \/ taken[u] = << c, tag >>
                        \/ c \in DOMAIN view[u] /\ view[u][c] = tag
                 PROVE  Current(c, tag)' <=> c \notin absent'[u]
      BY <1>2 DEF ShareInv
    <2>1. Current(c, tag) <=> c \notin absent[u]
      BY DEF ShareInv
    <2>2. absent'[u] = absent[u] \cup (Backends \ conns)
      BY <1>3, ItemsAreItems, TableType DEF Idle, PowerItem
    <2>3. CASE c \notin conns
      BY <1>1, <2>2, <2>3 DEF Current
    <2>4. CASE c \in conns /\ c \in DOMAIN entries
      BY <1>1, <2>1, <2>2, <2>4 DEF Current, ItemFor
    <2>5. CASE c \in conns /\ c \notin DOMAIN entries
      <3>1. new[c] # tag
        BY <1>1, <2>5 DEF ItemFor, IsNew
      <3> QED
        BY <1>1, <2>1, <2>2, <2>5, <3>1 DEF Current
    <2> QED
      BY <2>3, <2>4, <2>5
  <1> QED
    BY <1>4, <1>5, <1>6, <1>7

\* An outage, and its end, concern the pool and not the balancer's picker.
LEMMA OutageStep == PowerInv /\ (ErrorPicker \/ Republish) => PowerInv'
  <1> SUFFICES ASSUME PowerInv, ErrorPicker \/ Republish
               PROVE  PowerInv'
    OBVIOUS
  <1>1. /\ UNCHANGED << entries, loads, view, drawn, entry, taken, absent >>
        /\ published' \in BOOLEAN
    BY DEF ErrorPicker, Republish
  <1> QED
    BY <1>1 DEF PowerInv, PowerTypeOK, PickInv, LoadInv, ShareInv, Idle, UsersOf, Current

\* Up to the decision, a pick changes no load.
LEMMA PickStep ==
    ASSUME PowerInv, NEW u \in Callers, GetPicker(u) \/ LoadFirst(u) \/ LoadSecond(u)
    PROVE  PowerInv'
  <1> USE DEF PowerInv
  <1>1. CASE GetPicker(u)
    <2> USE <1>1 DEF GetPicker
    <2>1. PowerTypeOK'
      BY DEF PowerTypeOK
    <2>2. PickInv'
      BY TableType DEF PickInv, Idle, PowerTypeOK
    <2>3. LoadInv'
      BY DEF LoadInv, UsersOf
    <2>4. ShareInv'
      BY DEF ShareInv, Current, PowerTypeOK, PickInv
    <2> QED
      BY <2>1, <2>2, <2>3, <2>4
  <1>2. CASE LoadFirst(u)
    <2> USE <1>2
    <2>1. PICK c \in DOMAIN view[u] :
              drawn' = [drawn EXCEPT ![u] = << << c, view[u][c] >>, loads[<< c, view[u][c] >>] >>]
      BY DEF LoadFirst
    <2>2. UNCHANGED << entries, published, loads, view, entry, taken, absent >>
      BY DEF LoadFirst
    <2>3. << c, view[u][c] >> \in PowerItem
      BY TableType DEF PowerTypeOK, PowerItem
    <2>4. PowerTypeOK'
      BY <2>1, <2>2, <2>3 DEF PowerTypeOK
    <2>5. PickInv'
      BY <2>1, <2>2 DEF PickInv, Idle, PowerTypeOK
    <2> QED
      BY <2>2, <2>4, <2>5 DEF LoadInv, UsersOf, ShareInv, Current
  <1>3. CASE LoadSecond(u)
    <2> USE <1>3
    <2>1. PICK d \in DOMAIN view[u] :
              entry' = [entry EXCEPT ![u] =
                  IF drawn[u][2] < loads[<< d, view[u][d] >>] THEN drawn[u][1]
                                                             ELSE << d, view[u][d] >>]
      BY DEF LoadSecond
    <2>2. /\ UNCHANGED << entries, published, loads, taken, absent >>
          /\ view' = [view EXCEPT ![u] = NoEntries]
          /\ drawn' = [drawn EXCEPT ![u] = NoEntry]
      BY DEF LoadSecond
    <2>3. PICK c \in DOMAIN view[u] : entry'[u] = << c, view[u][c] >>
      BY <2>1 DEF LoadSecond, PickInv, PowerTypeOK
    <2>4. c \in Backends /\ view[u][c] \in Tags
      BY TableType DEF PowerTypeOK
    <2>5. PowerTypeOK'
      <3>1. entry'[u] \in PowerItem
        BY <2>3, <2>4 DEF PowerItem
      <3>2. entry' \in [Callers -> PowerItem \cup { NoEntry }]
        BY <2>1, <3>1 DEF PowerTypeOK
      <3> QED
        BY <2>2, <3>2, TableType DEF PowerTypeOK
    <2>6. view[u] # NoEntries
      BY TableType
    <2>7. PickInv'
      BY <2>1, <2>2, <2>3, <2>4, <2>6, ItemsAreItems DEF PickInv, Idle, PowerTypeOK, PowerItem
    <2>8. LoadInv'
      BY <2>2 DEF LoadInv, UsersOf
    <2>9. ShareInv'
      BY <2>1, <2>2, <2>3, <2>4, TableType DEF ShareInv, Current, PowerTypeOK
    <2> QED
      BY <2>5, <2>7, <2>8, <2>9
  <1> QED
    BY <1>1, <1>2, <1>3

LEMMA AddStep ==
    ASSUME PowerInv, NEW u \in Callers, Add(u)
    PROVE  PowerInv'
  <1> USE DEF PowerInv, Add
  <1>1. PICK i \in PowerItem : i = entry[u]
    BY DEF PowerTypeOK
  <1>2. PowerTypeOK'
    BY <1>1 DEF PowerTypeOK
  <1>3. PickInv'
    BY <1>1, ItemsAreItems DEF PickInv, Idle, PowerTypeOK
  <1>4. LoadInv'
    <2>1. UsersOf(i)' = UsersOf(i) \cup {u} /\ u \notin UsersOf(i)
      BY <1>1, ItemsAreItems DEF UsersOf, PowerTypeOK, PickInv
    <2>2. Cardinality(UsersOf(i)') = Cardinality(UsersOf(i)) + 1
      BY <2>1, UsersFinite, FS_AddElement
    <2>3. \A j \in PowerItem \ {i} : UsersOf(j)' = UsersOf(j) /\ loads'[j] = loads[j]
      BY <1>1, ItemsAreItems DEF UsersOf, PowerTypeOK, PickInv
    <2>4. loads'[i] = loads[i] + 1
      BY <1>1 DEF PowerTypeOK
    <2> QED
      BY <2>2, <2>3, <2>4 DEF LoadInv
  <1>5. ShareInv'
    BY ItemsAreItems DEF ShareInv, Current, PowerTypeOK, PowerItem
  <1> QED
    BY <1>2, <1>3, <1>4, <1>5

LEMMA SubtractStep ==
    ASSUME PowerInv, NEW u \in Callers, Subtract(u)
    PROVE  PowerInv'
  <1> USE DEF PowerInv, Subtract
  <1>1. PICK i \in PowerItem : i = taken[u]
    BY DEF PowerTypeOK
  <1>2. LoadInv' /\ loads'[i] \in Nat
    <2>1. UsersOf(i)' = UsersOf(i) \ {u} /\ u \in UsersOf(i)
      BY <1>1, ItemsAreItems DEF UsersOf, PowerTypeOK
    <2>2. /\ IsFiniteSet(UsersOf(i)')
          /\ Cardinality(UsersOf(i)') = Cardinality(UsersOf(i)) - 1
      BY <2>1, UsersFinite, FS_RemoveElement
    <2>3. \A j \in PowerItem \ {i} : UsersOf(j)' = UsersOf(j) /\ loads'[j] = loads[j]
      BY <1>1, ItemsAreItems DEF UsersOf, PowerTypeOK
    <2>4. loads'[i] = loads[i] - 1
      BY <1>1 DEF PowerTypeOK
    <2>5. Cardinality(UsersOf(i)') \in Nat
      BY <2>2, FS_CardinalityType
    <2> QED
      BY <1>1, <2>2, <2>3, <2>4, <2>5 DEF LoadInv
  <1>3. PowerTypeOK'
    <2>1. loads' \in [PowerItem -> Nat]
      BY <1>1, <1>2 DEF PowerTypeOK
    <2> QED
      BY <2>1 DEF PowerTypeOK
  <1>4. PickInv'
    BY <1>1, ItemsAreItems DEF PickInv, Idle, PowerTypeOK
  <1>5. ShareInv'
    <2> SUFFICES ASSUME NEW w \in Callers, NEW c \in Backends, NEW tag \in Tags,
                        \/ entry[w] = << c, tag >>
                        \/ taken'[w] = << c, tag >>
                        \/ c \in DOMAIN view[w] /\ view[w][c] = tag
                 PROVE  Current(c, tag) <=> c \notin absent'[w]
      BY DEF ShareInv, Current
    <2>1. << c, tag >> \in PowerItem
      BY DEF PowerItem
    <2>2. w # u
      BY <1>1, <2>1, ItemsAreItems, TableType DEF PickInv, PowerTypeOK
    <2>3. taken'[w] = taken[w] /\ absent'[w] = absent[w]
      BY <2>2 DEF PowerTypeOK
    <2> QED
      BY <2>3 DEF ShareInv
  <1> QED
    BY <1>2, <1>3, <1>4, <1>5

LEMMA PowerInvAlways == PowerSpec => []PowerInv
  <1>1. PowerInv /\ [PowerNext]_powerVars => PowerInv'
    <2>1. CASE UNCHANGED powerVars
      BY <2>1 DEF powerVars, PowerInv, PowerTypeOK, PickInv, LoadInv, ShareInv, Idle, UsersOf, Current
    <2> QED
      BY <2>1, NewPickerStep, OutageStep, PickStep, AddStep, SubtractStep DEF PowerNext
  <1> QED
    BY <1>1, InitPowerInv, PTL DEF PowerSpec

\* Every variable of the power-of-two pickers keeps its type.
THEOREM PowerTypeCorrect == PowerSpec => []PowerTypeOK
  <1>1. PowerInv => PowerTypeOK
    BY DEF PowerInv
  <1> QED
    BY <1>1, PowerInvAlways, PTL

\* The load that the latest picker compares is the number of requests in
\* flight on the connection, but for those that a picker for other connections
\* has come between; an outage costs none of them.
THEOREM LoadsAlwaysShared == PowerSpec => []LoadsShared
  <1>1. ASSUME PowerInv, NEW c \in DOMAIN entries
        PROVE  loads[<< c, entries[c] >>] =
                   Cardinality({ u \in Callers : /\ taken[u] \in { << c, tag >> : tag \in Tags }
                                               /\ c \notin absent[u] })
    <2>1. c \in Backends /\ entries[c] \in Tags
      BY <1>1, TableType DEF PowerInv, PowerTypeOK
    <2>2. UsersOf(<< c, entries[c] >>) =
              { u \in Callers : /\ taken[u] \in { << c, tag >> : tag \in Tags }
                                /\ c \notin absent[u] }
      <3>1. ASSUME NEW u \in Callers, NEW tag \in Tags, taken[u] = << c, tag >>
            PROVE  c \notin absent[u] <=> tag = entries[c]
        BY <1>1, <2>1, <3>1 DEF PowerInv, ShareInv, Current
      <3> QED
        BY <2>1, <3>1 DEF UsersOf
    <2> QED
      BY <1>1, <2>1, <2>2 DEF PowerInv, LoadInv, PowerItem
  <1>2. PowerInv => LoadsShared
    BY <1>1 DEF LoadsShared
  <1> QED
    BY <1>2, PowerInvAlways, PTL

-----------------------------------------------------------------------------
(* Round robin.                                                            *)

\* The number of picks so far.  It tells a new counter, at -1, from one that
\* has been through all its values.
Picks ==
    IF turn = -1 /\ \A c \in Backends : turns[c] = 0 THEN 0 ELSE Unsigned(turn) + 1

\* The first m connections have had one more turn than the others.
AtPlace(round, m) ==
    /\ Picks = Len(order) * round + m
    /\ \A p \in 1..Len(order) : turns[order[p]] = IF p <= m THEN round + 1 ELSE round

\* The picker is at some place of some round.
RoundInv ==
    order # << >> => \E round \in Nat : \E m \in 0..(Len(order) - 1) : AtPlace(round, m)

TurnInv == TurnTypeOK /\ RoundInv

\* The place in a round.
LEMMA PlaceInRound ==
    ASSUME NEW n \in Nat, NEW round \in Nat, NEW m \in 0..(n - 1)
    PROVE  (n * round + m) % n = m
  <1>1. n > 0
    OBVIOUS
  <1>2. ASSUME NEW k \in Nat, k = n * round + m
        PROVE  k % n = m
    BY <1>1, <1>2, SMTT(20)
  <1>3. n * round + m \in Nat
    BY SMT
  <1> QED
    BY <1>2, <1>3

\* The order of a new picker names each connection once.
LEMMA NewOrder ==
    ASSUME NEW conns \in SUBSET Backends, NEW new \in SetToSeqs(conns)
    PROVE  new \in Seq(Backends) /\ IsInjective(new)
  <1>1. Cardinality(conns) \in Nat
    BY AtomicAssumption, FS_Subset, FS_CardinalityType
  <1>2. /\ new \in [1..Cardinality(conns) -> conns]
        /\ \A p, q \in 1..Cardinality(conns) : p # q => new[p] # new[q]
    BY DEF SetToSeqs
  <1>3. new \in Seq(Backends)
    BY <1>1, <1>2
  <1>4. IsInjective(new)
    BY <1>2 DEF IsInjective
  <1> QED
    BY <1>3, <1>4

\* The counter, as an unsigned number, is the number of picks before.
LEMMA CounterCounts ==
    ASSUME TurnTypeOK, PickTurn
    PROVE  /\ turn' \in (-MaxInt - 1)..MaxInt
           /\ Unsigned(turn') = Picks
           /\ Picks \in Nat
  BY AtomicAssumption DEF TurnTypeOK, PickTurn, Unsigned, Picks

LEMMA PickTurnStep == TurnInv /\ PickTurn => TurnInv'
  <1> SUFFICES ASSUME TurnInv, PickTurn
               PROVE  TurnInv'
    OBVIOUS
  <1> DEFINE n == Len(order)
  <1>1. /\ order \in Seq(Backends) /\ order # << >> /\ order' = order
        /\ turns \in [Backends -> Nat]
        /\ \A p, q \in 1..n : order[p] = order[q] => p = q
    BY DEF TurnInv, TurnTypeOK, PickTurn, IsInjective
  <1>2. n \in Nat \ {0} /\ (\A p \in 1..n : order[p] \in Backends)
    BY <1>1
  <1>3. PICK round \in Nat, m \in 0..(n - 1) : AtPlace(round, m)
    BY <1>1 DEF TurnInv, RoundInv
  <1>4. Unsigned(turn') = Picks /\ Picks = n * round + m
    BY <1>3, CounterCounts DEF TurnInv, AtPlace
  <1>5. Unsigned(turn') % n = m
    BY <1>2, <1>4, PlaceInRound
  <1>6. 1 + m \in 1..n /\ order[1 + m] \in Backends
    BY <1>2
  <1>7. turns' = [turns EXCEPT ![order[1 + m]] = @ + 1]
    BY <1>5 DEF PickTurn, NextConn
  <1>8. TurnTypeOK'
    BY <1>1, <1>6, <1>7, CounterCounts DEF TurnInv, TurnTypeOK, PickTurn
  <1>9. Picks' = Picks + 1
    <2>1. turns'[order[1 + m]] # 0
      BY <1>1, <1>6, <1>7
    <2>2. Picks' = Unsigned(turn') + 1
      BY <1>6, <2>1 DEF Picks, Unsigned
    <2> QED
      BY <1>4, <2>2
  <1>10. \A p \in 1..n : turns'[order[p]] = IF p <= m + 1 THEN round + 1 ELSE round
    BY <1>1, <1>2, <1>3, <1>6, <1>7 DEF AtPlace
  <1>11. RoundInv'
    <2>1. CASE m = n - 1
      <3>1. Picks' = n * (round + 1) + 0
        BY <1>2, <1>4, <1>9, <2>1, SMT
      <3>2. \A p \in 1..n : turns'[order[p]] = IF p <= 0 THEN round + 2 ELSE round + 1
        BY <1>2, <1>10, <2>1
      <3>3. AtPlace(round + 1, 0)'
        BY <1>1, <3>1, <3>2 DEF AtPlace
      <3> QED
        BY <1>1, <1>2, <3>3 DEF RoundInv
    <2>2. CASE m # n - 1
      <3>1. Picks' = n * round + (m + 1)
        BY <1>2, <1>4, <1>9, SMT
      <3>2. AtPlace(round, m + 1)' /\ m + 1 \in 0..(n - 1)
        BY <1>1, <1>2, <1>10, <2>2, <3>1 DEF AtPlace
      <3> QED
        BY <1>1, <3>2 DEF RoundInv
    <2> QED
      BY <2>1, <2>2
  <1> QED
    BY <1>8, <1>11 DEF TurnInv

LEMMA NewRoundRobinStep ==
    ASSUME TurnInv, NEW conns \in SUBSET Backends, NewRoundRobin(conns)
    PROVE  TurnInv'
  <1> USE DEF NewRoundRobin
  <1>1. order' \in Seq(Backends) /\ IsInjective(order')
    BY NewOrder
  <1>2. TurnTypeOK'
    BY <1>1, AtomicAssumption DEF TurnTypeOK
  <1>3. Picks' = 0
    BY DEF Picks
  <1>4. ASSUME order' # << >>
        PROVE  AtPlace(0, 0)' /\ 0 \in 0..(Len(order') - 1)
    <2>1. Len(order') \in Nat \ {0} /\ \A p \in 1..Len(order') : order'[p] \in Backends
      BY <1>1, <1>4
    <2>2. Picks' = Len(order') * 0 + 0
      BY <1>3, <2>1, SMT
    <2> QED
      BY <2>1, <2>2 DEF AtPlace
  <1>5. RoundInv'
    BY <1>4 DEF RoundInv
  <1> QED
    BY <1>2, <1>5 DEF TurnInv

LEMMA TurnInvAlways == TurnSpec => []TurnInv
  <1>1. TurnInit => TurnInv
    BY AtomicAssumption DEF TurnInit, TurnInv, TurnTypeOK, RoundInv, IsInjective
  <1>2. TurnInv /\ [TurnNext]_turnVars => TurnInv'
    <2>1. CASE UNCHANGED turnVars
      BY <2>1 DEF turnVars, TurnInv, TurnTypeOK, RoundInv, AtPlace, Picks, Unsigned
    <2> QED
      BY <2>1, PickTurnStep, NewRoundRobinStep DEF TurnNext
  <1> QED
    BY <1>1, <1>2, PTL DEF TurnSpec

\* Every connection has its turn: no two numbers of picks differ by more than
\* one, for any number of connections and any width of the counter.
THEOREM TurnsAlwaysEven == TurnSpec => []TurnsEven
  <1>1. ASSUME TurnInv, NEW c \in ToSet(order), NEW d \in ToSet(order)
        PROVE  turns[c] <= turns[d] + 1
    <2>1. PICK p, q \in 1..Len(order) : c = order[p] /\ d = order[q]
      BY <1>1 DEF ToSet, TurnInv, TurnTypeOK
    <2>2. order # << >>
      BY <2>1
    <2>3. PICK round \in Nat, m \in 0..(Len(order) - 1) : AtPlace(round, m)
      BY <1>1, <2>2 DEF TurnInv, RoundInv
    <2>4. turns[c] \in { round, round + 1 } /\ turns[d] \in { round, round + 1 }
      BY <2>1, <2>3 DEF AtPlace
    <2> QED
      BY <2>4
  <1>2. TurnInv => TurnsEven
    BY <1>1 DEF TurnsEven
  <1> QED
    BY <1>2, TurnInvAlways, PTL

=============================================================================
