--------------------------------- MODULE Mixes ---------------------------------
(***************************************************************************)
(* The balancer's connections as far as the selection of Usability can     *)
(* tell them apart: how many there are in each health state.  Connections  *)
(* come, change their state and go, and the selection is compared with a   *)
(* definition that does not follow the code's loop.                        *)
(***************************************************************************)
EXTENDS Usability

CONSTANT MaxTotal    \* bound: connections

ASSUME MixAssumption == MaxTotal \in Nat

VARIABLE count    \* the number of connections in each state

\* The number of connections in state s or a better one.
UpTo(s) ==
    LET In(t) == IF t <= s THEN count[t] ELSE 0
    IN  In(StateHealthy) + In(StateUnknown) + In(StateDegraded) + In(StateUnhealthy)

Total == UpTo(StateUnhealthy)

MixInit == count = [s \in States |-> 0]

Appear ==
    /\ Total < MaxTotal
    /\ count' = [count EXCEPT ![StateUnknown] = @ + 1]

Disappear(s) ==
    /\ count[s] > 0
    /\ count' = [count EXCEPT ![s] = @ - 1]

Change(s, t) ==
    /\ count[s] > 0
    /\ count' = [count EXCEPT ![s] = @ - 1, ![t] = @ + 1]

MixNext ==
    \/ Appear
    \/ \E s \in States : Disappear(s)
    \/ \E s, t \in States : s # t /\ Change(s, t)

MixSpec == MixInit /\ [][MixNext]_count

-----------------------------------------------------------------------------
(* Properties.                                                             *)

\* The connections, the healthiest first: the n-th is in state s when fewer
\* than n are in better states and at least n in states up to s.
CurrentView ==
    [n \in 1..Total |-> CHOOSE s \in States :
        n <= UpTo(s) /\ n > UpTo(s) - count[s]]

\* The nearest integer to n / 4, halves upwards.
QuarterOf(n) == CHOOSE m \in 0..n : 4 * m - 2 <= n /\ n < 4 * m + 2

Enough == IF QuarterOf(Total) > 3 THEN QuarterOf(Total) ELSE 3

\* A picker gets a connection exactly when it is not unhealthy and there are
\* not enough better ones: so it gets none only if all are unhealthy, and
\* connections in the same state are used together or not at all.
UsableIsBestEnough ==
    Usable(CurrentView) =
        { n \in 1..Total :
            /\ CurrentView[n] # StateUnhealthy
            /\ UpTo(CurrentView[n]) - count[CurrentView[n]] < Enough }

=============================================================================
