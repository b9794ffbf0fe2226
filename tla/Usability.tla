------------------------------- MODULE Usability -------------------------------
(***************************************************************************)
(* Which of a balancer's connections a picker may use, and when the        *)
(* balancer asks the resolver for new addresses: the pure part of          *)
(* computeUsableConnsLocked in balancer.go.  A balancer's view is a        *)
(* function from its connections to their health states.                   *)
(***************************************************************************)
EXTENDS Integers, FiniteSets

\* health.State: better states have smaller values.
StateHealthy   == -1
StateUnknown   == 0
StateDegraded  == 1
StateUnhealthy == 2

States == { StateHealthy, StateUnknown, StateDegraded, StateUnhealthy }

\* int(math.Round(percent * n / 100)): halves round away from zero.
RoundPercent(percent, n) == (percent * n + 50) \div 100

ReresolveMinPercent == 50

InState(view, s) == { c \in DOMAIN view : view[c] = s }

\* Three connections, or a quarter of them when that is more.
MinConns(view) ==
    LET minPctConns == RoundPercent(25, Cardinality(DOMAIN view))
    IN  IF minPctConns > 3 THEN minPctConns ELSE 3

\* Mutant of CollectUsable: off by one, goes on although it has enough.
CollectOneMore(view, results, candidateState) ==
    IF Cardinality(results) > MinConns(view)
    THEN results
    ELSE results \cup InState(view, candidateState)

\* One turn of the loop over the states: the break leaves what was collected.
CollectUsable(view, results, candidateState) ==
    IF Cardinality(results) >= MinConns(view)
    THEN results
    ELSE results \cup InState(view, candidateState)

Usable(view) ==
    LET healthy == CollectUsable(view, {}, StateHealthy)
        unknown == CollectUsable(view, healthy, StateUnknown)
    IN  CollectUsable(view, unknown, StateDegraded)

NeedsReresolve(view) ==
    RoundPercent(ReresolveMinPercent, Cardinality(DOMAIN view))
        >= Cardinality(InState(view, StateHealthy))

=============================================================================
