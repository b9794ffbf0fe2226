----------------------------- MODULE PollingChecker -----------------------------
(***************************************************************************)
(* The polling health checker of one connection (health/polling.go): it    *)
(* probes the connection at intervals, and reports a change of its state   *)
(* to the balancer once enough probes in a row call for it.                *)
(*                                                                         *)
(* The interval and its jitter are left out: the ticker is ready at any    *)
(* time.  A probe may return any state at any time after it began; the     *)
(* timeout makes it return.                                                *)
(***************************************************************************)
EXTENDS Usability

CONSTANTS
    HealthyThreshold,
    UnhealthyThreshold

ASSUME CheckerAssumption ==
    /\ HealthyThreshold \in Nat \ {0}
    /\ UnhealthyThreshold \in Nat \ {0}

VARIABLES
    pc,          \* the checker's goroutine
    state,
    counter,
    result,      \* what the latest probe returned
    tracked,     \* what the balancer was told
    ctxDone,
    closePc,     \* the goroutine in Close
    first,       \* history: no probe has returned yet
    passed,      \* history: how many probes in a row, up to now, were healthy,
    failed       \* and how many were not; up to the threshold each

vars == << pc, state, counter, result, tracked, ctxDone, closePc, first, passed, failed >>

judgeVars == << state, counter, result, first, passed, failed >>

-----------------------------------------------------------------------------

\* The counter starts at the threshold, so that one passed probe suffices.
Init ==
    /\ pc = "probing"
    /\ state = StateUnknown
    /\ counter = HealthyThreshold
    /\ result = StateUnknown
    /\ tracked = StateUnknown
    /\ ctxDone = FALSE
    /\ closePc = "idle"
    /\ first = TRUE
    /\ passed = 0
    /\ failed = 0

\* Mutant of Count: off by one.
CountOneMore(newState, threshold) ==
    IF counter + 1 > threshold
    THEN state' = newState /\ counter' = 0
    ELSE state' = state /\ counter' = counter + 1

\* One probe in favour of leaving the current state; threshold of them in a
\* row are needed.
Count(newState, threshold) ==
    IF counter + 1 >= threshold
    THEN state' = newState /\ counter' = 0
    ELSE state' = state /\ counter' = counter + 1

\* Mutant of Judge: a probe in favour of staying does not reset the counter.
JudgeWithoutReset(newResult) ==
    \/ /\ newResult = StateHealthy /\ state # StateHealthy
       /\ Count(newResult, HealthyThreshold)
    \/ /\ newResult # StateHealthy /\ state = StateHealthy
       /\ Count(newResult, UnhealthyThreshold)
    \/ /\ (newResult = StateHealthy) <=> (state = StateHealthy)
       /\ state' = newResult
       /\ counter' = counter

Judge(newResult) ==
    \/ /\ newResult = StateHealthy /\ state # StateHealthy
       /\ Count(newResult, HealthyThreshold)
    \/ /\ newResult # StateHealthy /\ state = StateHealthy
       /\ Count(newResult, UnhealthyThreshold)
    \/ /\ (newResult = StateHealthy) <=> (state = StateHealthy)
       /\ state' = newResult
       /\ counter' = 0

CountUpTo(n, limit) == IF n < limit THEN n + 1 ELSE n

\* Mutant of Probe: reports only that a connection is healthy or no longer is.
ProbeReportsHealth(newResult) ==
    /\ pc = "probing"
    /\ Judge(newResult)
    /\ result' = newResult
    /\ pc' = IF state' # state /\ StateHealthy \in { state, state' }
             THEN "reporting" ELSE "waiting"
    /\ first' = FALSE
    /\ passed' = IF newResult = StateHealthy
                 THEN CountUpTo(passed, HealthyThreshold) ELSE 0
    /\ failed' = IF newResult # StateHealthy
                 THEN CountUpTo(failed, UnhealthyThreshold) ELSE 0
    /\ UNCHANGED << tracked, ctxDone, closePc >>

\* Probe returns, and its result is judged.
Probe(newResult) ==
    /\ pc = "probing"
    /\ Judge(newResult)
    /\ result' = newResult
    /\ pc' = IF state' # state THEN "reporting" ELSE "waiting"
    /\ first' = FALSE
    /\ passed' = IF newResult = StateHealthy
                 THEN CountUpTo(passed, HealthyThreshold) ELSE 0
    /\ failed' = IF newResult # StateHealthy
                 THEN CountUpTo(failed, UnhealthyThreshold) ELSE 0
    /\ UNCHANGED << tracked, ctxDone, closePc >>

\* tracker.UpdateHealthState, with the result.
Report ==
    /\ pc = "reporting"
    /\ tracked' = result
    /\ pc' = "waiting"
    /\ UNCHANGED << judgeVars, ctxDone, closePc >>

SelectTick ==
    /\ pc = "waiting"
    /\ pc' = "probing"
    /\ UNCHANGED << judgeVars, tracked, ctxDone, closePc >>

\* The deferred close of doneSignal is part of it.
SelectDone ==
    /\ pc = "waiting"
    /\ ctxDone
    /\ pc' = "done"
    /\ UNCHANGED << judgeVars, tracked, ctxDone, closePc >>

Cancel ==
    /\ ~ctxDone
    /\ ctxDone' = TRUE
    /\ UNCHANGED << pc, judgeVars, tracked, closePc >>

CallClose ==
    /\ closePc = "idle"
    /\ ctxDone' = TRUE
    /\ closePc' = "waiting"
    /\ UNCHANGED << pc, judgeVars, tracked >>

AwaitDone ==
    /\ closePc = "waiting"
    /\ pc = "done"
    /\ closePc' = "returned"
    /\ UNCHANGED << pc, judgeVars, tracked, ctxDone >>

-----------------------------------------------------------------------------

Check ==
    \/ \E newResult \in States : Probe(newResult)
    \/ Report
    \/ SelectTick

Next == Check \/ SelectDone \/ Cancel \/ CallClose \/ AwaitDone

Spec == Init /\ [][Next]_vars

-----------------------------------------------------------------------------
(* Properties.                                                             *)

TypeOK ==
    /\ pc \in { "probing", "reporting", "waiting", "done" }
    /\ state \in States
    /\ result \in States
    /\ tracked \in States
    /\ counter \in Nat
    /\ ctxDone \in BOOLEAN
    /\ first \in BOOLEAN
    /\ closePc \in { "idle", "waiting", "returned" }
    /\ passed \in 0..HealthyThreshold
    /\ failed \in 0..UnhealthyThreshold

\* A connection becomes healthy only by as many healthy probes in a row as the
\* threshold says, or by its very first probe; it stops being healthy only by
\* as many in a row that were not.  What was counted for one direction is never
\* used for the other.
ChangesEarned ==
    [][/\ state # StateHealthy /\ state' = StateHealthy
            => first \/ passed' = HealthyThreshold
       /\ state = StateHealthy /\ state' # StateHealthy
            => failed' = UnhealthyThreshold]_vars

\* And then it does, in both directions.
EnoughProbesDecide ==
    /\ passed = HealthyThreshold => state = StateHealthy
    /\ failed = UnhealthyThreshold => state = result

\* The balancer knows the state, but for the moment before a report: every
\* change of it is reported, and nothing else is.
BalancerInformed == pc # "reporting" => tracked = state

=============================================================================
