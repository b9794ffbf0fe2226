---------------------------- MODULE PollingResolver ----------------------------
(***************************************************************************)
(* The polling resolver of a pool (type pollingResolverTask of             *)
(* resolver/resolver.go): it looks the target's addresses up when their    *)
(* time to live is over, and earlier when the pool asks for it, but not    *)
(* more often than a minimum interval allows.                              *)
(*                                                                         *)
(* Time passes between any two steps of the task, which may be late: an    *)
(* expired timer is only ever a case that select may choose.  Instead of a *)
(* clock the state has the time left on each timer and the time since the  *)
(* last lookup, in units of any length.                                    *)
(***************************************************************************)
EXTENDS Integers

CONSTANTS
    TTLs,                \* what a lookup may return; 0: no time to live
    DefaultTTL,
    MinRefreshInterval

ASSUME ResolverAssumption ==
    /\ TTLs \subseteq Nat
    /\ DefaultTTL \in Nat
    /\ MinRefreshInterval \in Nat

VARIABLES
    pc,            \* the goroutine run
    ttl,           \* what the latest lookup returned
    sinceResolve,  \* time since lastResolve, up to MinRefreshInterval
    timer,         \* time left until the timer fires; 0: its channel is ready
    refreshTimer,  \* the same for the timer of an early request
    refreshCh,     \* the pool's buffered request
    asked,         \* history: a request was made since the last lookup began
    ctxDone,
    closePc        \* the goroutine in Close

vars == << pc, ttl, sinceResolve, timer, refreshTimer, refreshCh, asked,
           ctxDone, closePc >>

timeVars == << sinceResolve, timer, refreshTimer >>
otherVars == << ctxDone, closePc >>

-----------------------------------------------------------------------------

Init ==
    /\ pc = "starting"
    /\ ttl = 0
    /\ sinceResolve = MinRefreshInterval   \* lastResolve is the zero time
    /\ timer = 0
    /\ refreshTimer = 0
    /\ refreshCh = FALSE
    /\ asked = FALSE
    /\ ctxDone = FALSE
    /\ closePc = "idle"

Elapse(left) == IF left > 0 THEN left - 1 ELSE 0

Tick ==
    /\ sinceResolve' = IF sinceResolve < MinRefreshInterval
                       THEN sinceResolve + 1 ELSE sinceResolve
    /\ timer' = Elapse(timer)
    /\ refreshTimer' = Elapse(refreshTimer)
    /\ UNCHANGED << pc, ttl, refreshCh, asked, otherVars >>

\* The pool's ResolveNow.
RequestRefresh ==
    /\ refreshCh' = TRUE
    /\ asked' = TRUE
    /\ UNCHANGED << pc, ttl, timeVars, otherVars >>

-----------------------------------------------------------------------------
(* run: the lookup, and what it makes of its result.                       *)

StartResolve ==
    /\ pc = "starting"
    /\ sinceResolve' = 0
    /\ asked' = FALSE
    /\ pc' = "resolving"
    /\ UNCHANGED << ttl, timer, refreshTimer, refreshCh, otherVars >>

\* ResolveOnce returns addresses or an error.
FinishResolve(newTTL) ==
    /\ pc = "resolving"
    /\ ttl' = newTTL
    /\ pc' = "reporting"
    /\ UNCHANGED << timeVars, refreshCh, asked, otherVars >>

NextLookup ==
    LET wanted == IF ttl = 0 THEN DefaultTTL ELSE ttl
    IN  IF wanted < MinRefreshInterval THEN MinRefreshInterval ELSE wanted

\* Mutant of Report: forgets to reset the timer.
ReportOnly ==
    /\ pc = "reporting"
    /\ pc' = "selecting"
    /\ UNCHANGED << ttl, timeVars, refreshCh, asked, otherVars >>

\* Mutant of Report: a lookup that fails ends the task.
ReportThenStop ==
    /\ pc = "reporting"
    /\ timer' = NextLookup
    /\ pc' \in { "selecting", "done" }
    /\ UNCHANGED << ttl, sinceResolve, refreshTimer, refreshCh, asked, otherVars >>

\* Calls OnResolve or OnResolveError, and resets the timer; what was left in
\* its channel is discarded.
Report ==
    /\ pc = "reporting"
    /\ timer' = NextLookup
    /\ pc' = "selecting"
    /\ UNCHANGED << ttl, sinceResolve, refreshTimer, refreshCh, asked, otherVars >>

-----------------------------------------------------------------------------
(* run: the two selects.                                                   *)

SelectTimer ==
    /\ pc = "selecting"
    /\ timer = 0
    /\ pc' = "starting"
    /\ UNCHANGED << ttl, timeVars, refreshCh, asked, otherVars >>

\* Mutant of SelectRefresh: an early request waits for the whole interval.
SelectRefreshLate ==
    /\ pc = "selecting"
    /\ refreshCh
    /\ refreshCh' = FALSE
    /\ \/ /\ sinceResolve < MinRefreshInterval
          /\ refreshTimer' = MinRefreshInterval
          /\ pc' = "delaying"
       \/ /\ sinceResolve >= MinRefreshInterval
          /\ pc' = "starting"
          /\ UNCHANGED refreshTimer
    /\ UNCHANGED << ttl, sinceResolve, timer, asked, otherVars >>

\* A request that comes too early waits for the rest of the interval.
SelectRefresh ==
    /\ pc = "selecting"
    /\ refreshCh
    /\ refreshCh' = FALSE
    /\ \/ /\ sinceResolve < MinRefreshInterval
          /\ refreshTimer' = MinRefreshInterval - sinceResolve
          /\ pc' = "delaying"
       \/ /\ sinceResolve >= MinRefreshInterval
          /\ pc' = "starting"
          /\ UNCHANGED refreshTimer
    /\ UNCHANGED << ttl, sinceResolve, timer, asked, otherVars >>

\* Either timer ends the wait; the refresh timer is stopped.
EndDelay ==
    /\ pc = "delaying"
    /\ timer = 0 \/ refreshTimer = 0
    /\ refreshTimer' = 0
    /\ pc' = "starting"
    /\ UNCHANGED << ttl, sinceResolve, timer, refreshCh, asked, otherVars >>

\* Mutant of SelectDone: the outer select does not heed the context.
DoneInDelayOnly ==
    /\ pc = "delaying"
    /\ ctxDone
    /\ refreshTimer' = 0
    /\ pc' = "done"
    /\ UNCHANGED << ttl, sinceResolve, timer, refreshCh, asked, otherVars >>

\* The deferred close of doneSignal is part of it.
SelectDone ==
    /\ pc \in { "selecting", "delaying" }
    /\ ctxDone
    /\ refreshTimer' = 0
    /\ pc' = "done"
    /\ UNCHANGED << ttl, sinceResolve, timer, refreshCh, asked, otherVars >>

-----------------------------------------------------------------------------
(* Close, and the cancellation of the pool's context.                      *)

Cancel ==
    /\ ~ctxDone
    /\ ctxDone' = TRUE
    /\ UNCHANGED << pc, ttl, timeVars, refreshCh, asked, closePc >>

CallClose ==
    /\ closePc = "idle"
    /\ ctxDone' = TRUE
    /\ closePc' = "waiting"
    /\ UNCHANGED << pc, ttl, timeVars, refreshCh, asked >>

AwaitDone ==
    /\ closePc = "waiting"
    /\ pc = "done"
    /\ closePc' = "returned"
    /\ UNCHANGED << pc, ttl, timeVars, refreshCh, asked, ctxDone >>

-----------------------------------------------------------------------------

Run ==
    \/ StartResolve
    \/ \E newTTL \in TTLs : FinishResolve(newTTL)
    \/ Report
    \/ SelectTimer
    \/ SelectRefresh
    \/ EndDelay

Next == Tick \/ RequestRefresh \/ Run \/ SelectDone \/ Cancel \/ CallClose \/ AwaitDone

Spec == Init /\ [][Next]_vars

\* Time passes, every lookup returns (it is given the context), and select
\* does not pass over a case that is ready again and again.
Fairness ==
    /\ WF_vars(Tick)
    /\ WF_vars(Run)
    /\ SF_vars(SelectDone)
    /\ WF_vars(AwaitDone)

FairSpec == Spec /\ Fairness

-----------------------------------------------------------------------------
(* Properties.                                                             *)

LongestTTL ==
    CHOOSE n \in TTLs \cup { DefaultTTL, MinRefreshInterval } :
        \A m \in TTLs \cup { DefaultTTL, MinRefreshInterval } : m <= n

TypeOK ==
    /\ pc \in { "starting", "resolving", "reporting", "selecting", "delaying", "done" }
    /\ ttl \in TTLs \cup { 0 }
    /\ sinceResolve \in 0..MinRefreshInterval
    /\ timer \in 0..LongestTTL
    /\ refreshTimer \in 0..MinRefreshInterval
    /\ { refreshCh, asked, ctxDone } \subseteq BOOLEAN
    /\ closePc \in { "idle", "waiting", "returned" }

\* "an upper bound for how often the ResolveProber can be invoked": lookups
\* begin at least a minimum interval apart, whatever the times to live, the
\* requests and the delays between them.
ResolvesSpacedOut ==
    [][pc = "starting" /\ pc' = "resolving" =>
         sinceResolve >= MinRefreshInterval]_vars

\* The task sleeps in one of its selects: no case is ready.
Asleep ==
    /\ pc \in { "selecting", "delaying" }
    /\ timer > 0
    /\ ~ctxDone
    /\ pc = "selecting" => ~refreshCh
    /\ pc = "delaying" => refreshTimer > 0

\* No request for new addresses is lost, and none is kept waiting longer than
\* the minimum interval demands: while one is unanswered, the task sleeps only
\* if the last lookup began less than the interval ago.
RequestsNotSleptOver ==
    asked /\ Asleep => sinceResolve < MinRefreshInterval

\* The addresses are looked up again and again until the task is closed.
KeepsResolving == []<>(pc = "resolving" \/ ctxDone)

\* Close returns, whatever the task was doing.
CloseReturns == closePc = "waiting" ~> closePc = "returned"

=============================================================================
