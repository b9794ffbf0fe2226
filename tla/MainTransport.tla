----------------------------- MODULE MainTransport -----------------------------
(***************************************************************************)
(* The root of the transport hierarchy (type mainTransport of              *)
(* transport.go): one pool per target, created by the first request for    *)
(* it, closed by its own goroutine when it is idle or the root context is  *)
(* cancelled, or by close when it is kept warm.                            *)
(*                                                                         *)
(* A pool is modelled by what matters here: a request that entered it      *)
(* waits until its balancer published a picker, and is then served, fails, *)
(* or, once the pool is being closed, may be told to try again; a prewarm  *)
(* waits until the picker is a warm one.  The pool's close ends when no    *)
(* request is in flight; it releases none of those that wait.  (Modules    *)
(* TransportPool and Balancer have the details.)  What runs under m.mu is  *)
(* one action.                                                             *)
(***************************************************************************)
EXTENDS Integers, FiniteSets

CONSTANTS
    Targets,
    Supported,   \* the targets with a known scheme that the client allows
    Pools,       \* identities of pools; bounds how many are in use at once
    NoPool,
    NoTarget,
    Requests,
    Prewarmers,  \* those of them that are calls of prewarm
    Closers,     \* the goroutines that call close
    Watcher,     \* the one of them that newTransport starts
    KeepWarm     \* whether the client allows one target only and keeps it warm

ASSUME MainAssumption ==
    /\ NoPool \notin Pools
    /\ NoTarget \notin Targets
    /\ Supported \subseteq Targets
    /\ Prewarmers \subseteq Requests
    /\ IsFiniteSet(Pools)
    /\ Watcher \in Closers
    /\ KeepWarm \subseteq BOOLEAN

VARIABLES
    pools,         \* the pool of each target
    closed,
    ctxDone,       \* the root context is cancelled
    runningPools,  \* the counter of the wait group
    dest,          \* each pool's target
    poolPc,        \* where each pool's goroutine closeWhenIdle is
    picker,        \* each pool's picker: "none", "cold" or "warm"
    activity,      \* each pool's buffered signal
    timer,         \* each pool's idle timer: "armed" or "expired"
    touched,       \* history: looked up since its timer expired last
    req,           \* where each request is,
    used,          \* the pool it got,
    target,        \* and its target, for good
    closePc,       \* each goroutine in close
    collected,     \* the pools that closeKeepWarmPools closes
    keepWarm       \* the configuration: one of KeepWarm, for good

rootVars == << closed, ctxDone >>
poolVars == << pools, runningPools, dest, poolPc, picker >>
idleVars == << activity, timer, touched >>
requestVars == << req, used >>
closeVars == << closePc, collected >>

configVars == << target, keepWarm >>

\* Everything that changes.
vars == << rootVars, poolVars, idleVars, requestVars, closeVars >>

-----------------------------------------------------------------------------

\* "warm" is the pool that has no such goroutine.
OpenStates == { "select", "ticked", "cancelled", "warm" }

InFlight(p) == { r \in Requests : used[r] = p /\ req[r] = "inFlight" }

Init ==
    /\ pools = [d \in Targets |-> NoPool]
    /\ closed = FALSE
    /\ ctxDone = FALSE
    /\ runningPools = 0
    /\ dest = [p \in Pools |-> NoTarget]
    /\ poolPc = [p \in Pools |-> "none"]
    /\ picker = [p \in Pools |-> "none"]
    /\ activity = [p \in Pools |-> FALSE]
    /\ timer = [p \in Pools |-> "armed"]
    /\ touched = [p \in Pools |-> FALSE]
    /\ req = [r \in Requests |-> "new"]
    /\ used = [r \in Requests |-> NoPool]
    /\ target \in [Requests -> Targets]
    /\ closePc = [k \in Closers |-> "idle"]
    /\ collected = {}
    /\ keepWarm \in KeepWarm

-----------------------------------------------------------------------------
(* RoundTrip, prewarm and getOrCreatePool.                                 *)

Goto(r, there) == req' = [req EXCEPT ![r] = there]

\* getPoolLocked found a pool: it leaves a signal for the pool's goroutine.
Touch(p) ==
    /\ activity' = [activity EXCEPT ![p] = poolPc[p] # "warm"]
    /\ touched' = [touched EXCEPT ![p] = poolPc[p] # "warm"]
    /\ UNCHANGED << poolVars, timer >>

UsePool(r, p) ==
    /\ Goto(r, "entered")
    /\ used' = [used EXCEPT ![r] = p]
    /\ Touch(p)

Fail(r) == Goto(r, "failed") /\ UNCHANGED << poolVars, idleVars, used >>

\* Only the client's one target is prewarmed.
MayStart(r) == r \in Prewarmers => keepWarm

\* With the lock for readers.  The signal is left even if the transport is
\* closed and the request fails.
LookUp(r) ==
    LET p == pools[target[r]]
    IN  /\ req[r] \in { "new", "again" }
        /\ MayStart(r)
        /\ \/ closed /\ p = NoPool /\ Fail(r)
           \/ closed /\ p # NoPool /\ Goto(r, "failed") /\ Touch(p) /\ UNCHANGED used
           \/ ~closed /\ p # NoPool /\ UsePool(r, p)
           \/ ~closed /\ p = NoPool /\ Goto(r, "upgrading")
                /\ UNCHANGED << poolVars, idleVars, used >>
        /\ UNCHANGED << rootVars, closeVars >>

\* A pool nobody refers to any more gives its identity to the new one.
Unused(p) ==
    /\ poolPc[p] \in { "none", "closed" }
    /\ \A r \in Requests : used[r] # p

CreatePool(r, p) ==
    /\ Unused(p)
    /\ Goto(r, "entered")
    /\ used' = [used EXCEPT ![r] = p]
    /\ pools' = [pools EXCEPT ![target[r]] = p]
    /\ runningPools' = runningPools + 1
    /\ dest' = [dest EXCEPT ![p] = target[r]]
    /\ picker' = [picker EXCEPT ![p] = "none"]
    /\ poolPc' = [poolPc EXCEPT ![p] = IF keepWarm THEN "warm" ELSE "select"]
    /\ activity' = [activity EXCEPT ![p] = FALSE]
    /\ timer' = [timer EXCEPT ![p] = "armed"]
    /\ touched' = [touched EXCEPT ![p] = FALSE]

\* Mutants of NoneYet: things may have changed while the lock was upgraded.
NoneWhenLooked(d) == ~closed

NoneYetUnlocked(d) == pools[d] = NoPool

NoneYet(d) == ~closed /\ pools[d] = NoPool

\* With the lock for writers, after a second look.
GetOrCreatePool(r) ==
    LET d == target[r]
    IN  /\ req[r] = "upgrading"
        /\ \/ NoneYet(d) /\ d \in Supported /\ \E p \in Pools : CreatePool(r, p)
           \/ NoneYet(d) /\ d \notin Supported /\ Fail(r)
           \/ ~NoneYet(d) /\ closed /\ Fail(r)
           \/ ~NoneYet(d) /\ ~closed /\ UsePool(r, pools[d])
        /\ UNCHANGED << rootVars, closeVars >>

\* getConnection blocks until there is a picker.
AwaitsPicker(r) ==
    /\ req[r] = "entered"
    /\ r \notin Prewarmers
    /\ picker[used[r]] = "none"

HasPicker(r) ==
    /\ req[r] = "entered"
    /\ r \notin Prewarmers
    /\ picker[used[r]] # "none"

LeavePool(r, there) ==
    /\ Goto(r, there)
    /\ used' = [used EXCEPT ![r] = NoPool]
    /\ UNCHANGED << rootVars, poolVars, idleVars, closeVars >>

\* The picker chose a connection, and it takes the request.
Serve(r) ==
    /\ HasPicker(r)
    /\ poolPc[used[r]] # "closed"
    /\ Goto(r, "inFlight")
    /\ UNCHANGED << rootVars, poolVars, idleVars, used, closeVars >>

\* The picker is an error picker.
PickFails(r) == HasPicker(r) /\ LeavePool(r, "failed")

\* Its connections are closing: errTryAgain.
TryAgain(r) ==
    /\ HasPicker(r)
    /\ poolPc[used[r]] \in { "closing", "closed" }
    /\ LeavePool(r, "again")

\* The pool's prewarm.  It looks once whether the pool is closed, and then
\* waits for a warm picker, closed or not.
Prewarm(r) ==
    LET p == used[r]
    IN  /\ req[r] = "entered"
        /\ r \in Prewarmers
        /\ \/ /\ picker[p] = "warm" \/ poolPc[p] \in { "closing", "closed" }
              /\ LeavePool(r, "finished")
           \/ /\ picker[p] # "warm"
              /\ poolPc[p] # "closed"
              /\ Goto(r, "waiting")
              /\ UNCHANGED << rootVars, poolVars, idleVars, used, closeVars >>

AwaitsWarmth(r) == req[r] = "waiting" /\ picker[used[r]] # "warm"

\* A response is consumed, or the pool's prewarm wakes up to a warm picker.
Finish(r) ==
    /\ req[r] = "inFlight" \/ (req[r] = "waiting" /\ picker[used[r]] = "warm")
    /\ LeavePool(r, "finished")

\* What a request waits for, only its own context can spare it.
Stalled(r) == AwaitsPicker(r) \/ AwaitsWarmth(r)

GiveUp(r) == Stalled(r) /\ LeavePool(r, "failed")

\* UpdatePicker, called by the pool's balancer until that is closed.  (The
\* warm mark is of interest to prewarm only.)
UpdatePicker(p) ==
    /\ poolPc[p] \in OpenStates \cup { "closing" }
    /\ \E to \in { "cold" } \cup (IF keepWarm THEN { "warm" } ELSE {}) :
         picker' = [picker EXCEPT ![p] = to]
    /\ UNCHANGED << rootVars, pools, runningPools, dest, poolPc, idleVars,
                    requestVars, closeVars >>

-----------------------------------------------------------------------------
(* closeWhenIdle, the goroutine of a pool that is not kept warm.           *)

TimerExpires(p) ==
    /\ poolPc[p] \in { "select", "ticked", "cancelled" }
    /\ timer[p] = "armed"
    /\ timer' = [timer EXCEPT ![p] = "expired"]
    /\ touched' = [touched EXCEPT ![p] = FALSE]
    /\ UNCHANGED << rootVars, poolVars, activity, requestVars, closeVars >>

Move(p, from, to) ==
    /\ poolPc[p] = from
    /\ poolPc' = [poolPc EXCEPT ![p] = to]

SelectTimer(p) ==
    /\ Move(p, "select", "ticked")
    /\ timer[p] = "expired"
    /\ UNCHANGED << rootVars, pools, runningPools, dest, picker, idleVars, requestVars, closeVars >>

SelectDone(p) ==
    /\ Move(p, "select", "cancelled")
    /\ ctxDone
    /\ UNCHANGED << rootVars, pools, runningPools, dest, picker, idleVars, requestVars, closeVars >>

\* The signal is taken, and the idle timer starts again.
Rearm(p) ==
    /\ activity' = [activity EXCEPT ![p] = FALSE]
    /\ timer' = [timer EXCEPT ![p] = "armed"]

\* A pool that is being closed is never looked up again.
Forget(p) == Rearm(p) /\ touched' = [touched EXCEPT ![p] = FALSE]

SelectActivity(p) ==
    /\ poolPc[p] = "select"
    /\ activity[p]
    /\ Rearm(p)
    /\ UNCHANGED << rootVars, poolVars, touched, requestVars, closeVars >>

\* Mutant of Unlink: leaves the pool in the map.
LeaveLinked(p) == UNCHANGED pools

\* It takes whatever pool the target has out of the map.
Unlink(p) == pools' = [pools EXCEPT ![dest[p]] = NoPool]

\* Mutant of InUse: does not look for recent activity.
NeverInUse(p) == FALSE

InUse(p) == activity[p]

\* tryRemovePool, and what follows from its result.
TryRemovePool(p) ==
    /\ \/ InUse(p) /\ Move(p, "ticked", "select") /\ Rearm(p) /\ UNCHANGED << touched, pools >>
       \/ ~InUse(p) /\ Move(p, "ticked", "closing") /\ Unlink(p) /\ Forget(p)
    /\ UNCHANGED << rootVars, runningPools, dest, picker, requestVars, closeVars >>

RemovePool(p) ==
    /\ Move(p, "cancelled", "closing")
    /\ Unlink(p)
    /\ Forget(p)
    /\ UNCHANGED << rootVars, runningPools, dest, picker, requestVars, closeVars >>

\* The pool's close ends; it calls runningPools.Done.
PoolClosed(p) ==
    /\ Move(p, "closing", "closed")
    /\ InFlight(p) = {}
    /\ runningPools' = runningPools - 1
    /\ UNCHANGED << rootVars, pools, dest, picker, idleVars, requestVars, closeVars >>

-----------------------------------------------------------------------------
(* close: called by the client, and by the goroutine that watches the root *)
(* context.                                                                *)

CancelRoot ==
    /\ ~ctxDone
    /\ ctxDone' = TRUE
    /\ UNCHANGED << closed, poolVars, idleVars, requestVars, closeVars >>

CloseGoto(k, from, to) ==
    /\ closePc[k] = from
    /\ closePc' = [closePc EXCEPT ![k] = to]

CallClose(k) ==
    /\ CloseGoto(k, "idle", IF closed THEN "waiting" ELSE "cancelling")
    /\ k = Watcher => ctxDone
    /\ closed' = TRUE
    /\ UNCHANGED << ctxDone, poolVars, idleVars, requestVars, collected >>

Cancel(k) ==
    /\ CloseGoto(k, "cancelling", "collecting")
    /\ ctxDone' = TRUE
    /\ UNCHANGED << closed, poolVars, idleVars, requestVars, collected >>

\* Mutant of WarmPools: leaves them to their idle timers.
NoPools == {}

WarmPools == { p \in Pools : poolPc[p] = "warm" /\ \E d \in Targets : pools[d] = p }

\* closeKeepWarmPools takes the pools it has to close out of the map.
CollectPools(k) ==
    /\ CloseGoto(k, "collecting", "closingPools")
    /\ collected' = WarmPools
    /\ pools' = [d \in Targets |-> IF pools[d] \in WarmPools THEN NoPool ELSE pools[d]]
    /\ poolPc' = [p \in Pools |-> IF p \in WarmPools THEN "closing" ELSE poolPc[p]]
    /\ UNCHANGED << rootVars, runningPools, dest, picker, idleVars, requestVars >>

AwaitCollected(k) ==
    /\ CloseGoto(k, "closingPools", "waiting")
    /\ \A p \in collected : poolPc[p] = "closed"
    /\ UNCHANGED << rootVars, poolVars, idleVars, requestVars, collected >>

\* m.runningPools.Wait()
AwaitPools(k) ==
    /\ CloseGoto(k, "waiting", "returned")
    /\ runningPools = 0
    /\ UNCHANGED << rootVars, poolVars, idleVars, requestVars, collected >>

-----------------------------------------------------------------------------

RequestStep(r) ==
    \/ LookUp(r)
    \/ GetOrCreatePool(r)
    \/ Serve(r)
    \/ PickFails(r)
    \/ TryAgain(r)
    \/ Prewarm(r)
    \/ Finish(r)

PoolStep(p) ==
    \/ SelectTimer(p)
    \/ SelectActivity(p)
    \/ TryRemovePool(p)
    \/ RemovePool(p)
    \/ PoolClosed(p)

CloseStep(k) ==
    \/ Cancel(k)
    \/ CollectPools(k)
    \/ AwaitCollected(k)
    \/ AwaitPools(k)

Next ==
    /\ \/ \E r \in Requests : RequestStep(r) \/ GiveUp(r)
       \/ \E p \in Pools : UpdatePicker(p) \/ TimerExpires(p) \/ SelectDone(p) \/ PoolStep(p)
       \/ CancelRoot
       \/ \E k \in Closers : CallClose(k) \/ CloseStep(k)
    /\ UNCHANGED configVars

Spec == Init /\ [][Next]_<< vars, configVars >>

\* Go's select does not pass over a ready case for ever, and a lock that is
\* free again and again is granted; requests in flight end.  That a balancer
\* publishes a picker, that it is a warm one, and that a request's own context
\* ends, is not assumed.
Fairness ==
    /\ \A r \in Requests : WF_vars(req[r] # "new" /\ RequestStep(r))
    /\ \A p \in Pools : WF_vars(PoolStep(p)) /\ SF_vars(SelectDone(p))
    /\ \A k \in Closers : WF_vars(CloseStep(k))
    /\ WF_vars(CallClose(Watcher))

FairSpec == Spec /\ Fairness

-----------------------------------------------------------------------------
(* Properties.                                                             *)

TypeOK ==
    /\ pools \in [Targets -> Pools \cup { NoPool }]
    /\ closed \in BOOLEAN
    /\ ctxDone \in BOOLEAN
    /\ runningPools \in Int
    /\ dest \in [Pools -> Targets \cup { NoTarget }]
    /\ poolPc \in [Pools -> OpenStates \cup { "none", "closing", "closed" }]
    /\ picker \in [Pools -> { "none", "cold", "warm" }]
    /\ activity \in [Pools -> BOOLEAN]
    /\ timer \in [Pools -> { "armed", "expired" }]
    /\ touched \in [Pools -> BOOLEAN]
    /\ req \in [Requests -> { "new", "again", "upgrading", "entered", "waiting",
                              "inFlight", "failed", "finished" }]
    /\ used \in [Requests -> Pools \cup { NoPool }]
    /\ target \in [Requests -> Targets]
    /\ closePc \in [Closers -> { "idle", "cancelling", "collecting",
                                 "closingPools", "waiting", "returned" }]
    /\ collected \subseteq Pools
    /\ keepWarm \in BOOLEAN

\* The map and the goroutines agree: a pool is open exactly while it is the
\* pool of some target.  No pool is replaced in the map without being closed,
\* no goroutine removes another's pool, no request is given a closed pool.
OpenIffLinked ==
    \A p \in Pools : poolPc[p] \in OpenStates <=> \E d \in Targets : pools[d] = p

\* The idle timeout never closes a pool that a request looked up after the
\* timer expired, however lookup, tick and reset interleave.
TouchedPoolStays ==
    [][\A p \in Pools :
         poolPc[p] = "ticked" /\ poolPc'[p] = "closing" => ~touched[p]]_vars

\* When close returns, every pool is closed and the map is empty: no request
\* creates a pool behind its back.
CloseWaitsForPools ==
    (\E k \in Closers : closePc[k] = "returned")
        => /\ \A p \in Pools : poolPc[p] \in { "none", "closed" }
           /\ \A d \in Targets : pools[d] = NoPool

Ended(r) == req[r] \in { "new", "failed", "finished" }

\* No request is handed closed pools for ever: it ends, or it is in a pool
\* that has no picker yet, unless pools go on being closed for ever, each just
\* before the request gets to use it.  A prewarm ends, or its pool is, again
\* and again, not warm.  (A pool's close ends neither wait: only the
\* request's own context does.)
RequestsEnd ==
    /\ \A r \in Requests \ Prewarmers :
         <>[](Ended(r) \/ Stalled(r)) \/ []<>(\E p \in Pools : poolPc[p] = "closing")
    /\ \A r \in Prewarmers : []<>(Ended(r) \/ Stalled(r))

\* Every call of close returns, and the cancellation of the root context
\* closes the transport.
CloseReturns ==
    <>[](/\ \A k \in Closers : closePc[k] \in { "idle", "returned" }
         /\ ctxDone => \A p \in Pools : poolPc[p] \in { "none", "closed" })

=============================================================================
