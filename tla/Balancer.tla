------------------------------- MODULE Balancer -------------------------------
(***************************************************************************)
(* The balancer of one transport pool (balancer.go): it keeps one leaf     *)
(* connection for every address the resolver reports, follows their health *)
(* and publishes to the pool the picker over the usable ones.              *)
(*                                                                         *)
(* Four kinds of goroutines act on it: the resolver (OnResolve,            *)
(* OnResolveError), the health checkers, warm-up routines and lifetime     *)
(* timers of the connections (UpdateHealthState, warmedUp, recycle), the   *)
(* owner that closes it, and receiveAddrs, which alone adds and removes    *)
(* connections.  What runs under b.mu is one action.  receiveAddrs is not: *)
(* every call it makes of the pool or of a checker while it does not hold  *)
(* b.mu is an action of its own.                                           *)
(***************************************************************************)
EXTENDS Usability

CONSTANTS
    HostPorts,     \* the addresses the resolver may report
    MaxCopies,     \* how often it may repeat one of them
    MaxConns,      \* bound: connections created over the balancer's life
    MaxResolves,   \* bound: results and errors of the resolver
    MaxRecycles,   \* bound: lifetime timers that fire
    Reports        \* the health states the checkers report

ASSUME BalancerAssumption ==
    /\ IsFiniteSet(HostPorts)
    /\ HostPorts # {}
    /\ MaxCopies \in Nat
    /\ MaxConns \in Nat
    /\ MaxResolves \in Nat
    /\ MaxRecycles \in Nat
    /\ Reports \subseteq States

\* A connection is its address and its number in the order of creation; the
\* slices of connections in the code are in that order.
Conn == HostPorts \X (1..MaxConns)

HostPort(c) == c[1]
Older(c, d) == c[2] < d[2]

\* A resolver's result, as the number of times it names each address.
Addresses == [HostPorts -> 0..MaxCopies]

NoAddresses == [h \in HostPorts |-> 0]

Unresolved == << >>   \* latestAddrs holds no result yet

ConnInfo == [state : States, warm : BOOLEAN]

NewInfo == [state |-> StateUnknown, warm |-> FALSE]

VARIABLES
    \* between the resolver and receiveAddrs
    latestAddrs, latestErr,
    resolverUpdates,     \* the buffered signal
    resolver,            \* "idle", "resolving" or, its result stored, "signalling"
    reresolve,           \* the pool's buffered request for new addresses
    resolves,            \* counts up to MaxResolves
    \* under b.mu
    conns, connInfo, latestUsableConns,
    ignored,             \* history: a result was ignored since the last new picker
    connsToRecycle,
    recycleSignal,       \* the buffered signal b.recycleConns
    \* the goroutine receiveAddrs and its locals
    pc, connsByAddr,
    newAddrs, addConns, removeConns, checkClosers,
    applied,             \* history: the addresses reconciled last
    \* the connections' own goroutines
    checkers, warming, timers, firing,
    recycles,            \* counts up to MaxRecycles
    \* the context
    ctxDone,
    \* the pool, as the balancer sees it
    created, poolConns, poolPicker, poolWarm, poolClosed

resolverVars == << latestAddrs, latestErr, resolverUpdates, resolver, resolves >>
viewVars == << conns, connInfo >>
pickerVars == << latestUsableConns, poolPicker, poolWarm, reresolve, ignored >>
recycleVars == << connsToRecycle, recycleSignal >>
loopVars == << connsByAddr, newAddrs, addConns, removeConns, applied >>
connVars == << warming, timers, firing, recycles >>
poolVars == << created, poolConns, poolClosed >>

vars == << resolverVars, viewVars, pickerVars, recycleVars, loopVars, connVars,
           poolVars, pc, checkClosers, checkers, ctxDone >>

-----------------------------------------------------------------------------

Init ==
    /\ latestAddrs = Unresolved
    /\ latestErr = FALSE
    /\ resolverUpdates = FALSE
    /\ resolver = "idle"
    /\ reresolve = FALSE
    /\ resolves = 0
    /\ conns = {}
    /\ connInfo = [c \in {} |-> NewInfo]
    /\ latestUsableConns = {}
    /\ ignored = FALSE
    /\ connsToRecycle = {}
    /\ recycleSignal = FALSE
    /\ pc = "select"
    /\ connsByAddr = {}
    /\ newAddrs = NoAddresses
    /\ addConns = {}
    /\ removeConns = {}
    /\ checkClosers = {}
    /\ applied = NoAddresses
    /\ checkers = {}
    /\ warming = {}
    /\ timers = {}
    /\ firing = {}
    /\ recycles = 0
    /\ ctxDone = FALSE
    /\ created = {}
    /\ poolConns = {}
    /\ poolPicker = {}
    /\ poolWarm = FALSE
    /\ poolClosed = FALSE

-----------------------------------------------------------------------------
(* Publishing a picker.  These run under b.mu.                             *)

View(cs, info) == [c \in cs |-> info[c].state]

IsWarm(usable, info) ==
    \E c \in usable : info[c].warm /\ info[c].state = StateHealthy

\* Mutant of NewPicker: publishes nothing when the usable connections did not
\* change.
NewPickerIfChanged(cs, info) ==
    LET usable == Usable(View(cs, info))
        changed == usable # latestUsableConns \/ usable = {}
    IN  /\ latestUsableConns' = IF usable = {} THEN latestUsableConns ELSE usable
        /\ poolPicker' = IF changed THEN usable ELSE poolPicker
        /\ poolWarm' = IF changed THEN IsWarm(usable, info) ELSE poolWarm
        /\ reresolve' = (reresolve \/ NeedsReresolve(View(cs, info)))
        /\ ignored' = FALSE

\* Mutant of NewPicker: asks for new addresses only when they changed.
NewPickerAskIfChanged(cs, info) ==
    LET usable == Usable(View(cs, info))
    IN  /\ latestUsableConns' = IF usable = {} THEN latestUsableConns ELSE usable
        /\ poolPicker' = usable
        /\ poolWarm' = IsWarm(usable, info)
        /\ reresolve' = (reresolve \/ ( /\ usable # latestUsableConns
                                        /\ NeedsReresolve(View(cs, info))))
        /\ ignored' = FALSE

\* newPickerLocked.  A pool that has no usable connection gets a picker that
\* fails every request: it chooses from no connection.  The picker for an
\* unchanged set of usable connections is the one built before, but it is
\* published again: the pool may have been given a failing one in between.
NewPicker(cs, info) ==
    LET usable == Usable(View(cs, info))
    IN  /\ latestUsableConns' = IF usable = {} THEN latestUsableConns ELSE usable
        /\ poolPicker' = usable
        /\ poolWarm' = IsWarm(usable, info)
        /\ reresolve' = (reresolve \/ NeedsReresolve(View(cs, info)))
        /\ ignored' = FALSE

SetErrorPicker ==
    /\ poolPicker' = {}
    /\ poolWarm' = FALSE
    /\ UNCHANGED << latestUsableConns, reresolve, ignored >>

-----------------------------------------------------------------------------
(* The resolver.                                                           *)

\* On its own account, or on the pool's request, which it takes.
StartResolve ==
    /\ resolver = "idle"
    /\ resolves < MaxResolves
    /\ resolver' = "resolving"
    /\ resolves' = resolves + 1
    /\ reresolve' \in { reresolve, FALSE }
    /\ UNCHANGED << latestAddrs, latestErr, resolverUpdates, viewVars,
                    latestUsableConns, poolPicker, poolWarm, ignored,
                    recycleVars, loopVars, connVars, poolVars, pc,
                    checkClosers, checkers, ctxDone >>

OnResolve(addresses) ==
    /\ resolver = "resolving"
    /\ latestAddrs' = addresses
    /\ resolver' = "signalling"
    /\ UNCHANGED << latestErr, resolverUpdates, resolves, viewVars, pickerVars,
                    recycleVars, loopVars, connVars, poolVars, pc,
                    checkClosers, checkers, ctxDone >>

OnResolveError ==
    /\ resolver = "resolving"
    /\ latestErr' = TRUE
    /\ resolver' = "signalling"
    /\ UNCHANGED << latestAddrs, resolverUpdates, resolves, viewVars,
                    pickerVars, recycleVars, loopVars, connVars, poolVars, pc,
                    checkClosers, checkers, ctxDone >>

\* Mutant of SignalUpdate: the signal has no buffer.
SignalUnbuffered ==
    /\ resolver = "signalling"
    /\ resolverUpdates' = (pc = "select")
    /\ resolver' = "idle"
    /\ UNCHANGED << latestAddrs, latestErr, resolves, viewVars, pickerVars,
                    recycleVars, loopVars, connVars, poolVars, pc,
                    checkClosers, checkers, ctxDone >>

\* Both then signal receiveAddrs, without blocking.
SignalUpdate ==
    /\ resolver = "signalling"
    /\ resolverUpdates' = TRUE
    /\ resolver' = "idle"
    /\ UNCHANGED << latestAddrs, latestErr, resolves, viewVars, pickerVars,
                    recycleVars, loopVars, connVars, poolVars, pc,
                    checkClosers, checkers, ctxDone >>

-----------------------------------------------------------------------------
(* The goroutines of a connection.  Each of them may be late: the balancer *)
(* may have dropped the connection by the time it gets b.mu.               *)

UpdateHealthState(c, state) ==
    /\ c \in checkers
    /\ c \in DOMAIN connInfo
    /\ connInfo[c].state # state
    /\ connInfo' = [connInfo EXCEPT ![c].state = state]
    /\ NewPicker(conns, connInfo')
    /\ UNCHANGED << resolverVars, conns, recycleVars, loopVars, connVars,
                    poolVars, pc, checkClosers, checkers, ctxDone >>

\* Prewarm returned no error.  (When it returns one, nothing happens.)
WarmedUp(c) ==
    /\ c \in warming
    /\ warming' = warming \ {c}
    /\ IF c \in DOMAIN connInfo
       THEN /\ connInfo' = [connInfo EXCEPT ![c].warm = TRUE]
            /\ NewPicker(conns, connInfo')
       ELSE UNCHANGED << connInfo, pickerVars >>
    /\ UNCHANGED << resolverVars, conns, recycleVars, loopVars, timers, firing,
                    recycles, poolVars, pc, checkClosers, checkers, ctxDone >>

\* The connection reached the end of its lifetime: its timer's goroutine
\* starts.  Stopping the timer no longer has an effect.
TimerFires(c) ==
    /\ c \in timers
    /\ recycles < MaxRecycles
    /\ recycles' = recycles + 1
    /\ timers' = timers \ {c}
    /\ firing' = firing \cup {c}
    /\ UNCHANGED << resolverVars, viewVars, pickerVars, recycleVars, loopVars,
                    warming, poolVars, pc, checkClosers, checkers, ctxDone >>

\* Mutant of Recycle: the signal has no buffer.
RecycleUnbuffered(c) ==
    /\ c \in firing
    /\ firing' = firing \ {c}
    /\ connsToRecycle' = connsToRecycle \cup {c}
    /\ recycleSignal' = (pc = "select")
    /\ UNCHANGED << resolverVars, viewVars, pickerVars, loopVars, warming,
                    timers, recycles, poolVars, pc, checkClosers, checkers,
                    ctxDone >>

Recycle(c) ==
    /\ c \in firing
    /\ firing' = firing \ {c}
    /\ connsToRecycle' = connsToRecycle \cup {c}
    /\ recycleSignal' = TRUE
    /\ UNCHANGED << resolverVars, viewVars, pickerVars, loopVars, warming,
                    timers, recycles, poolVars, pc, checkClosers, checkers,
                    ctxDone >>

-----------------------------------------------------------------------------
(* receiveAddrs: the select, and what it does with each case.              *)

SelectDone ==
    /\ pc = "select"
    /\ ctxDone
    /\ pc' = "shutdown"
    /\ UNCHANGED << resolverVars, viewVars, pickerVars, recycleVars, loopVars,
                    connVars, poolVars, checkClosers, checkers, ctxDone >>

SelectRecycle ==
    /\ pc = "select"
    /\ recycleSignal
    /\ recycleSignal' = FALSE
    /\ pc' = "recycling"
    /\ UNCHANGED << resolverVars, viewVars, pickerVars, connsToRecycle,
                    loopVars, connVars, poolVars, checkClosers, checkers,
                    ctxDone >>

SelectUpdate ==
    /\ pc = "select"
    /\ resolverUpdates
    /\ resolverUpdates' = FALSE
    /\ pc' = "loading"
    /\ UNCHANGED << latestAddrs, latestErr, resolver, resolves, viewVars,
                    pickerVars, recycleVars, loopVars, connVars, poolVars,
                    checkClosers, checkers, ctxDone >>

ConnsAt(hostPort) == { c \in connsByAddr : HostPort(c) = hostPort }

\* Mutant of Remaining: off by one, keeps one too many.
RemainingOneMore(want) ==
    { c \in connsByAddr :
        Cardinality({ d \in ConnsAt(HostPort(c)) : Older(d, c) })
            <= want[HostPort(c)] }

\* The connections that reconcileAddresses keeps when it wants want[h] of
\* each address h: the oldest ones.
Remaining(want) ==
    { c \in connsByAddr :
        Cardinality({ d \in ConnsAt(HostPort(c)) : Older(d, c) })
            < want[HostPort(c)] }

\* How many connections it adds for each address.
Missing(want) ==
    [h \in HostPorts |->
        LET got == Cardinality(ConnsAt(h))
        IN  IF want[h] > got THEN want[h] - got ELSE 0]

\* Errors only matter, and are only consumed, while there is no result; a
\* result without addresses is ignored.
LoadAddrs ==
    /\ pc = "loading"
    /\ \/ /\ latestAddrs = Unresolved
          /\ IF latestErr THEN SetErrorPicker ELSE UNCHANGED pickerVars
          /\ latestErr' = FALSE
          /\ pc' = "select"
          /\ UNCHANGED loopVars
       \/ /\ latestAddrs = NoAddresses
          /\ ignored' = TRUE
          /\ pc' = "select"
          /\ UNCHANGED << latestErr, latestUsableConns, poolPicker, poolWarm,
                          reresolve, loopVars >>
       \/ /\ latestAddrs \notin { Unresolved, NoAddresses }
          /\ connsByAddr' = Remaining(latestAddrs)
          /\ removeConns' = connsByAddr \ connsByAddr'
          /\ newAddrs' = Missing(latestAddrs)
          /\ addConns' = {}
          /\ applied' = latestAddrs
          /\ pc' = "adding"
          /\ UNCHANGED << latestErr, pickerVars >>
    /\ UNCHANGED << latestAddrs, resolverUpdates, resolver, resolves, viewVars,
                    recycleVars, connVars, poolVars, checkClosers, checkers,
                    ctxDone >>

\* Takes the list of expired connections; those that are still managed are
\* replaced, one for one.
RecycleConns ==
    LET expired == connsToRecycle \cap connsByAddr
    IN  /\ pc = "recycling"
        /\ connsToRecycle' = {}
        /\ IF expired = {}
           THEN pc' = "select" /\ UNCHANGED loopVars
           ELSE /\ connsByAddr' = connsByAddr \ expired
                /\ removeConns' = expired
                /\ newAddrs' = [h \in HostPorts |->
                       Cardinality({ c \in expired : HostPort(c) = h })]
                /\ addConns' = {}
                /\ pc' = "adding"
                /\ UNCHANGED applied
        /\ UNCHANGED << resolverVars, viewVars, pickerVars, recycleSignal,
                        connVars, poolVars, checkClosers, checkers, ctxDone >>

-----------------------------------------------------------------------------
(* updateConns, in the order of its effects: new connections first, then   *)
(* under b.mu the new picker, then the checkers, then the old connections. *)

\* pool.NewConn for one of the new addresses; a closed pool refuses it.
NewConn(c) ==
    /\ pc = "adding"
    /\ newAddrs[HostPort(c)] > 0
    /\ newAddrs' = [newAddrs EXCEPT ![HostPort(c)] = @ - 1]
    /\ ~poolClosed
    /\ c[2] = Cardinality(created) + 1
    /\ created' = created \cup {c}
    /\ poolConns' = poolConns \cup {c}
    /\ addConns' = addConns \cup {c}
    /\ UNCHANGED << resolverVars, viewVars, pickerVars, recycleVars,
                    connsByAddr, removeConns, applied, connVars, poolClosed,
                    pc, checkClosers, checkers, ctxDone >>

NewConnRefused(hostPort) ==
    /\ pc = "adding"
    /\ newAddrs[hostPort] > 0
    /\ newAddrs' = [newAddrs EXCEPT ![hostPort] = @ - 1]
    /\ poolClosed
    /\ UNCHANGED << resolverVars, viewVars, pickerVars, recycleVars,
                    connsByAddr, addConns, removeConns, applied, connVars,
                    poolVars, pc, checkClosers, checkers, ctxDone >>

\* Mutant of UpdateConns: forgets the checkers of the old connections.
UpdateConnsLeaksCheckers ==
    LET dropped == conns \cap removeConns
        kept == (DOMAIN connInfo \ dropped) \cup addConns
    IN  /\ pc = "adding"
        /\ newAddrs = NoAddresses
        /\ conns' = (conns \ removeConns) \cup addConns
        /\ connInfo' = [c \in kept |->
               IF c \in addConns THEN NewInfo ELSE connInfo[c]]
        /\ NewPicker(conns', connInfo')
        /\ checkers' = checkers \cup addConns
        /\ warming' = warming \cup addConns
        /\ timers' = (timers \ dropped) \cup addConns
        /\ pc' = "removing"
        /\ UNCHANGED << resolverVars, recycleVars, loopVars, firing, recycles,
                        poolVars, checkClosers, ctxDone >>

\* Under b.mu: drops the old connections, stops their timers, starts checker,
\* warm-up and timer of the new ones, and publishes a picker.
UpdateConns ==
    LET dropped == conns \cap removeConns
        kept == (DOMAIN connInfo \ dropped) \cup addConns
    IN  /\ pc = "adding"
        /\ newAddrs = NoAddresses
        /\ conns' = (conns \ removeConns) \cup addConns
        /\ connInfo' = [c \in kept |->
               IF c \in addConns THEN NewInfo ELSE connInfo[c]]
        /\ NewPicker(conns', connInfo')
        /\ checkers' = checkers \cup addConns
        /\ warming' = warming \cup addConns
        /\ timers' = (timers \ dropped) \cup addConns
        /\ checkClosers' = dropped
        /\ pc' = "removing"
        /\ UNCHANGED << resolverVars, recycleVars, loopVars, firing, recycles,
                        poolVars, ctxDone >>

\* Mutant of CloseChecker: the shutdown closes none.
CloseCheckerInUpdate(c) ==
    /\ pc = "removing"
    /\ c \in checkClosers
    /\ checkClosers' = checkClosers \ {c}
    /\ checkers' = checkers \ {c}
    /\ UNCHANGED << resolverVars, viewVars, pickerVars, recycleVars, loopVars,
                    connVars, poolVars, pc, ctxDone >>

\* Closing a checker also ends its goroutine.
CloseChecker(c) ==
    /\ pc \in { "removing", "stopping" }
    /\ c \in checkClosers
    /\ checkClosers' = checkClosers \ {c}
    /\ checkers' = checkers \ {c}
    /\ UNCHANGED << resolverVars, viewVars, pickerVars, recycleVars, loopVars,
                    connVars, poolVars, pc, ctxDone >>

\* Mutant of RemoveConn: does not wait for the new picker.
RemoveConnFirst(c) ==
    /\ pc \in { "adding", "removing" }
    /\ checkClosers = {}
    /\ c \in removeConns
    /\ removeConns' = removeConns \ {c}
    /\ poolConns' = poolConns \ {c}
    /\ UNCHANGED << resolverVars, viewVars, pickerVars, recycleVars,
                    connsByAddr, newAddrs, addConns, applied, connVars, created,
                    poolClosed, pc, checkClosers, checkers, ctxDone >>

RemoveConn(c) ==
    /\ pc = "removing"
    /\ checkClosers = {}
    /\ c \in removeConns
    /\ removeConns' = removeConns \ {c}
    /\ poolConns' = poolConns \ {c}
    /\ UNCHANGED << resolverVars, viewVars, pickerVars, recycleVars,
                    connsByAddr, newAddrs, addConns, applied, connVars, created,
                    poolClosed, pc, checkClosers, checkers, ctxDone >>

\* Mutant of FinishUpdate: does not take over the new connections.
FinishUpdateForgets ==
    /\ pc = "removing"
    /\ checkClosers = {}
    /\ removeConns = {}
    /\ addConns' = {}
    /\ pc' = "select"
    /\ UNCHANGED << resolverVars, viewVars, pickerVars, recycleVars, connsByAddr,
                    removeConns, newAddrs, applied, connVars, poolVars,
                    checkClosers, checkers, ctxDone >>

\* doUpdate takes over the new connections.
FinishUpdate ==
    /\ pc = "removing"
    /\ checkClosers = {}
    /\ removeConns = {}
    /\ connsByAddr' = connsByAddr \cup addConns
    /\ addConns' = {}
    /\ pc' = "select"
    /\ UNCHANGED << resolverVars, viewVars, pickerVars, recycleVars,
                    removeConns, newAddrs, applied, connVars, poolVars,
                    checkClosers, checkers, ctxDone >>

-----------------------------------------------------------------------------
(* Closing.                                                                *)

\* The deferred function of receiveAddrs: it forgets every connection's info,
\* under b.mu, and then closes their checkers.
Shutdown ==
    /\ pc = "shutdown"
    /\ checkClosers' = DOMAIN connInfo
    /\ timers' = timers \ DOMAIN connInfo
    /\ connInfo' = [c \in {} |-> NewInfo]
    /\ pc' = "stopping"
    /\ UNCHANGED << resolverVars, conns, pickerVars, recycleVars, loopVars,
                    warming, firing, recycles, poolVars, checkers, ctxDone >>

FinishClose ==
    /\ pc = "stopping"
    /\ checkClosers = {}
    /\ pc' = "closed"
    /\ UNCHANGED << resolverVars, viewVars, pickerVars, recycleVars, loopVars,
                    connVars, poolVars, checkClosers, checkers, ctxDone >>

\* transportPool.close marks the pool; its balancer is not told yet.
ClosePool ==
    /\ ~poolClosed
    /\ poolClosed' = TRUE
    /\ UNCHANGED << resolverVars, viewVars, pickerVars, recycleVars, loopVars,
                    connVars, created, poolConns, pc, checkClosers, checkers,
                    ctxDone >>

\* Close, or the cancellation of the context that the balancer's is derived
\* from.
Cancel ==
    /\ ~ctxDone
    /\ ctxDone' = TRUE
    /\ UNCHANGED << resolverVars, viewVars, pickerVars, recycleVars, loopVars,
                    connVars, poolVars, pc, checkClosers, checkers >>

-----------------------------------------------------------------------------

ResolverNext ==
    \/ StartResolve
    \/ \E addresses \in Addresses : OnResolve(addresses)
    \/ OnResolveError
    \/ SignalUpdate

ConnNext ==
    \E c \in Conn :
        \/ \E state \in Reports : UpdateHealthState(c, state)
        \/ WarmedUp(c)
        \/ TimerFires(c)
        \/ Recycle(c)

\* What receiveAddrs does between two rounds of its select.
Work ==
    \/ RecycleConns
    \/ LoadAddrs
    \/ \E c \in Conn : NewConn(c) \/ CloseChecker(c) \/ RemoveConn(c)
    \/ \E h \in HostPorts : NewConnRefused(h)
    \/ UpdateConns
    \/ FinishUpdate
    \/ Shutdown
    \/ FinishClose

Select == SelectDone \/ SelectRecycle \/ SelectUpdate

Next == ResolverNext \/ ConnNext \/ Select \/ Work \/ ClosePool \/ Cancel

Spec == Init /\ [][Next]_vars

\* Go's select chooses at random among the cases that are ready, so that no
\* case which is ready again and again is passed over for ever.
Fairness ==
    /\ WF_vars(Work)
    /\ WF_vars(SignalUpdate)
    /\ SF_vars(SelectDone)
    /\ SF_vars(SelectRecycle)
    /\ SF_vars(SelectUpdate)

FairSpec == Spec /\ Fairness

-----------------------------------------------------------------------------
(* Properties.                                                             *)

TypeOK ==
    /\ latestAddrs \in Addresses \cup { Unresolved }
    /\ latestErr \in BOOLEAN
    /\ resolverUpdates \in BOOLEAN
    /\ resolver \in { "idle", "resolving", "signalling" }
    /\ reresolve \in BOOLEAN
    /\ resolves \in 0..MaxResolves
    /\ conns \subseteq Conn
    /\ DOMAIN connInfo \subseteq Conn
    /\ connInfo \in [DOMAIN connInfo -> ConnInfo]
    /\ latestUsableConns \subseteq Conn
    /\ ignored \in BOOLEAN
    /\ connsToRecycle \subseteq Conn
    /\ recycleSignal \in BOOLEAN
    /\ pc \in { "select", "recycling", "loading", "adding", "removing",
                "shutdown", "stopping", "closed" }
    /\ connsByAddr \subseteq Conn
    /\ newAddrs \in [HostPorts -> Nat]
    /\ addConns \subseteq Conn
    /\ removeConns \subseteq Conn
    /\ checkClosers \subseteq Conn
    /\ applied \in Addresses
    /\ checkers \subseteq Conn
    /\ warming \subseteq Conn
    /\ timers \subseteq Conn
    /\ firing \subseteq Conn
    /\ recycles \in 0..MaxRecycles
    /\ ctxDone \in BOOLEAN
    /\ created \subseteq Conn
    /\ poolConns \subseteq Conn
    /\ poolPicker \subseteq Conn
    /\ poolWarm \in BOOLEAN
    /\ poolClosed \in BOOLEAN

\* The picker the pool holds, and the warm mark that goes with it, are those
\* of the connections' current states, however reports, warm-ups, resolver
\* results and recycling interleave: no step publishes from an outdated view
\* or forgets to publish.
PickerCurrent ==
    pc \notin { "stopping", "closed" } =>
        LET usable == Usable(View(conns, connInfo))
        IN  poolPicker = usable /\ poolWarm = IsWarm(usable, connInfo)

\* The published picker never chooses a connection that the pool has been
\* told to remove, not even while an update is half done.
PickerWithinPool == poolPicker \subseteq poolConns

\* The four records of which connections exist agree whenever receiveAddrs
\* is between two updates: connManager's, the balancer's, the balancer's
\* infos and the pool's.
BooksAgree ==
    pc = "select" =>
        /\ connsByAddr = conns
        /\ DOMAIN connInfo = conns
        /\ poolConns = conns

\* Recycling never changes how many connections an address has: between two
\* updates every address has as many as the last result named it, unless the
\* pool is closed and refuses new ones.
CountsMatch ==
    pc = "select" /\ ~poolClosed =>
        \A h \in HostPorts : Cardinality(ConnsAt(h)) = applied[h]

\* Once the balancer is closed no checker runs and no lifetime timer is armed,
\* those of connections that were dropped in mid-update included.
StoppedWhenClosed == pc = "closed" => checkers = {} /\ timers = {}

\* While at most half of the connections are healthy, the balancer, whenever
\* it is at rest, has a request for new addresses pending with the resolver.
\* A result that names addresses, the same ones included, or an error after one
\* never uses the request up for good.  A result without addresses does: it is
\* ignored before a new picker would ask again, and nobody asks until a
\* connection's state changes or one expires.
UnhealthyAsksAgain ==
    /\ pc = "select"
    /\ ~resolverUpdates
    /\ resolver = "idle"
    /\ latestAddrs # Unresolved
    /\ NeedsReresolve(View(conns, connInfo))
    => reresolve \/ ignored

\* The latest addresses get applied, although signals coalesce, unless the
\* balancer is closed.  (The resolver's results and the timers that fire are
\* bounded: what must happen after the last of them must hold in the end.)
LatestAddressesApplied ==
    <>[](\/ ctxDone
         \/ latestAddrs \in { Unresolved, NoAddresses }
         \/ applied = latestAddrs)

\* A connection that outlived its lifetime leaves the pool: those that stay are
\* not yet due.
ExpiredReplaced ==
    <>[](ctxDone \/ poolConns \subseteq timers \cup firing)

\* Closing the balancer completes, whatever it was doing.
CloseCompletes == <>[](ctxDone => pc = "closed")

-----------------------------------------------------------------------------

Contract == INSTANCE BalancerContract

\* To its pool the balancer behaves as the contract says.
ImplementsContract == Contract!ContractSpec

=============================================================================
