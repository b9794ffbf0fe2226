----------------------------- MODULE TransportPool -----------------------------
(***************************************************************************)
(* The transport pool of one target (type transportPool of transport.go):  *)
(* it holds the leaf connections and the picker that chooses among them,   *)
(* serves requests, and is torn down by close.                             *)
(*                                                                         *)
(* The pool stands between a balancer and its leaf connections, and relies *)
(* on what each promises: the balancer's calls are the steps of            *)
(* BalancerContract (module Balancer implements it), and a connection is   *)
(* driven as ConnectionContract allows (module Connection implements it).  *)
(* Requests retry through the main transport, which hands out the pool     *)
(* only while it is linked in its map; it unlinks a pool before closing it.*)
(* What runs under t.mu is one action.                                     *)
(***************************************************************************)
EXTENDS FiniteSets

CONSTANTS
    Conn,        \* the connections the balancer may ever create
    NoConn,      \* not a connection: what a request uses outside of the pool
    Requests,
    Closers,     \* the goroutines that call close
    Prewarmers,  \* the goroutines that call prewarm
    WarmReports  \* what isWarm may be in calls of UpdatePicker

ASSUME PoolAssumption ==
    /\ NoConn \notin Conn
    /\ WarmReports \subseteq BOOLEAN

VARIABLES
    created,            \* all connections NewConn ever returned
    conns,              \* the active ones
    removedConns,       \* those pending closure
    closed,             \* close has been called
    picker,             \* the connections the picker chooses from
    hasPicker,          \* the pointer t.picker is not nil
    pickerInitialized,  \* the channel of that name is closed
    publishing,         \* where the balancer is in UpdatePicker
    pendingWarm,        \* its isWarm argument
    isWarm,
    linked,             \* the main transport's map still has the pool
    gate,               \* each connection: "open", "closing" or "drained"
    tornDown,           \* connections whose round tripper is closed
    closing,            \* each goroutine that closes a connection
    req,                \* each request in RoundTrip
    chosen,             \* the connection each request uses
    closePc,            \* each goroutine in close
    snapshot,           \* the connections that close saw
    balancerClosed,
    closeComplete,      \* the channel of that name is closed
    prewarm,            \* each goroutine in prewarm
    prewarmCtx          \* its context, and the goroutine that watches it

leafVars == << gate, tornDown, closing >>
connVars == << created, conns, removedConns, leafVars >>
publishVars == << hasPicker, pickerInitialized, publishing, pendingWarm >>
pickerVars == << picker, publishVars >>
requestVars == << req, chosen >>
balancerVars == << balancerClosed, closeComplete >>
closeVars == << closed, linked, closePc, snapshot, balancerVars >>
warmVars == << isWarm, prewarm, prewarmCtx >>

vars == << connVars, pickerVars, requestVars, closeVars, warmVars >>

Balancer == INSTANCE BalancerContract WITH
    poolConns <- conns,
    poolPicker <- picker

-----------------------------------------------------------------------------

\* The goroutines that run a connection's close: RemoveConn starts one, the
\* pool's close another.
CloseCalls == { "RemoveConn", "close" }

Stages == { "none", "started", "waiting", "drained", "tornDown", "done" }

InFlightOn(c) == { r \in Requests : req[r] = "inFlight" /\ chosen[r] = c }

Init ==
    /\ Balancer!ContractInit
    /\ removedConns = {}
    /\ closed = FALSE
    /\ hasPicker = FALSE
    /\ pickerInitialized = FALSE
    /\ publishing = "none"
    /\ pendingWarm = FALSE
    /\ isWarm = FALSE
    /\ linked = TRUE
    /\ gate = [c \in Conn |-> "open"]
    /\ tornDown = {}
    /\ closing = [c \in Conn |-> [call \in CloseCalls |-> "none"]]
    /\ req = [r \in Requests |-> "new"]
    /\ chosen = [r \in Requests |-> NoConn]
    /\ closePc = [k \in Closers |-> "idle"]
    /\ snapshot = {}
    /\ balancerClosed = FALSE
    /\ closeComplete = FALSE
    /\ prewarm = [p \in Prewarmers |-> "idle"]
    /\ prewarmCtx = [p \in Prewarmers |-> "live"]

-----------------------------------------------------------------------------
(* The balancer's calls.                                                   *)

\* Mutant of Accepting: NewConn does not check whether the pool is closed.
AcceptingAlways == TRUE

Accepting == ~closed

NewConn(c) ==
    /\ ~balancerClosed
    /\ Accepting
    /\ Balancer!Create(c)
    /\ UNCHANGED << removedConns, leafVars, publishVars, requestVars, closeVars, warmVars >>

RemoveConn(c) ==
    /\ ~balancerClosed
    /\ Balancer!Remove(c)
    /\ removedConns' = removedConns \cup {c}
    /\ closing' = [closing EXCEPT ![c]["RemoveConn"] = "started"]
    /\ UNCHANGED << gate, tornDown, publishVars, requestVars, closeVars, warmVars >>

\* Mutant of StorePicker: closes the channel first and stores afterwards.
SignalBeforeStore(usable, warm) ==
    /\ ~balancerClosed
    /\ publishing = "none"
    /\ pickerInitialized' = TRUE
    /\ hasPicker' = pickerInitialized
    /\ Balancer!Publish(IF pickerInitialized THEN usable ELSE picker)
    /\ UNCHANGED << removedConns, leafVars, publishing, pendingWarm, requestVars,
                    closeVars, warmVars >>

\* UpdatePicker: it stores the picker; if there was none before, it closes
\* pickerInitialized; then it notes, under t.mu, whether the pool is warm.
StorePicker(usable, warm) ==
    /\ ~balancerClosed
    /\ publishing = "none"
    /\ Balancer!Publish(usable)
    /\ hasPicker' = TRUE
    /\ publishing' = IF hasPicker THEN "warming" ELSE "initializing"
    /\ pendingWarm' = warm
    /\ UNCHANGED << removedConns, leafVars, pickerInitialized, requestVars, closeVars, warmVars >>

InitializePicker ==
    /\ publishing = "initializing"
    /\ pickerInitialized' = TRUE
    /\ publishing' = "warming"
    /\ UNCHANGED << connVars, picker, hasPicker, pendingWarm, requestVars, closeVars, warmVars >>

\* Mutant of Woken: no broadcast.
Unwoken == prewarm

\* t.warmCond.Broadcast()
Woken == [p \in Prewarmers |-> IF prewarm[p] = "sleeping" THEN "awake" ELSE prewarm[p]]

UpdateWarm ==
    /\ publishing = "warming"
    /\ isWarm' = pendingWarm
    /\ prewarm' = IF pendingWarm THEN Woken ELSE prewarm
    /\ publishing' = "none"
    /\ pendingWarm' = FALSE
    /\ UNCHANGED << connVars, picker, hasPicker, pickerInitialized, requestVars, closeVars,
                    prewarmCtx >>

-----------------------------------------------------------------------------
(* A leaf connection's close, run by RemoveConn's goroutine or by the      *)
(* pool's: mark it, wait until its requests are gone, close the round      *)
(* tripper, and report to the pool.                                        *)

Advance(c, call, from, to) ==
    /\ closing[c][call] = from
    /\ closing' = [closing EXCEPT ![c][call] = to]
    /\ UNCHANGED << created, conns, pickerVars, requestVars, closeVars, warmVars >>

MarkClosing(c, call) ==
    /\ Advance(c, call, "started", "waiting")
    /\ gate' = [gate EXCEPT ![c] = IF @ = "open" THEN "closing" ELSE @]
    /\ UNCHANGED << removedConns, tornDown >>

\* Mutant of Acquiesced: does not wait for the requests in flight.
AcquiescedAtOnce(c) == TRUE

Acquiesced(c) == InFlightOn(c) = {}

Drain(c, call) ==
    /\ Advance(c, call, "waiting", "drained")
    /\ Acquiesced(c)
    /\ gate' = [gate EXCEPT ![c] = "drained"]
    /\ UNCHANGED << removedConns, tornDown >>

TearDown(c, call) ==
    /\ Advance(c, call, "drained", "tornDown")
    /\ tornDown' = tornDown \cup {c}
    /\ UNCHANGED << removedConns, gate >>

\* connClosed rebuilds removedConns, but from the active connections.
ConnClosed(c, call) ==
    /\ Advance(c, call, "tornDown", "done")
    /\ removedConns' = conns \ {c}
    /\ UNCHANGED << gate, tornDown >>

-----------------------------------------------------------------------------
(* RoundTrip of the main transport and of the pool.                        *)

RequestGoto(r, from, to) ==
    /\ req[r] = from
    /\ req' = [req EXCEPT ![r] = to]
    /\ UNCHANGED << connVars, pickerVars, closeVars, warmVars >>

\* The main transport looks the pool up.
Enter(r) == linked /\ RequestGoto(r, "new", "entered") /\ UNCHANGED chosen

\* The picker chooses one of its connections; with none it returns an error.
Pick(r, from) ==
    \/ picker = {} /\ RequestGoto(r, from, "failed") /\ UNCHANGED chosen
    \/ \E c \in picker :
         RequestGoto(r, from, "picked") /\ chosen' = [chosen EXCEPT ![r] = c]

GetConnection(r) ==
    \/ hasPicker /\ Pick(r, "entered")
    \/ ~hasPicker /\ RequestGoto(r, "entered", "waiting") /\ UNCHANGED chosen

\* The channel is closed: there must be a picker now.
AwaitPicker(r) ==
    /\ pickerInitialized
    /\ \/ hasPicker /\ Pick(r, "waiting")
       \/ ~hasPicker /\ RequestGoto(r, "waiting", "notInitialized") /\ UNCHANGED chosen

\* The request's own context ends.
CancelRequest(r) == RequestGoto(r, "waiting", "failed") /\ UNCHANGED chosen

\* The chosen connection admits the request, or has been marked since.
StartRequest(r) ==
    \/ /\ RequestGoto(r, "picked", "inFlight")
       /\ gate[chosen[r]] = "open"
       /\ UNCHANGED chosen
    \/ /\ RequestGoto(r, "picked", "tryAgain")
       /\ gate[chosen[r]] # "open"
       /\ chosen' = [chosen EXCEPT ![r] = NoConn]

\* Mutant of Again: retries with the same pool.
AgainHere == "entered"

\* The main transport looks the pool up again.  Once this pool is unlinked the
\* request gets another, or an error.
Again == IF linked THEN "entered" ELSE "elsewhere"

\* errTryAgain.
TryAgain(r) == RequestGoto(r, "tryAgain", Again) /\ UNCHANGED chosen

FinishRequest(r) ==
    /\ RequestGoto(r, "inFlight", "finished")
    /\ chosen' = [chosen EXCEPT ![r] = NoConn]

-----------------------------------------------------------------------------
(* close.                                                                  *)

\* The main transport drops the pool, and only then closes it.
Unlink ==
    /\ linked
    /\ linked' = FALSE
    /\ UNCHANGED << connVars, pickerVars, requestVars, closed, closePc, snapshot,
                    balancerVars, warmVars >>

CloseGoto(k, from, to) ==
    /\ closePc[k] = from
    /\ closePc' = [closePc EXCEPT ![k] = to]
    /\ UNCHANGED << pickerVars, requestVars, linked, warmVars >>

\* The first caller takes the lists of connections, the others wait for it.
CallClose(k) ==
    /\ ~linked
    /\ closed' = TRUE
    /\ \/ closed /\ CloseGoto(k, "idle", "awaiting") /\ UNCHANGED snapshot
       \/ /\ ~closed /\ CloseGoto(k, "idle", "closingBalancer")
          /\ snapshot' = conns \cup removedConns
    /\ UNCHANGED << connVars, balancerVars >>

\* Mutant of StopBalancer: closes the connections under a live balancer.
LeaveBalancer == UNCHANGED balancerClosed

\* The resolver and the balancer are closed, which completes a call of
\* UpdatePicker.
StopBalancer == publishing = "none" /\ balancerClosed' = TRUE

\* Then a goroutine for each of the connections seen starts to close it.
CloseBalancer(k) ==
    /\ CloseGoto(k, "closingBalancer", "closingConns")
    /\ StopBalancer
    /\ closing' = [c \in Conn |->
           IF c \in snapshot THEN [closing[c] EXCEPT !["close"] = "started"] ELSE closing[c]]
    /\ UNCHANGED << created, conns, removedConns, gate, tornDown, closed, snapshot, closeComplete >>

\* Mutant of Complete: leaves the channel open.
LeaveIncomplete == UNCHANGED closeComplete

Complete == closeComplete' = TRUE

FinishClose(k) ==
    /\ CloseGoto(k, "closingConns", "returned")
    /\ \A c \in snapshot : closing[c]["close"] = "done"
    /\ Complete
    /\ UNCHANGED << connVars, closed, snapshot, balancerClosed >>

AwaitClose(k) ==
    /\ CloseGoto(k, "awaiting", "returned")
    /\ closeComplete
    /\ UNCHANGED << connVars, closed, snapshot, balancerVars >>

-----------------------------------------------------------------------------
(* prewarm, for a pool that is kept warm.                                  *)

Prewarm(p) ==
    /\ prewarm[p] = "idle"
    /\ prewarm' = [prewarm EXCEPT ![p] = IF isWarm \/ closed THEN "returned" ELSE "awake"]
    /\ UNCHANGED << connVars, pickerVars, requestVars, closeVars, isWarm, prewarmCtx >>

\* One turn of the loop, which holds t.mu but for the Wait.
PrewarmLoop(p) ==
    /\ prewarm[p] = "awake"
    /\ prewarm' = [prewarm EXCEPT ![p] =
           IF isWarm THEN "returned"
           ELSE IF prewarmCtx[p] # "live" THEN "failed" ELSE "sleeping"]
    /\ UNCHANGED << connVars, pickerVars, requestVars, closeVars, isWarm, prewarmCtx >>

CancelPrewarm(p) ==
    /\ prewarmCtx[p] = "live"
    /\ prewarmCtx' = [prewarmCtx EXCEPT ![p] = "cancelled"]
    /\ UNCHANGED << connVars, pickerVars, requestVars, closeVars, isWarm, prewarm >>

\* The goroutine that prewarm starts wakes its loop, and every other.
WakeCancelled(p) ==
    /\ prewarmCtx[p] = "cancelled"
    /\ prewarm[p] \in { "awake", "sleeping" }
    /\ prewarmCtx' = [prewarmCtx EXCEPT ![p] = "broadcast"]
    /\ prewarm' = Woken
    /\ UNCHANGED << connVars, pickerVars, requestVars, closeVars, isWarm >>

-----------------------------------------------------------------------------

BalancerNext ==
    \/ \E c \in Conn : NewConn(c) \/ RemoveConn(c)
    \/ \E usable \in SUBSET conns, warm \in WarmReports : StorePicker(usable, warm)

UpdatePickerStep == InitializePicker \/ UpdateWarm

CloseConnStep(c, call) ==
    \/ MarkClosing(c, call)
    \/ Drain(c, call)
    \/ TearDown(c, call)
    \/ ConnClosed(c, call)

RequestStep(r) ==
    \/ GetConnection(r)
    \/ AwaitPicker(r)
    \/ StartRequest(r)
    \/ TryAgain(r)
    \/ FinishRequest(r)

CloseStep(k) == FinishClose(k) \/ AwaitClose(k)

PrewarmStep(p) == PrewarmLoop(p) \/ WakeCancelled(p)

Next ==
    \/ BalancerNext
    \/ UpdatePickerStep
    \/ \E c \in Conn, call \in CloseCalls : CloseConnStep(c, call)
    \/ \E r \in Requests : Enter(r) \/ CancelRequest(r) \/ RequestStep(r)
    \/ Unlink
    \/ \E k \in Closers : CallClose(k) \/ CloseBalancer(k) \/ CloseStep(k)
    \/ \E p \in Prewarmers : Prewarm(p) \/ CancelPrewarm(p) \/ PrewarmStep(p)

Spec == Init /\ [][Next]_vars

\* The scheduler runs every goroutine of the pool, and the servers and the
\* readers of the response bodies see to it that a request in flight ends.
\* Closing the balancer succeeds however many pickers it publishes meanwhile:
\* see CloseCompletes in module Balancer.  Nothing obliges the balancer to
\* make another call.
Fairness ==
    /\ WF_vars(UpdatePickerStep)
    /\ \A c \in Conn, call \in CloseCalls : WF_vars(CloseConnStep(c, call))
    /\ \A r \in Requests : WF_vars(RequestStep(r))
    /\ \A k \in Closers : SF_vars(CloseBalancer(k)) /\ WF_vars(CloseStep(k))
    /\ \A p \in Prewarmers : WF_vars(PrewarmLoop(p)) /\ WF_vars(WakeCancelled(p))

FairSpec == Spec /\ Fairness

-----------------------------------------------------------------------------
(* Properties.                                                             *)

TypeOK ==
    /\ created \subseteq Conn
    /\ conns \subseteq created
    /\ removedConns \subseteq created
    /\ picker \subseteq Conn
    /\ closed \in BOOLEAN /\ linked \in BOOLEAN
    /\ hasPicker \in BOOLEAN /\ pickerInitialized \in BOOLEAN
    /\ pendingWarm \in BOOLEAN /\ isWarm \in BOOLEAN
    /\ balancerClosed \in BOOLEAN /\ closeComplete \in BOOLEAN
    /\ publishing \in { "none", "initializing", "warming" }
    /\ gate \in [Conn -> { "open", "closing", "drained" }]
    /\ tornDown \subseteq Conn
    /\ closing \in [Conn -> [CloseCalls -> Stages]]
    /\ req \in [Requests -> { "new", "entered", "waiting", "notInitialized",
                              "picked", "inFlight", "tryAgain", "elsewhere",
                              "failed", "finished" }]
    /\ chosen \in [Requests -> Conn \cup { NoConn }]
    /\ closePc \in [Closers -> { "idle", "closingBalancer", "closingConns",
                                 "awaiting", "returned" }]
    /\ snapshot \subseteq Conn
    /\ prewarm \in [Prewarmers -> { "idle", "awake", "sleeping", "returned",
                                    "failed" }]
    /\ prewarmCtx \in [Prewarmers -> { "live", "cancelled", "broadcast" }]

\* A request that waited for the first picker finds one when it wakes: the
\* error "internal: picker not initialized" should not be possible.
PickerNotMissing == \A r \in Requests : req[r] # "notInitialized"

\* No call of prewarm sleeps although the pool is warm or its context ended
\* and the goroutine that should have woken it is gone: there is no moment
\* between its checks and its Wait in which a wake-up is lost.
NoLostWakeup ==
    \A p \in Prewarmers :
        prewarm[p] = "sleeping" => ~isWarm /\ prewarmCtx[p] # "broadcast"

\* A request is told to try again only because of a connection that has left
\* the picker, or because the pool closes: the picker a retry finds offers
\* open connections only, so that the retry loop cannot spin.
PickerOffersOpenConns ==
    \A c \in picker : gate[c] # "open" => ~linked /\ balancerClosed

\* When close returns no active connection is left behind: those that close
\* found are torn down, and its still running balancer has created no other.
NoConnLeftOpen == closeComplete => conns \subseteq tornDown

Leaf(c) ==
    INSTANCE ConnectionContract WITH
        inFlight <- InFlightOn(c),
        gate <- gate[c],
        tornDown <- c \in tornDown

\* Each leaf connection goes through the steps its contract allows, one at a
\* time, although two goroutines may close it.
LeafContracts ==
    [][\A c \in Conn : Leaf(c)!Next \/ UNCHANGED Leaf(c)!vars]_vars

\* A request that lost its connection does not retry for ever.
RetriesEnd == <>[](\A r \in Requests : req[r] # "tryAgain")

\* Every connection taken out of the pool is torn down in the end, and once
\* close is called every connection ever created.
EveryConnTornDown ==
    <>[](/\ created \ conns \subseteq tornDown
         /\ closed => tornDown = created)

\* Every call of close returns.
CloseReturns == <>[](\A k \in Closers : closePc[k] \in { "idle", "returned" })

\* "for removed connections, too, to make sure we wait for all activity to
\* complete before returning": close returns with no request in flight.  (The
\* code does not satisfy this: see the README.)
CloseWaitsForRequests ==
    closeComplete => \A c \in Conn : InFlightOn(c) = {}

=============================================================================
