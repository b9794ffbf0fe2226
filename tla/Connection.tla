------------------------------ MODULE Connection ------------------------------
(***************************************************************************)
(* A leaf connection of a transport pool (type connection of transport.go) *)
(* at the grain of its atomic operations.                                  *)
(*                                                                         *)
(* Requests enter through startRequest and leave through endRequest, which *)
(* add to and subtract from one atomic.Int64, outstandingRequests.  close  *)
(* marks the connection by moving that counter below zero with a           *)
(* compare-and-swap, waits on the channel c.closed for the last request to *)
(* leave, and only then closes the underlying round tripper.  Any number   *)
(* of goroutines may run close: RemoveConn starts one for each connection  *)
(* it removes, and transportPool.close runs another.                       *)
(*                                                                         *)
(* Every action below is one atomic operation together with the local code *)
(* up to the next one, so the actions of different goroutines interleave   *)
(* as the Go memory model lets them.                                       *)
(***************************************************************************)
EXTENDS Integers, FiniteSets

CONSTANTS
    Requests,   \* the requests whose picker chose this connection
    Closers,    \* the goroutines that call close
    MaxInt64    \* the largest value of the counter; scaled down for TLC

ASSUME ConnectionAssumption ==
    /\ IsFiniteSet(Requests)
    /\ MaxInt64 \in Nat
    /\ Cardinality(Requests) <= MaxInt64

MinInt64 == -MaxInt64 - 1

\* Two's complement wrap-around of the sum or difference of two int64 values.
Wrap(n) ==
    IF n > MaxInt64 THEN n + 2 * MinInt64
    ELSE IF n < MinInt64 THEN n - 2 * MinInt64
    ELSE n

VARIABLES
    outstandingRequests,  \* negative: closing, no more requests
    closeCalls,           \* how often close(c.closed) ran; a second time panics
    roundTripperClosed,   \* has doClose run result.Close()?
    req,                  \* where each request is in RoundTrip
    hook,                 \* the completion hook on each response body
    whenDone,             \* how often each request's whenDone callback ran
    closer,               \* where each goroutine is in close
    loaded                \* the value each of them loaded from the counter

vars == << outstandingRequests, closeCalls, roundTripperClosed,
           req, hook, whenDone, closer, loaded >>

closeVars == << roundTripperClosed, closer, loaded >>
requestVars == << req, hook, whenDone >>

-----------------------------------------------------------------------------

RequestStates == { "new", "aborting", "tryAgain", "sent", "responded",
                   "finishing", "ending", "signalling", "finished" }

CloserStates == { "idle", "loading", "swapping", "signalling", "waiting",
                  "closing", "done" }

HookStates == { "absent", "armed", "fired" }

\* Requests that startRequest admitted and endRequest has not yet released.
InFlight == { r \in Requests :
                req[r] \in { "sent", "responded", "finishing", "ending" } }

\* Refused requests that have not yet taken back their increment.
Aborting == { r \in Requests : req[r] = "aborting" }

Init ==
    /\ outstandingRequests = 0
    /\ closeCalls = 0
    /\ roundTripperClosed = FALSE
    /\ req = [r \in Requests |-> "new"]
    /\ hook = [r \in Requests |-> "absent"]
    /\ whenDone = [r \in Requests |-> 0]
    /\ closer = [k \in Closers |-> "idle"]
    /\ loaded = [k \in Closers |-> 0]

-----------------------------------------------------------------------------
(* RoundTrip, startRequest, endRequest and the hook on the response body.  *)

StartRequest(r) ==
    /\ req[r] = "new"
    /\ outstandingRequests' = Wrap(outstandingRequests + 1)
    /\ req' = [req EXCEPT ![r] =
                  IF outstandingRequests' < 0 THEN "aborting" ELSE "sent"]
    /\ UNCHANGED << closeCalls, hook, whenDone, closeVars >>

\* Mutant of AbortRequest: calls endRequest, and may close the channel.
AbortThroughEnd(r) ==
    /\ req[r] = "aborting"
    /\ outstandingRequests' = Wrap(outstandingRequests - 1)
    /\ req' = [req EXCEPT ![r] =
                  IF outstandingRequests' = MinInt64
                  THEN "signalling" ELSE "tryAgain"]
    /\ whenDone' = [whenDone EXCEPT ![r] = @ + 1]
    /\ UNCHANGED << closeCalls, hook, closeVars >>

\* startRequest takes back its increment, and RoundTrip calls whenDone and
\* returns errTryAgain.
AbortRequest(r) ==
    /\ req[r] = "aborting"
    /\ outstandingRequests' = Wrap(outstandingRequests - 1)
    /\ req' = [req EXCEPT ![r] = "tryAgain"]
    /\ whenDone' = [whenDone EXCEPT ![r] = @ + 1]
    /\ UNCHANGED << closeCalls, hook, closeVars >>

\* The round tripper answers: the response body gets a completion hook.
Respond(r) ==
    /\ req[r] = "sent"
    /\ req' = [req EXCEPT ![r] = "responded"]
    /\ hook' = [hook EXCEPT ![r] = "armed"]
    /\ UNCHANGED << outstandingRequests, closeCalls, whenDone, closeVars >>

\* The round tripper fails: RoundTrip runs onFinish itself.
Fail(r) ==
    /\ req[r] = "sent"
    /\ req' = [req EXCEPT ![r] = "finishing"]
    /\ UNCHANGED << outstandingRequests, closeCalls, hook, whenDone, closeVars >>

\* Mutant of HookDone: runs onFinish without the compare-and-swap.
HookDoneAgain(r) ==
    /\ hook[r] # "absent"
    /\ hook' = [hook EXCEPT ![r] = "fired"]
    /\ req' = [req EXCEPT ![r] = "finishing"]
    /\ UNCHANGED << outstandingRequests, closeCalls, whenDone, closeVars >>

\* Read returns an error (io.EOF included) or the body is closed.  Both may
\* happen, concurrently too: the one whose compare-and-swap succeeds runs
\* onFinish, the others change nothing.
HookDone(r) ==
    /\ hook[r] = "armed"
    /\ hook' = [hook EXCEPT ![r] = "fired"]
    /\ req' = [req EXCEPT ![r] = "finishing"]
    /\ UNCHANGED << outstandingRequests, closeCalls, whenDone, closeVars >>

RunWhenDone(r) ==
    /\ req[r] = "finishing"
    /\ whenDone' = [whenDone EXCEPT ![r] = @ + 1]
    /\ req' = [req EXCEPT ![r] = "ending"]
    /\ UNCHANGED << outstandingRequests, closeCalls, hook, closeVars >>

\* Mutant of EndRequest: takes any negative counter for the last request.
EndRequestEarly(r) ==
    /\ req[r] = "ending"
    /\ outstandingRequests' = Wrap(outstandingRequests - 1)
    /\ req' = [req EXCEPT ![r] =
                  IF outstandingRequests' < 0 THEN "signalling" ELSE "finished"]
    /\ UNCHANGED << closeCalls, hook, whenDone, closeVars >>

EndRequest(r) ==
    /\ req[r] = "ending"
    /\ outstandingRequests' = Wrap(outstandingRequests - 1)
    /\ req' = [req EXCEPT ![r] =
                  IF outstandingRequests' = MinInt64
                  THEN "signalling" ELSE "finished"]
    /\ UNCHANGED << closeCalls, hook, whenDone, closeVars >>

\* endRequest saw the counter reach MinInt64: it closes c.closed.
SignalDrained(r) ==
    /\ req[r] = "signalling"
    /\ closeCalls' = closeCalls + 1
    /\ req' = [req EXCEPT ![r] = "finished"]
    /\ UNCHANGED << outstandingRequests, hook, whenDone, closeVars >>

-----------------------------------------------------------------------------
(* close.                                                                  *)

CallClose(k) ==
    /\ closer[k] = "idle"
    /\ closer' = [closer EXCEPT ![k] = "loading"]
    /\ UNCHANGED << outstandingRequests, closeCalls, roundTripperClosed,
                    loaded, requestVars >>

LoadCount(k) ==
    /\ closer[k] = "loading"
    /\ loaded' = [loaded EXCEPT ![k] = outstandingRequests]
    /\ closer' = [closer EXCEPT ![k] =
                     IF outstandingRequests < 0 THEN "waiting" ELSE "swapping"]
    /\ UNCHANGED << outstandingRequests, closeCalls, roundTripperClosed,
                    requestVars >>

\* Mutant of MarkClosing: leaves it to a last request to close the channel.
MarkWithoutSignal(k) ==
    /\ closer[k] = "swapping"
    /\ outstandingRequests = loaded[k]
    /\ outstandingRequests' = Wrap(loaded[k] - MinInt64)
    /\ closer' = [closer EXCEPT ![k] = "waiting"]
    /\ UNCHANGED << closeCalls, roundTripperClosed, loaded, requestVars >>

\* The compare-and-swap that marks the connection as closing.
MarkClosing(k) ==
    LET markedValue == Wrap(loaded[k] - MinInt64)
    IN  /\ closer[k] = "swapping"
        /\ outstandingRequests = loaded[k]
        /\ outstandingRequests' = markedValue
        /\ closer' = [closer EXCEPT ![k] =
                         IF markedValue = MinInt64
                         THEN "signalling" ELSE "waiting"]
        /\ UNCHANGED << closeCalls, roundTripperClosed, loaded, requestVars >>

\* Another goroutine changed the counter in between: load it again.
RetryMark(k) ==
    /\ closer[k] = "swapping"
    /\ outstandingRequests # loaded[k]
    /\ closer' = [closer EXCEPT ![k] = "loading"]
    /\ UNCHANGED << outstandingRequests, closeCalls, roundTripperClosed,
                    loaded, requestVars >>

\* There were no active requests when the connection was marked.
SignalIdle(k) ==
    /\ closer[k] = "signalling"
    /\ closeCalls' = closeCalls + 1
    /\ closer' = [closer EXCEPT ![k] = "waiting"]
    /\ UNCHANGED << outstandingRequests, roundTripperClosed, loaded,
                    requestVars >>

\* Wait for requests to acquiesce: <-c.closed.
AwaitDrained(k) ==
    /\ closer[k] = "waiting"
    /\ closeCalls > 0
    /\ closer' = [closer EXCEPT ![k] = "closing"]
    /\ UNCHANGED << outstandingRequests, closeCalls, roundTripperClosed,
                    loaded, requestVars >>

\* doClose closes the underlying round tripper.
DoClose(k) ==
    /\ closer[k] = "closing"
    /\ roundTripperClosed' = TRUE
    /\ closer' = [closer EXCEPT ![k] = "done"]
    /\ UNCHANGED << outstandingRequests, closeCalls, loaded, requestVars >>

-----------------------------------------------------------------------------

\* The steps of a request after it entered, and those of a call of close:
\* what the Go scheduler, the round tripper and the owner of the response
\* body are trusted to bring about.
RequestStep(r) ==
    \/ AbortRequest(r)
    \/ Respond(r)
    \/ Fail(r)
    \/ HookDone(r)
    \/ RunWhenDone(r)
    \/ EndRequest(r)
    \/ SignalDrained(r)

CloserStep(k) ==
    \/ LoadCount(k)
    \/ MarkClosing(k)
    \/ RetryMark(k)
    \/ SignalIdle(k)
    \/ AwaitDrained(k)
    \/ DoClose(k)

Next ==
    \/ \E r \in Requests : StartRequest(r) \/ RequestStep(r)
    \/ \E k \in Closers : CallClose(k) \/ CloserStep(k)

Spec == Init /\ [][Next]_vars

Fairness ==
    /\ \A r \in Requests : WF_vars(RequestStep(r))
    /\ \A k \in Closers : WF_vars(CloserStep(k))

FairSpec == Spec /\ Fairness

-----------------------------------------------------------------------------
(* Properties.                                                             *)

TypeOK ==
    /\ outstandingRequests \in MinInt64..MaxInt64
    /\ closeCalls \in Nat
    /\ roundTripperClosed \in BOOLEAN
    /\ req \in [Requests -> RequestStates]
    /\ hook \in [Requests -> HookStates]
    /\ whenDone \in [Requests -> Nat]
    /\ closer \in [Closers -> CloserStates]
    /\ loaded \in [Closers -> MinInt64..MaxInt64]

\* The underlying round tripper is closed only when no request that
\* startRequest admitted is still using it, response body included.
DrainedBeforeClose == roundTripperClosed => InFlight = {}

\* The channel c.closed is closed at most once, whoever finds the counter at
\* MinInt64: a request that ends, or a goroutine in close.  A second close of
\* a Go channel panics.
NoDoubleClose == closeCalls <= 1

\* The one counter encodes both the number of requests that hold it and
\* whether the connection is closing, whatever the order of increments,
\* decrements and the swap, with no overflow into the other range.
CounterEncodes ==
    LET holders == Cardinality(InFlight \cup Aborting)
    IN  outstandingRequests \in { holders, MinInt64 + holders }

\* A request's whenDone callback, which releases its load in the picker and
\* its timeout, has run once when the request has given the connection back
\* or was refused by it, and has not run before.
WhenDoneOnce ==
    \A r \in Requests :
        whenDone[r] = IF req[r] \in { "ending", "signalling", "finished", "tryAgain" }
                      THEN 1 ELSE 0

\* Once marked, a connection stays closing, although refused requests keep
\* moving its counter up and down, and it never admits a request again.
ClosingIsFinal ==
    [][outstandingRequests < 0 =>
         /\ outstandingRequests' < 0
         /\ \A r \in Requests : req[r] = "new" => req'[r] # "sent"]_vars

\* Every call of close returns once the requests in flight have ended.  (The
\* code does not satisfy this: see the README.)
CloseCompletes ==
    \A k \in Closers : closer[k] = "loading" ~> closer[k] = "done"

\* It does return when the last request in flight never ends while a refused
\* request still holds its increment of the counter.
CloseCompletesUnlessMasked ==
    [](Cardinality(InFlight) = 1 => Aborting = {}) => CloseCompletes

-----------------------------------------------------------------------------
(* The contract of a leaf connection, and how this module meets it.        *)

Contract ==
    INSTANCE ConnectionContract WITH
        inFlight <- InFlight,
        gate <- IF closeCalls > 0 THEN "drained"
                ELSE IF outstandingRequests < 0 THEN "closing"
                ELSE "open",
        tornDown <- roundTripperClosed

\* The atomic counter implements the contract.
ImplementsContract == Contract!Spec

=============================================================================
