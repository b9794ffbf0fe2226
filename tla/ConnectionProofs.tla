--------------------------- MODULE ConnectionProofs ---------------------------
(***************************************************************************)
(* Proofs that a leaf connection is safe for any number of requests and    *)
(* closing goroutines: its invariants, the finality of closing, and that   *)
(* it implements its contract.                                             *)
(***************************************************************************)
EXTENDS Connection, FiniteSetTheorems, TLAPS

\* The requests that hold the counter.
Holders == InFlight \cup Aborting

\* The closing of c.closed, and the decision to close it, come only after the
\* connection is marked and the last request in flight has left.
DrainInv ==
    (\/ closeCalls > 0
     \/ \E r \in Requests : req[r] = "signalling"
     \/ \E k \in Closers : closer[k] = "signalling")
    => outstandingRequests < 0 /\ InFlight = {}

\* At most one goroutine ever decides to close the channel.
OneSignal ==
    /\ closeCalls <= 1
    /\ closeCalls = 1 =>
           /\ \A r \in Requests : req[r] # "signalling"
           /\ \A k \in Closers : closer[k] # "signalling"
    /\ \A r, s \in Requests :
           req[r] = "signalling" /\ req[s] = "signalling" => r = s
    /\ \A j, k \in Closers :
           closer[j] = "signalling" /\ closer[k] = "signalling" => j = k
    /\ \A r \in Requests, k \in Closers :
           ~(req[r] = "signalling" /\ closer[k] = "signalling")

HookInv == \A r \in Requests : hook[r] = "armed" => req[r] = "responded"

CloserInv ==
    /\ \A k \in Closers : closer[k] = "swapping" => loaded[k] >= 0
    /\ \A k \in Closers : closer[k] \in { "closing", "done" } => closeCalls > 0
    /\ roundTripperClosed => closeCalls > 0

\* The inductive invariant.
IInv ==
    /\ TypeOK
    /\ CounterEncodes
    /\ DrainInv
    /\ OneSignal
    /\ HookInv
    /\ WhenDoneOnce
    /\ CloserInv

-----------------------------------------------------------------------------

\* The counter has room for every request.
LEMMA HoldersFinite ==
    /\ IsFiniteSet(Holders)
    /\ Cardinality(Holders) \in Nat
    /\ Cardinality(Holders) <= Cardinality(Requests)
    /\ Cardinality(Requests) \in Nat
  BY ConnectionAssumption, FS_Subset, FS_CardinalityType
     DEF Holders, InFlight, Aborting

\* A request that begins to hold the counter.
LEMMA HolderAdded ==
    ASSUME NEW r \in Requests, r \notin Holders, Holders' = Holders \cup {r}
    PROVE  /\ Cardinality(Holders') = Cardinality(Holders) + 1
           /\ Cardinality(Holders') <= MaxInt64
  <1>1. Cardinality(Holders') = Cardinality(Holders) + 1
    BY HoldersFinite, FS_AddElement
  <1>2. Holders' \subseteq Requests
    BY DEF Holders, InFlight, Aborting
  <1>3. Cardinality(Holders') <= Cardinality(Requests)
    BY <1>2, ConnectionAssumption, FS_Subset
  <1> QED
    BY <1>1, <1>3, HoldersFinite, ConnectionAssumption

\* A request that no longer holds it.
LEMMA HolderRemoved ==
    ASSUME NEW r \in Requests, r \in Holders, Holders' = Holders \ {r}
    PROVE  /\ Cardinality(Holders') = Cardinality(Holders) - 1
           /\ Cardinality(Holders) >= 1
  <1>1. Cardinality(Holders') = Cardinality(Holders) - 1
    BY HoldersFinite, FS_RemoveElement
  <1>2. IsFiniteSet(Holders')
    BY HoldersFinite, FS_RemoveElement
  <1>3. Cardinality(Holders') \in Nat
    BY <1>2, FS_CardinalityType
  <1> QED
    BY <1>1, <1>3, HoldersFinite

\* What the counter's encoding says about its sign: it is negative exactly
\* when the connection is closing, and holds the number of requests.
LEMMA CounterSign ==
    ASSUME IInv
    PROVE  \/ /\ outstandingRequests = Cardinality(Holders)
              /\ outstandingRequests >= 0
           \/ /\ outstandingRequests = MinInt64 + Cardinality(Holders)
              /\ outstandingRequests < 0
  BY HoldersFinite, ConnectionAssumption
     DEF IInv, CounterEncodes, MinInt64, Holders

-----------------------------------------------------------------------------
(* How each kind of step moves the counter.                                *)

\* A request enters: the counter grows by one on its side of zero.
LEMMA StartCounter ==
    ASSUME IInv, NEW r \in Requests, StartRequest(r)
    PROVE  /\ outstandingRequests' = outstandingRequests + 1
           /\ outstandingRequests' < 0 <=> outstandingRequests < 0
           /\ CounterEncodes'
           /\ outstandingRequests' \in MinInt64..MaxInt64
  <1> USE DEF RequestStates
  <1>1. req'[r] \in { "aborting", "sent" } /\ \A s \in Requests \ {r} : req'[s] = req[s]
    BY DEF IInv, TypeOK, StartRequest
  <1>2. r \notin Holders /\ Holders' = Holders \cup {r}
    BY <1>1 DEF Holders, InFlight, Aborting, StartRequest
  <1>3. /\ Cardinality(Holders') = Cardinality(Holders) + 1
        /\ Cardinality(Holders') <= MaxInt64
    BY <1>2, HolderAdded
  <1>4. outstandingRequests' = outstandingRequests + 1
    BY <1>3, CounterSign, HoldersFinite, ConnectionAssumption
       DEF StartRequest, Wrap, MinInt64
  <1> QED
    BY <1>3, <1>4, CounterSign, HoldersFinite, ConnectionAssumption
       DEF CounterEncodes, Holders, MinInt64

\* A request leaves: the counter shrinks by one and keeps its side of zero.
LEMMA LeaveCounter ==
    ASSUME IInv, NEW r \in Requests, AbortRequest(r) \/ EndRequest(r)
    PROVE  /\ outstandingRequests' = outstandingRequests - 1
           /\ outstandingRequests' < 0 <=> outstandingRequests < 0
           /\ CounterEncodes'
           /\ outstandingRequests' \in MinInt64..MaxInt64
           /\ outstandingRequests' = MinInt64 => Holders' = {}
  <1> USE DEF RequestStates
  <1>1. /\ req[r] \in { "aborting", "ending" }
        /\ req'[r] \in { "tryAgain", "signalling", "finished" }
        /\ \A s \in Requests \ {r} : req'[s] = req[s]
    BY DEF IInv, TypeOK, AbortRequest, EndRequest
  <1>2. r \in Holders /\ Holders' = Holders \ {r}
    BY <1>1 DEF Holders, InFlight, Aborting
  <1>3. /\ Cardinality(Holders') = Cardinality(Holders) - 1
        /\ Cardinality(Holders) >= 1
    BY <1>2, HolderRemoved
  <1>4. outstandingRequests' = outstandingRequests - 1
    BY <1>3, CounterSign, HoldersFinite, ConnectionAssumption
       DEF AbortRequest, EndRequest, Wrap, MinInt64
  <1>5. IsFiniteSet(Holders')
    BY <1>2, HoldersFinite, FS_RemoveElement
  <1>6. Cardinality(Holders') = 0 => Holders' = {}
    BY <1>5, FS_EmptySet
  <1> QED
    BY <1>3, <1>4, <1>6, CounterSign, HoldersFinite, ConnectionAssumption
       DEF CounterEncodes, Holders, MinInt64

\* The swap moves the counter below zero, to MinInt64 only if it was zero.
LEMMA MarkCounter ==
    ASSUME IInv, NEW k \in Closers, MarkClosing(k)
    PROVE  /\ outstandingRequests >= 0
           /\ outstandingRequests' = MinInt64 + outstandingRequests
           /\ outstandingRequests' < 0
           /\ CounterEncodes'
           /\ outstandingRequests' \in MinInt64..MaxInt64
           /\ outstandingRequests' = MinInt64 => Holders = {}
  <1>1. outstandingRequests >= 0 /\ loaded[k] = outstandingRequests
    BY DEF IInv, CloserInv, MarkClosing
  <1>2. outstandingRequests' = MinInt64 + outstandingRequests
    BY <1>1, ConnectionAssumption DEF IInv, TypeOK, MarkClosing, Wrap, MinInt64
  <1>3. Holders' = Holders
    BY DEF MarkClosing, requestVars, Holders, InFlight, Aborting
  <1>4. Cardinality(Holders) = 0 => Holders = {}
    BY HoldersFinite, FS_EmptySet
  <1>5. /\ outstandingRequests = Cardinality(Holders)
        /\ outstandingRequests <= MaxInt64
    BY <1>1, CounterSign, HoldersFinite, ConnectionAssumption DEF MinInt64
  <1>6. CounterEncodes'
    BY <1>2, <1>3, <1>5 DEF CounterEncodes, Holders, MinInt64
  <1> QED
    BY <1>1, <1>2, <1>4, <1>5, <1>6, HoldersFinite, ConnectionAssumption
       DEF MinInt64

\* Every other step leaves the counter and its holders alone.
OtherStep ==
    \/ \E r \in Requests : \/ Respond(r) \/ Fail(r) \/ HookDone(r)
                           \/ RunWhenDone(r) \/ SignalDrained(r)
    \/ \E k \in Closers : \/ CallClose(k) \/ LoadCount(k) \/ RetryMark(k)
                          \/ SignalIdle(k) \/ AwaitDrained(k) \/ DoClose(k)
    \/ UNCHANGED vars

LEMMA OtherCounter ==
    ASSUME IInv, OtherStep
    PROVE  /\ outstandingRequests' = outstandingRequests
           /\ InFlight' = InFlight
           /\ Aborting' = Aborting
           /\ CounterEncodes'
  <1>1. outstandingRequests' = outstandingRequests
    BY DEF OtherStep, vars, Respond, Fail, HookDone, RunWhenDone,
           SignalDrained, CallClose, LoadCount, RetryMark, SignalIdle,
           AwaitDrained, DoClose
  <1>2. \A r \in Requests : /\ r \in InFlight' <=> r \in InFlight
                            /\ r \in Aborting' <=> r \in Aborting
    <2>1. CASE \E r \in Requests : \/ Respond(r) \/ Fail(r) \/ HookDone(r)
                                   \/ RunWhenDone(r) \/ SignalDrained(r)
      BY <2>1 DEF IInv, TypeOK, HookInv, Respond, Fail, HookDone, RunWhenDone,
                  SignalDrained, InFlight, Aborting
    <2>2. CASE UNCHANGED req
      BY <2>2 DEF InFlight, Aborting
    <2> QED
      BY <2>1, <2>2 DEF OtherStep, vars, CallClose, LoadCount, RetryMark,
             SignalIdle, AwaitDrained, DoClose, requestVars
  <1>3. InFlight' = InFlight /\ Aborting' = Aborting
    BY <1>2 DEF InFlight, Aborting
  <1> QED
    BY <1>1, <1>3 DEF IInv, CounterEncodes, MinInt64

-----------------------------------------------------------------------------
(* The invariant is inductive.                                             *)

LEMMA InitIInv == Init => IInv
  <1> SUFFICES ASSUME Init PROVE IInv
    OBVIOUS
  <1> USE DEF Init
  <1>1. 0 \in MinInt64..MaxInt64
    BY ConnectionAssumption DEF MinInt64
  <1>2. InFlight \cup Aborting = {}
    BY DEF InFlight, Aborting
  <1>3. CounterEncodes
    BY <1>2, FS_EmptySet DEF CounterEncodes
  <1>4. TypeOK
    BY <1>1 DEF TypeOK, RequestStates, HookStates, CloserStates
  <1> QED
    BY <1>3, <1>4 DEF IInv, DrainInv, OneSignal, HookInv, WhenDoneOnce, CloserInv

LEMMA NextIInv == IInv /\ [Next]_vars => IInv'
  <1> SUFFICES ASSUME IInv, [Next]_vars PROVE IInv'
    OBVIOUS
  <1> USE DEF requestVars, closeVars
  <1>1. ASSUME NEW r \in Requests, StartRequest(r) PROVE IInv'
    <2> USE <1>1 DEF StartRequest
    <2>1. /\ CounterEncodes'
          /\ outstandingRequests' < 0 <=> outstandingRequests < 0
          /\ outstandingRequests' \in MinInt64..MaxInt64
      BY StartCounter
    <2>2. TypeOK'
      BY <2>1 DEF IInv, TypeOK, RequestStates, HookStates, CloserStates
    <2>3. DrainInv'
      BY <2>1 DEF IInv, TypeOK, DrainInv, OneSignal, InFlight
    <2>4. OneSignal'
      BY <2>1 DEF IInv, TypeOK, DrainInv, OneSignal
    <2>5. HookInv'
      BY DEF IInv, TypeOK, HookInv
    <2>6. WhenDoneOnce'
      BY DEF IInv, TypeOK, HookInv, WhenDoneOnce
    <2>7. CloserInv'
      BY <2>1 DEF IInv, TypeOK, CloserInv
    <2> QED
      BY <2>1, <2>2, <2>3, <2>4, <2>5, <2>6, <2>7 DEF IInv
  <1>2. ASSUME NEW r \in Requests, AbortRequest(r) PROVE IInv'
    <2> USE <1>2 DEF AbortRequest
    <2>1. /\ CounterEncodes'
          /\ outstandingRequests' < 0 <=> outstandingRequests < 0
          /\ outstandingRequests' \in MinInt64..MaxInt64
          /\ outstandingRequests' = MinInt64 => Holders' = {}
      BY LeaveCounter
    <2>2. TypeOK'
      BY <2>1 DEF IInv, TypeOK, RequestStates, HookStates, CloserStates
    <2>3. DrainInv'
      BY <2>1 DEF IInv, TypeOK, DrainInv, OneSignal, InFlight
    <2>4. OneSignal'
      BY <2>1 DEF IInv, TypeOK, DrainInv, OneSignal
    <2>5. HookInv'
      BY DEF IInv, TypeOK, HookInv
    <2>6. WhenDoneOnce'
      BY DEF IInv, TypeOK, HookInv, WhenDoneOnce
    <2>7. CloserInv'
      BY <2>1 DEF IInv, TypeOK, CloserInv
    <2> QED
      BY <2>1, <2>2, <2>3, <2>4, <2>5, <2>6, <2>7 DEF IInv
  <1>3. ASSUME NEW r \in Requests, Respond(r) PROVE IInv'
    <2> USE <1>3 DEF Respond
    <2>1. /\ CounterEncodes'
          /\ outstandingRequests' = outstandingRequests
          /\ InFlight' = InFlight
      BY OtherCounter DEF OtherStep
    <2>2. TypeOK'
      BY <2>1 DEF IInv, TypeOK, RequestStates, HookStates, CloserStates
    <2>3. DrainInv'
      BY <2>1 DEF IInv, TypeOK, DrainInv, OneSignal, InFlight
    <2>4. OneSignal'
      BY <2>1 DEF IInv, TypeOK, DrainInv, OneSignal
    <2>5. HookInv'
      BY DEF IInv, TypeOK, HookInv
    <2>6. WhenDoneOnce'
      BY DEF IInv, TypeOK, HookInv, WhenDoneOnce
    <2>7. CloserInv'
      BY <2>1 DEF IInv, TypeOK, CloserInv
    <2> QED
      BY <2>1, <2>2, <2>3, <2>4, <2>5, <2>6, <2>7 DEF IInv
  <1>4. ASSUME NEW r \in Requests, Fail(r) PROVE IInv'
    <2> USE <1>4 DEF Fail
    <2>1. /\ CounterEncodes'
          /\ outstandingRequests' = outstandingRequests
          /\ InFlight' = InFlight
      BY OtherCounter DEF OtherStep
    <2>2. TypeOK'
      BY <2>1 DEF IInv, TypeOK, RequestStates, HookStates, CloserStates
    <2>3. DrainInv'
      BY <2>1 DEF IInv, TypeOK, DrainInv, OneSignal, InFlight
    <2>4. OneSignal'
      BY <2>1 DEF IInv, TypeOK, DrainInv, OneSignal
    <2>5. HookInv'
      BY DEF IInv, TypeOK, HookInv
    <2>6. WhenDoneOnce'
      BY DEF IInv, TypeOK, HookInv, WhenDoneOnce
    <2>7. CloserInv'
      BY <2>1 DEF IInv, TypeOK, CloserInv
    <2> QED
      BY <2>1, <2>2, <2>3, <2>4, <2>5, <2>6, <2>7 DEF IInv
  <1>5. ASSUME NEW r \in Requests, HookDone(r) PROVE IInv'
    <2> USE <1>5 DEF HookDone
    <2>1. /\ CounterEncodes'
          /\ outstandingRequests' = outstandingRequests
          /\ InFlight' = InFlight
      BY OtherCounter DEF OtherStep
    <2>2. TypeOK'
      BY <2>1 DEF IInv, TypeOK, RequestStates, HookStates, CloserStates
    <2>3. DrainInv'
      BY <2>1 DEF IInv, TypeOK, DrainInv, OneSignal, InFlight
    <2>4. OneSignal'
      BY <2>1 DEF IInv, TypeOK, DrainInv, OneSignal
    <2>5. HookInv'
      BY DEF IInv, TypeOK, HookInv
    <2>6. WhenDoneOnce'
      BY DEF IInv, TypeOK, HookInv, WhenDoneOnce
    <2>7. CloserInv'
      BY <2>1 DEF IInv, TypeOK, CloserInv
    <2> QED
      BY <2>1, <2>2, <2>3, <2>4, <2>5, <2>6, <2>7 DEF IInv
  <1>6. ASSUME NEW r \in Requests, RunWhenDone(r) PROVE IInv'
    <2> USE <1>6 DEF RunWhenDone
    <2>1. /\ CounterEncodes'
          /\ outstandingRequests' = outstandingRequests
          /\ InFlight' = InFlight
      BY OtherCounter DEF OtherStep
    <2>2. TypeOK'
      BY <2>1 DEF IInv, TypeOK, RequestStates, HookStates, CloserStates
    <2>3. DrainInv'
      BY <2>1 DEF IInv, TypeOK, DrainInv, OneSignal, InFlight
    <2>4. OneSignal'
      BY <2>1 DEF IInv, TypeOK, DrainInv, OneSignal
    <2>5. HookInv'
      BY DEF IInv, TypeOK, HookInv
    <2>6. WhenDoneOnce'
      BY DEF IInv, TypeOK, HookInv, WhenDoneOnce
    <2>7. CloserInv'
      BY <2>1 DEF IInv, TypeOK, CloserInv
    <2> QED
      BY <2>1, <2>2, <2>3, <2>4, <2>5, <2>6, <2>7 DEF IInv
  <1>7. ASSUME NEW r \in Requests, EndRequest(r) PROVE IInv'
    <2> USE <1>7 DEF EndRequest
    <2>1. /\ CounterEncodes'
          /\ outstandingRequests' < 0 <=> outstandingRequests < 0
          /\ outstandingRequests' \in MinInt64..MaxInt64
          /\ outstandingRequests' = MinInt64 => Holders' = {}
      BY LeaveCounter
    <2>2. TypeOK'
      BY <2>1 DEF IInv, TypeOK, RequestStates, HookStates, CloserStates
    <2>3. /\ closeCalls = 0
          /\ \A s \in Requests : req[s] # "signalling"
          /\ \A k \in Closers : closer[k] # "signalling"
      BY DEF IInv, TypeOK, DrainInv, InFlight
    <2>4. DrainInv'
      BY <2>1, <2>3, ConnectionAssumption
         DEF IInv, TypeOK, DrainInv, Holders, MinInt64
    <2>5. OneSignal'
      BY <2>1, <2>3 DEF IInv, TypeOK, OneSignal
    <2>6. HookInv'
      BY DEF IInv, TypeOK, HookInv
    <2>7. WhenDoneOnce'
      BY DEF IInv, TypeOK, HookInv, WhenDoneOnce
    <2>8. CloserInv'
      BY <2>1 DEF IInv, TypeOK, CloserInv
    <2> QED
      BY <2>1, <2>2, <2>4, <2>5, <2>6, <2>7, <2>8 DEF IInv
  <1>8. ASSUME NEW r \in Requests, SignalDrained(r) PROVE IInv'
    <2> USE <1>8 DEF SignalDrained
    <2>1. /\ CounterEncodes'
          /\ outstandingRequests' = outstandingRequests
          /\ InFlight' = InFlight
      BY OtherCounter DEF OtherStep
    <2>2. TypeOK'
      BY <2>1 DEF IInv, TypeOK, RequestStates, HookStates, CloserStates
    <2>3. DrainInv'
      BY <2>1 DEF IInv, TypeOK, DrainInv, OneSignal, InFlight
    <2>4. OneSignal'
      BY <2>1 DEF IInv, TypeOK, DrainInv, OneSignal
    <2>5. HookInv'
      BY DEF IInv, TypeOK, HookInv
    <2>6. WhenDoneOnce'
      BY DEF IInv, TypeOK, HookInv, WhenDoneOnce
    <2>7. CloserInv'
      BY <2>1 DEF IInv, TypeOK, CloserInv
    <2> QED
      BY <2>1, <2>2, <2>3, <2>4, <2>5, <2>6, <2>7 DEF IInv
  <1>9. ASSUME NEW k \in Closers, CallClose(k) PROVE IInv'
    <2> USE <1>9 DEF CallClose
    <2>1. /\ CounterEncodes'
          /\ outstandingRequests' = outstandingRequests
          /\ InFlight' = InFlight
      BY OtherCounter DEF OtherStep
    <2>2. TypeOK'
      BY <2>1 DEF IInv, TypeOK, RequestStates, HookStates, CloserStates
    <2>3. DrainInv'
      BY <2>1 DEF IInv, TypeOK, DrainInv, OneSignal, InFlight
    <2>4. OneSignal'
      BY <2>1 DEF IInv, TypeOK, DrainInv, OneSignal
    <2>5. HookInv'
      BY DEF IInv, TypeOK, HookInv
    <2>6. WhenDoneOnce'
      BY DEF IInv, TypeOK, HookInv, WhenDoneOnce
    <2>7. CloserInv'
      BY <2>1 DEF IInv, TypeOK, CloserInv
    <2> QED
      BY <2>1, <2>2, <2>3, <2>4, <2>5, <2>6, <2>7 DEF IInv
  <1>10. ASSUME NEW k \in Closers, LoadCount(k) PROVE IInv'
    <2> USE <1>10 DEF LoadCount
    <2>1. /\ CounterEncodes'
          /\ outstandingRequests' = outstandingRequests
          /\ InFlight' = InFlight
      BY OtherCounter DEF OtherStep
    <2>2. TypeOK'
      BY <2>1 DEF IInv, TypeOK, RequestStates, HookStates, CloserStates
    <2>3. DrainInv'
      BY <2>1 DEF IInv, TypeOK, DrainInv, OneSignal, InFlight
    <2>4. OneSignal'
      BY <2>1 DEF IInv, TypeOK, DrainInv, OneSignal
    <2>5. HookInv'
      BY DEF IInv, TypeOK, HookInv
    <2>6. WhenDoneOnce'
      BY DEF IInv, TypeOK, HookInv, WhenDoneOnce
    <2>7. CloserInv'
      BY <2>1 DEF IInv, TypeOK, CloserInv
    <2> QED
      BY <2>1, <2>2, <2>3, <2>4, <2>5, <2>6, <2>7 DEF IInv
  <1>11. ASSUME NEW k \in Closers, MarkClosing(k) PROVE IInv'
    <2> USE <1>11 DEF MarkClosing
    <2>1. /\ CounterEncodes'
          /\ outstandingRequests >= 0
          /\ outstandingRequests' < 0
          /\ outstandingRequests' \in MinInt64..MaxInt64
          /\ outstandingRequests' = MinInt64 => Holders = {}
      BY MarkCounter
    <2>2. TypeOK'
      BY <2>1 DEF IInv, TypeOK, RequestStates, HookStates, CloserStates
    <2>3. /\ closeCalls = 0
          /\ \A r \in Requests : req[r] # "signalling"
          /\ \A j \in Closers : closer[j] # "signalling"
      BY <2>1 DEF IInv, TypeOK, DrainInv
    <2>4. DrainInv'
      BY <2>1, <2>3 DEF IInv, TypeOK, DrainInv, Holders, InFlight
    <2>5. OneSignal'
      BY <2>1, <2>3 DEF IInv, TypeOK, OneSignal
    <2>6. HookInv'
      BY DEF IInv, TypeOK, HookInv
    <2>7. WhenDoneOnce'
      BY DEF IInv, TypeOK, HookInv, WhenDoneOnce
    <2>8. CloserInv'
      BY <2>1 DEF IInv, TypeOK, CloserInv
    <2> QED
      BY <2>1, <2>2, <2>4, <2>5, <2>6, <2>7, <2>8 DEF IInv
  <1>12. ASSUME NEW k \in Closers, RetryMark(k) PROVE IInv'
    <2> USE <1>12 DEF RetryMark
    <2>1. /\ CounterEncodes'
          /\ outstandingRequests' = outstandingRequests
          /\ InFlight' = InFlight
      BY OtherCounter DEF OtherStep
    <2>2. TypeOK'
      BY <2>1 DEF IInv, TypeOK, RequestStates, HookStates, CloserStates
    <2>3. DrainInv'
      BY <2>1 DEF IInv, TypeOK, DrainInv, OneSignal, InFlight
    <2>4. OneSignal'
      BY <2>1 DEF IInv, TypeOK, DrainInv, OneSignal
    <2>5. HookInv'
      BY DEF IInv, TypeOK, HookInv
    <2>6. WhenDoneOnce'
      BY DEF IInv, TypeOK, HookInv, WhenDoneOnce
    <2>7. CloserInv'
      BY <2>1 DEF IInv, TypeOK, CloserInv
    <2> QED
      BY <2>1, <2>2, <2>3, <2>4, <2>5, <2>6, <2>7 DEF IInv
  <1>13. ASSUME NEW k \in Closers, SignalIdle(k) PROVE IInv'
    <2> USE <1>13 DEF SignalIdle
    <2>1. /\ CounterEncodes'
          /\ outstandingRequests' = outstandingRequests
          /\ InFlight' = InFlight
      BY OtherCounter DEF OtherStep
    <2>2. TypeOK'
      BY <2>1 DEF IInv, TypeOK, RequestStates, HookStates, CloserStates
    <2>3. DrainInv'
      BY <2>1 DEF IInv, TypeOK, DrainInv, OneSignal, InFlight
    <2>4. OneSignal'
      BY <2>1 DEF IInv, TypeOK, DrainInv, OneSignal
    <2>5. HookInv'
      BY DEF IInv, TypeOK, HookInv
    <2>6. WhenDoneOnce'
      BY DEF IInv, TypeOK, HookInv, WhenDoneOnce
    <2>7. CloserInv'
      BY <2>1 DEF IInv, TypeOK, CloserInv
    <2> QED
      BY <2>1, <2>2, <2>3, <2>4, <2>5, <2>6, <2>7 DEF IInv
  <1>14. ASSUME NEW k \in Closers, AwaitDrained(k) PROVE IInv'
    <2> USE <1>14 DEF AwaitDrained
    <2>1. /\ CounterEncodes'
          /\ outstandingRequests' = outstandingRequests
          /\ InFlight' = InFlight
      BY OtherCounter DEF OtherStep
    <2>2. TypeOK'
      BY <2>1 DEF IInv, TypeOK, RequestStates, HookStates, CloserStates
    <2>3. DrainInv'
      BY <2>1 DEF IInv, TypeOK, DrainInv, OneSignal, InFlight
    <2>4. OneSignal'
      BY <2>1 DEF IInv, TypeOK, DrainInv, OneSignal
    <2>5. HookInv'
      BY DEF IInv, TypeOK, HookInv
    <2>6. WhenDoneOnce'
      BY DEF IInv, TypeOK, HookInv, WhenDoneOnce
    <2>7. CloserInv'
      BY <2>1 DEF IInv, TypeOK, CloserInv
    <2> QED
      BY <2>1, <2>2, <2>3, <2>4, <2>5, <2>6, <2>7 DEF IInv
  <1>15. ASSUME NEW k \in Closers, DoClose(k) PROVE IInv'
    <2> USE <1>15 DEF DoClose
    <2>1. /\ CounterEncodes'
          /\ outstandingRequests' = outstandingRequests
          /\ InFlight' = InFlight
      BY OtherCounter DEF OtherStep
    <2>2. TypeOK'
      BY <2>1 DEF IInv, TypeOK, RequestStates, HookStates, CloserStates
    <2>3. DrainInv'
      BY <2>1 DEF IInv, TypeOK, DrainInv, OneSignal, InFlight
    <2>4. OneSignal'
      BY <2>1 DEF IInv, TypeOK, DrainInv, OneSignal
    <2>5. HookInv'
      BY DEF IInv, TypeOK, HookInv
    <2>6. WhenDoneOnce'
      BY DEF IInv, TypeOK, HookInv, WhenDoneOnce
    <2>7. CloserInv'
      BY <2>1 DEF IInv, TypeOK, CloserInv
    <2> QED
      BY <2>1, <2>2, <2>3, <2>4, <2>5, <2>6, <2>7 DEF IInv
  <1>16. CASE UNCHANGED vars
    BY <1>16, OtherCounter
       DEF vars, OtherStep, IInv, TypeOK, DrainInv, OneSignal, HookInv,
           WhenDoneOnce, CloserInv
  <1> QED
    BY <1>1, <1>2, <1>3, <1>4, <1>5, <1>6, <1>7, <1>8,
       <1>9, <1>10, <1>11, <1>12, <1>13, <1>14, <1>15, <1>16
       DEF Next, RequestStep, CloserStep

-----------------------------------------------------------------------------
(* The theorems.                                                           *)

LEMMA IInvAlways == Spec => []IInv
  BY InitIInv, NextIInv, PTL DEF Spec

\* The counter never leaves the range of an int64, in particular.
THEOREM TypeCorrect == Spec => []TypeOK
  <1>1. IInv => TypeOK
    BY DEF IInv
  <1> QED
    BY <1>1, IInvAlways, PTL

\* However many requests and closers there are, the counter always encodes
\* both the number of requests that hold it and whether it is closing.
THEOREM CounterAlwaysEncodes == Spec => []CounterEncodes
  <1>1. IInv => CounterEncodes
    BY DEF IInv
  <1> QED
    BY <1>1, IInvAlways, PTL

\* No round tripper is closed under a request that is still in flight: only
\* one who saw c.closed closed gets there, and then nothing is in flight.
THEOREM DrainsBeforeClose == Spec => []DrainedBeforeClose
  <1>1. IInv => DrainedBeforeClose
    BY DEF IInv, CloserInv, DrainInv, DrainedBeforeClose
  <1> QED
    BY <1>1, IInvAlways, PTL

\* c.closed is never closed twice, so neither endRequest nor close panics.
THEOREM ChannelClosedOnce == Spec => []NoDoubleClose
  <1>1. IInv => NoDoubleClose
    BY DEF IInv, OneSignal, NoDoubleClose
  <1> QED
    BY <1>1, IInvAlways, PTL

\* whenDone runs exactly once per request.
THEOREM CallbackOnce == Spec => []WhenDoneOnce
  <1>1. IInv => WhenDoneOnce
    BY DEF IInv
  <1> QED
    BY <1>1, IInvAlways, PTL

\* What one step does to the sign of the counter: it changes at most from
\* not negative to negative, and only by the swap in close.
LEMMA SignStep ==
    ASSUME IInv, [Next]_vars
    PROVE  \/ outstandingRequests' < 0 <=> outstandingRequests < 0
           \/ \E k \in Closers : MarkClosing(k)
  <1>1. CASE \E r \in Requests : StartRequest(r)
    BY <1>1, StartCounter
  <1>2. CASE \E r \in Requests : AbortRequest(r) \/ EndRequest(r)
    BY <1>2, LeaveCounter
  <1>3. CASE OtherStep
    BY <1>3, OtherCounter
  <1> QED
    BY <1>1, <1>2, <1>3 DEF Next, RequestStep, CloserStep, OtherStep

\* A connection that is closing stays so and admits no request, although the
\* refused ones keep moving its counter.
THEOREM ClosesForGood == Spec => ClosingIsFinal
  <1>1. ASSUME IInv, [Next]_vars, outstandingRequests < 0
        PROVE  /\ outstandingRequests' < 0
               /\ \A r \in Requests : req[r] = "new" => req'[r] # "sent"
    <2>1. outstandingRequests' < 0
      BY <1>1, SignStep, MarkCounter
    <2>2. ASSUME NEW r \in Requests, req[r] = "new" PROVE req'[r] # "sent"
      BY <1>1, <2>1, <2>2
         DEF IInv, TypeOK, HookInv, Next, vars, RequestStep, CloserStep,
             StartRequest, AbortRequest, Respond, Fail, HookDone, RunWhenDone,
             EndRequest, SignalDrained, CallClose, LoadCount, MarkClosing,
             RetryMark, SignalIdle, AwaitDrained, DoClose, requestVars
    <2> QED
      BY <2>1, <2>2
  <1>2. IInv /\ [Next]_vars =>
          [outstandingRequests < 0 =>
             /\ outstandingRequests' < 0
             /\ \A r \in Requests : req[r] = "new" => req'[r] # "sent"]_vars
    BY <1>1
  <1> QED
    BY <1>2, IInvAlways, PTL DEF Spec, ClosingIsFinal

-----------------------------------------------------------------------------
(* The atomic counter implements the contract.                             *)

\* Each step is a step of the contract, or leaves what it speaks of alone.
LEMMA ContractStep ==
    ASSUME IInv, [Next]_vars
    PROVE  [Contract!Next]_(Contract!vars)
  <1> USE DEF requestVars, closeVars, Contract!Next, Contract!vars
  <1>1. ASSUME NEW r \in Requests, StartRequest(r) PROVE Contract!Next \/ UNCHANGED Contract!vars
    <2> USE <1>1 DEF StartRequest
    <2>1. outstandingRequests' < 0 <=> outstandingRequests < 0
      BY StartCounter
    <2>2. CASE outstandingRequests < 0
      BY <2>1, <2>2 DEF IInv, TypeOK, InFlight
    <2>3. CASE ~(outstandingRequests < 0)
      <3>1. closeCalls = 0
        BY <2>3 DEF IInv, TypeOK, DrainInv
      <3>2. r \notin InFlight /\ InFlight' = InFlight \cup {r}
        BY <2>1, <2>3 DEF IInv, TypeOK, InFlight
      <3>3. Contract!Begin(r)
        BY <2>1, <2>3, <3>1, <3>2 DEF Contract!Begin
      <3> QED
        BY <3>3
    <2> QED
      BY <2>2, <2>3
  <1>2. ASSUME NEW r \in Requests, AbortRequest(r) PROVE UNCHANGED Contract!vars
    <2>1. outstandingRequests' < 0 <=> outstandingRequests < 0
      BY <1>2, LeaveCounter
    <2> QED
      BY <1>2, <2>1 DEF AbortRequest, IInv, TypeOK, InFlight
  <1>3. ASSUME NEW r \in Requests, EndRequest(r) PROVE Contract!Next
    <2>1. outstandingRequests' < 0 <=> outstandingRequests < 0
      BY <1>3, LeaveCounter
    <2>2. r \in InFlight /\ InFlight' = InFlight \ {r}
      BY <1>3 DEF EndRequest, IInv, TypeOK, InFlight
    <2>3. Contract!End(r)
      BY <1>3, <2>1, <2>2 DEF EndRequest, Contract!End
    <2> QED
      BY <2>3
  <1>4. ASSUME NEW r \in Requests, SignalDrained(r) PROVE Contract!Next
    <2>1. /\ closeCalls = 0
          /\ outstandingRequests < 0
          /\ InFlight = {}
      BY <1>4 DEF SignalDrained, IInv, TypeOK, DrainInv, OneSignal
    <2>2. UNCHANGED << InFlight, outstandingRequests, roundTripperClosed >> /\ closeCalls' = 1
      <3>1. InFlight' = InFlight
        BY <1>4, OtherCounter DEF OtherStep
      <3> QED
        BY <1>4, <2>1, <3>1 DEF SignalDrained
    <2>3. Contract!Drain
      BY <2>1, <2>2 DEF Contract!Drain
    <2> QED
      BY <2>3
  <1>5. ASSUME NEW k \in Closers, MarkClosing(k) PROVE Contract!Next
    <2>1. outstandingRequests >= 0 /\ outstandingRequests' < 0
      BY <1>5, MarkCounter
    <2>2. closeCalls = 0 /\ outstandingRequests \in Int
      BY <2>1 DEF IInv, TypeOK, DrainInv
    <2>3. UNCHANGED << InFlight, closeCalls, roundTripperClosed >>
      BY <1>5 DEF MarkClosing, InFlight
    <2>4. Contract!StartClosing
      BY <2>1, <2>2, <2>3 DEF Contract!StartClosing
    <2> QED
      BY <2>4
  <1>6. ASSUME NEW k \in Closers, SignalIdle(k) PROVE Contract!Next
    <2>1. /\ closeCalls = 0
          /\ outstandingRequests < 0
          /\ InFlight = {}
      BY <1>6 DEF SignalIdle, IInv, TypeOK, DrainInv, OneSignal
    <2>2. UNCHANGED << InFlight, outstandingRequests, roundTripperClosed >> /\ closeCalls' = 1
      <3>1. InFlight' = InFlight
        BY <1>6, OtherCounter DEF OtherStep
      <3> QED
        BY <1>6, <2>1, <3>1 DEF SignalIdle
    <2>3. Contract!Drain
      BY <2>1, <2>2 DEF Contract!Drain
    <2> QED
      BY <2>3
  <1>7. ASSUME NEW k \in Closers, DoClose(k) PROVE Contract!Next
    <2>1. closeCalls > 0
      BY <1>7 DEF DoClose, IInv, CloserInv
    <2>2. UNCHANGED << InFlight, outstandingRequests, closeCalls >> /\ roundTripperClosed' = TRUE
      BY <1>7, OtherCounter DEF DoClose, OtherStep
    <2>3. Contract!TearDown
      BY <2>1, <2>2 DEF Contract!TearDown
    <2> QED
      BY <2>3
  <1>8. CASE \/ \E r \in Requests : Respond(r) \/ Fail(r) \/ HookDone(r) \/ RunWhenDone(r)
             \/ \E k \in Closers : CallClose(k) \/ LoadCount(k) \/ RetryMark(k) \/ AwaitDrained(k)
             \/ UNCHANGED vars
    <2>1. UNCHANGED << InFlight, outstandingRequests >>
      BY <1>8, OtherCounter DEF OtherStep
    <2>2. UNCHANGED << closeCalls, roundTripperClosed >>
      BY <1>8 DEF vars, Respond, Fail, HookDone, RunWhenDone, CallClose,
                  LoadCount, RetryMark, AwaitDrained
    <2> QED
      BY <2>1, <2>2
  <1> QED
    BY <1>1, <1>2, <1>3, <1>4, <1>5, <1>6, <1>7, <1>8
       DEF Next, RequestStep, CloserStep

\* A leaf connection admits requests until it is told to close, lets those in
\* flight finish, and only then closes its round tripper.
THEOREM MeetsContract == Spec => ImplementsContract
  <1>1. Init => Contract!Init
    BY DEF Init, Contract!Init, InFlight
  <1>2. IInv /\ [Next]_vars => [Contract!Next]_(Contract!vars)
    BY ContractStep
  <1> QED
    BY <1>1, <1>2, IInvAlways, PTL DEF Spec, ImplementsContract, Contract!Spec

=============================================================================
