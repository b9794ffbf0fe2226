-------------------------- MODULE TransportPoolProofs --------------------------
(***************************************************************************)
(* Proofs about the transport pool, for any connections, requests, callers *)
(* of close and of prewarm, and any balancer that keeps its contract: no   *)
(* request misses its picker, no wake-up is lost, the picker offers open   *)
(* connections, close leaves no active connection behind, and each leaf is *)
(* driven as its contract allows.                                          *)
(***************************************************************************)
EXTENDS TransportPool, TLAPS

\* The goroutine that really closes the pool.
Active == { k \in Closers : closePc[k] \in { "closingBalancer", "closingConns" } }

\* The balancer's contract, and what UpdatePicker has done so far.
PickerInv ==
    /\ picker \subseteq conns
    /\ pickerInitialized \/ publishing # "none" => hasPicker
    /\ PickerNotMissing

\* The stages of the pool's close, which one goroutine goes through.
CloseInv ==
    /\ Active # {} \/ balancerClosed \/ closeComplete => closed
    /\ closed => ~linked
    /\ closeComplete => Active = {}
    /\ \A j, k \in Active : j = k
    /\ \A k \in Closers : closePc[k] = "closingConns" => balancerClosed

\* Connections that close does not know of, or that it is not yet to close.
SnapshotInv ==
    /\ closed => conns \subseteq snapshot
    /\ closeComplete => \A c \in snapshot : closing[c]["close"] = "done"
    /\ \A c \in Conn : closing[c]["close"] # "none" => balancerClosed
    /\ \A c \in Conn : closing[c]["RemoveConn"] # "none" => c \in created \ conns

\* How far a goroutine that closes a leaf has come, and the leaf with it.
LeafInv ==
    \A c \in Conn :
        /\ gate[c] # "open" => \E call \in CloseCalls : closing[c][call] # "none"
        /\ \A call \in CloseCalls :
             /\ closing[c][call] = "waiting" => gate[c] # "open"
             /\ closing[c][call] \in { "drained", "tornDown", "done" } => gate[c] = "drained"
             /\ closing[c][call] \in { "tornDown", "done" } => c \in tornDown

\* The inductive invariant.
IInv ==
    /\ TypeOK
    /\ PickerInv
    /\ NoLostWakeup
    /\ CloseInv
    /\ SnapshotInv
    /\ LeafInv

-----------------------------------------------------------------------------
(* The cases of a step, and what most of them leave alone.                 *)

LEMMA InitIInv == Init => IInv
  <1> SUFFICES ASSUME Init
               PROVE  IInv
    OBVIOUS
  <1> USE PoolAssumption DEF Init
  <1>1. TypeOK
    BY DEF TypeOK, Balancer!ContractInit, Stages
  <1>2. PickerInv /\ NoLostWakeup
    BY DEF PickerInv, PickerNotMissing, NoLostWakeup, Balancer!ContractInit
  <1>3. CloseInv /\ SnapshotInv
    BY DEF CloseInv, SnapshotInv, Active, CloseCalls
  <1>4. LeafInv
    BY DEF LeafInv
  <1> QED
    BY <1>1, <1>2, <1>3, <1>4 DEF IInv

LEMMA TypeStep == TypeOK /\ [Next]_vars => TypeOK'
  <1> SUFFICES ASSUME TypeOK, [Next]_vars
               PROVE  TypeOK'
    OBVIOUS
  <1> USE PoolAssumption DEF TypeOK, connVars, leafVars, publishVars, pickerVars, requestVars,
                             balancerVars, closeVars, warmVars
  <1>1. CASE UNCHANGED vars
    BY <1>1 DEF vars
  <1>2. ASSUME NEW c \in Conn, NewConn(c)
        PROVE  TypeOK'
    BY <1>2 DEF NewConn, Balancer!Create
  <1>3. ASSUME NEW c \in Conn, RemoveConn(c)
        PROVE  TypeOK'
    BY <1>3 DEF RemoveConn, Balancer!Remove, CloseCalls, Stages
  <1>4. ASSUME NEW usable \in SUBSET conns, NEW warm \in WarmReports, StorePicker(usable, warm)
        PROVE  TypeOK'
    BY <1>4 DEF StorePicker, Balancer!Publish
  <1>5. CASE UpdatePickerStep
    <2>1. CASE InitializePicker
      BY <2>1 DEF InitializePicker
    <2>2. CASE UpdateWarm
      <3>1. prewarm' \in [Prewarmers -> { "idle", "awake", "sleeping", "returned", "failed" }]
        BY <2>2 DEF UpdateWarm, Woken
      <3> QED
        BY <2>2, <3>1 DEF UpdateWarm
    <2> QED
      BY <1>5, <2>1, <2>2 DEF UpdatePickerStep
  <1>6. ASSUME NEW c \in Conn, NEW call \in CloseCalls, CloseConnStep(c, call)
        PROVE  TypeOK'
    <2>1. ASSUME NEW from, NEW to \in Stages, Advance(c, call, from, to)
          PROVE  closing' \in [Conn -> [CloseCalls -> Stages]]
      BY <2>1 DEF Advance
    <2>2. { "waiting", "drained", "tornDown", "done" } \subseteq Stages
      BY DEF Stages
    <2>3. CASE MarkClosing(c, call)
      BY <2>1, <2>2, <2>3 DEF MarkClosing, Advance
    <2>4. CASE Drain(c, call)
      BY <2>1, <2>2, <2>4 DEF Drain, Advance
    <2>5. CASE TearDown(c, call)
      BY <2>1, <2>2, <2>5 DEF TearDown, Advance
    <2>6. CASE ConnClosed(c, call)
      BY <2>1, <2>2, <2>6 DEF ConnClosed, Advance
    <2> QED
      BY <1>6, <2>3, <2>4, <2>5, <2>6 DEF CloseConnStep
  <1>7. ASSUME NEW r \in Requests, Enter(r) \/ CancelRequest(r) \/ RequestStep(r)
        PROVE  TypeOK'
    <2>1. CASE Enter(r) \/ CancelRequest(r) \/ TryAgain(r)
      BY <2>1 DEF Enter, CancelRequest, TryAgain, Again, RequestGoto
    <2>2. CASE GetConnection(r) \/ AwaitPicker(r)
      BY <2>2 DEF GetConnection, AwaitPicker, Pick, RequestGoto
    <2>3. CASE StartRequest(r) \/ FinishRequest(r)
      BY <2>3 DEF StartRequest, FinishRequest, RequestGoto
    <2> QED
      BY <1>7, <2>1, <2>2, <2>3 DEF RequestStep
  <1>8. CASE Unlink
    BY <1>8 DEF Unlink
  <1>9. ASSUME NEW k \in Closers, CallClose(k) \/ CloseBalancer(k) \/ CloseStep(k)
        PROVE  TypeOK'
    <2>1. CASE CallClose(k)
      BY <2>1 DEF CallClose, CloseGoto
    <2>2. CASE CloseBalancer(k)
      <3>1. closing' \in [Conn -> [CloseCalls -> Stages]]
        BY <2>2 DEF CloseBalancer, Stages
      <3> QED
        BY <2>2, <3>1 DEF CloseBalancer, StopBalancer, CloseGoto
    <2>3. CASE FinishClose(k)
      BY <2>3 DEF FinishClose, Complete, CloseGoto
    <2>4. CASE AwaitClose(k)
      BY <2>4 DEF AwaitClose, CloseGoto
    <2> QED
      BY <1>9, <2>1, <2>2, <2>3, <2>4 DEF CloseStep
  <1>10. ASSUME NEW p \in Prewarmers, Prewarm(p) \/ CancelPrewarm(p) \/ PrewarmStep(p)
         PROVE  TypeOK'
    BY <1>10 DEF Prewarm, CancelPrewarm, PrewarmStep, PrewarmLoop, WakeCancelled, Woken
  <1> QED
    BY <1>1, <1>2, <1>3, <1>4, <1>5, <1>6, <1>7, <1>8, <1>9, <1>10 DEF Next, BalancerNext

-----------------------------------------------------------------------------
(* Each part of the invariant is preserved.                                *)

LEMMA PickerStep == TypeOK /\ PickerInv /\ [Next]_vars => PickerInv'
  <1> SUFFICES ASSUME TypeOK, PickerInv, [Next]_vars
               PROVE  PickerInv'
    OBVIOUS
  <1> USE DEF PickerInv, PickerNotMissing, connVars, leafVars, publishVars, pickerVars, requestVars,
              balancerVars, closeVars, warmVars
  <1>1. CASE UNCHANGED << conns, pickerVars, req >>
    BY <1>1
  <1>2. ASSUME NEW c \in Conn, NewConn(c) \/ RemoveConn(c)
        PROVE  PickerInv'
    BY <1>2 DEF NewConn, RemoveConn, Balancer!Create, Balancer!Remove
  <1>3. ASSUME NEW usable \in SUBSET conns, NEW warm \in WarmReports, StorePicker(usable, warm)
        PROVE  PickerInv'
    BY <1>3 DEF StorePicker, Balancer!Publish
  <1>4. CASE UpdatePickerStep
    BY <1>4 DEF UpdatePickerStep, InitializePicker, UpdateWarm
  <1>5. ASSUME NEW r \in Requests, Enter(r) \/ CancelRequest(r) \/ RequestStep(r)
        PROVE  PickerInv'
    <2>1. ASSUME NEW from, NEW to \in { "entered", "waiting", "picked", "inFlight", "tryAgain",
                                       "elsewhere", "failed", "finished" },
                 RequestGoto(r, from, to)
          PROVE  PickerInv'
      BY <2>1 DEF RequestGoto, TypeOK
    <2>2. ASSUME NEW from, Pick(r, from)
          PROVE  PickerInv'
      BY <2>1, <2>2 DEF Pick
    <2>3. CASE Enter(r) \/ CancelRequest(r) \/ StartRequest(r) \/ TryAgain(r) \/ FinishRequest(r)
      BY <2>1, <2>3 DEF Enter, CancelRequest, StartRequest, TryAgain, Again, FinishRequest
    <2>4. CASE GetConnection(r) \/ AwaitPicker(r)
      BY <2>1, <2>2, <2>4 DEF GetConnection, AwaitPicker
    <2> QED
      BY <1>5, <2>3, <2>4 DEF RequestStep
  <1>6. ASSUME NEW c \in Conn, NEW call \in CloseCalls, CloseConnStep(c, call)
        PROVE  UNCHANGED << conns, pickerVars, req >>
    BY <1>6 DEF CloseConnStep, MarkClosing, Drain, TearDown, ConnClosed, Advance
  <1>7. ASSUME NEW k \in Closers, CallClose(k) \/ CloseBalancer(k) \/ CloseStep(k)
        PROVE  UNCHANGED << conns, pickerVars, req >>
    BY <1>7 DEF CallClose, CloseBalancer, CloseStep, FinishClose, AwaitClose, CloseGoto
  <1>8. ASSUME NEW p \in Prewarmers, Prewarm(p) \/ CancelPrewarm(p) \/ PrewarmStep(p)
        PROVE  UNCHANGED << conns, pickerVars, req >>
    BY <1>8 DEF Prewarm, CancelPrewarm, PrewarmStep, PrewarmLoop, WakeCancelled
  <1>9. CASE UNCHANGED vars \/ Unlink
    BY <1>1, <1>9 DEF vars, Unlink
  <1> QED
    BY <1>1, <1>2, <1>3, <1>4, <1>5, <1>6, <1>7, <1>8, <1>9 DEF Next, BalancerNext

LEMMA SleepStep == TypeOK /\ NoLostWakeup /\ [Next]_vars => NoLostWakeup'
  <1> SUFFICES ASSUME TypeOK, NoLostWakeup, [Next]_vars
               PROVE  NoLostWakeup'
    OBVIOUS
  <1> USE DEF NoLostWakeup, connVars, leafVars, publishVars, pickerVars, requestVars, balancerVars,
              closeVars, warmVars
  <1>1. CASE UNCHANGED warmVars
    BY <1>1
  <1>2. CASE BalancerNext
    BY <1>1, <1>2 DEF BalancerNext, NewConn, RemoveConn, StorePicker
  <1>3. CASE UpdatePickerStep
    <2>1. CASE InitializePicker
      BY <1>1, <2>1 DEF InitializePicker
    <2>2. CASE UpdateWarm
      <3>1. isWarm' = pendingWarm /\ prewarmCtx' = prewarmCtx
        BY <2>2 DEF UpdateWarm
      <3>2. pendingWarm => \A p \in Prewarmers : prewarm'[p] # "sleeping"
        BY <2>2 DEF UpdateWarm, Woken
      <3>3. ~pendingWarm => prewarm' = prewarm
        BY <2>2 DEF UpdateWarm
      <3> QED
        BY <3>1, <3>2, <3>3
    <2> QED
      BY <1>3, <2>1, <2>2 DEF UpdatePickerStep
  <1>4. ASSUME NEW p \in Prewarmers, Prewarm(p) \/ CancelPrewarm(p) \/ PrewarmStep(p)
        PROVE  NoLostWakeup'
    <2>1. CASE Prewarm(p) \/ PrewarmLoop(p)
      BY <2>1 DEF Prewarm, PrewarmLoop, TypeOK
    <2>2. CASE CancelPrewarm(p) \/ WakeCancelled(p)
      BY <2>2 DEF CancelPrewarm, WakeCancelled, Woken, TypeOK
    <2> QED
      BY <1>4, <2>1, <2>2 DEF PrewarmStep
  <1>5. ASSUME NEW c \in Conn, NEW call \in CloseCalls, CloseConnStep(c, call)
        PROVE  UNCHANGED warmVars
    BY <1>5 DEF CloseConnStep, MarkClosing, Drain, TearDown, ConnClosed, Advance
  <1>6. ASSUME NEW r \in Requests, Enter(r) \/ CancelRequest(r) \/ RequestStep(r)
        PROVE  UNCHANGED warmVars
    BY <1>6 DEF Enter, CancelRequest, RequestStep, GetConnection, AwaitPicker, Pick, StartRequest,
                TryAgain, FinishRequest, RequestGoto
  <1>7. ASSUME NEW k \in Closers, CallClose(k) \/ CloseBalancer(k) \/ CloseStep(k)
        PROVE  UNCHANGED warmVars
    BY <1>7 DEF CallClose, CloseBalancer, CloseStep, FinishClose, AwaitClose, CloseGoto
  <1>8. CASE UNCHANGED vars \/ Unlink
    BY <1>1, <1>8 DEF vars, Unlink
  <1> QED
    BY <1>1, <1>2, <1>3, <1>4, <1>5, <1>6, <1>7, <1>8 DEF Next

\* The steps that are not of the pool's own close leave it alone.
LEMMA CloseFrame ==
    ASSUME TypeOK, [Next]_vars
    PROVE  \/ UNCHANGED closeVars
           \/ Unlink
           \/ \E k \in Closers : CallClose(k) \/ CloseBalancer(k) \/ FinishClose(k) \/ AwaitClose(k)
  <1> USE DEF connVars, leafVars, publishVars, pickerVars, requestVars, balancerVars, closeVars,
              warmVars
  <1>1. CASE BalancerNext \/ UpdatePickerStep \/ UNCHANGED vars
    BY <1>1 DEF BalancerNext, NewConn, RemoveConn, StorePicker, UpdatePickerStep, InitializePicker,
                UpdateWarm, vars
  <1>2. ASSUME NEW c \in Conn, NEW call \in CloseCalls, CloseConnStep(c, call)
        PROVE  UNCHANGED closeVars
    BY <1>2 DEF CloseConnStep, MarkClosing, Drain, TearDown, ConnClosed, Advance
  <1>3. ASSUME NEW r \in Requests, Enter(r) \/ CancelRequest(r) \/ RequestStep(r)
        PROVE  UNCHANGED closeVars
    BY <1>3 DEF Enter, CancelRequest, RequestStep, GetConnection, AwaitPicker, Pick, StartRequest,
                TryAgain, FinishRequest, RequestGoto
  <1>4. ASSUME NEW p \in Prewarmers, Prewarm(p) \/ CancelPrewarm(p) \/ PrewarmStep(p)
        PROVE  UNCHANGED closeVars
    BY <1>4 DEF Prewarm, CancelPrewarm, PrewarmStep, PrewarmLoop, WakeCancelled
  <1> QED
    BY <1>1, <1>2, <1>3, <1>4 DEF Next, CloseStep

LEMMA ClosingStep == TypeOK /\ CloseInv /\ [Next]_vars => CloseInv'
  <1> SUFFICES ASSUME TypeOK, CloseInv, [Next]_vars
               PROVE  CloseInv'
    OBVIOUS
  <1> USE DEF CloseInv, Active
  <1>1. CASE UNCHANGED closeVars
    BY <1>1 DEF closeVars, balancerVars
  <1>2. CASE Unlink
    BY <1>2 DEF Unlink, balancerVars
  <1>3. ASSUME NEW k \in Closers, CallClose(k)
        PROVE  CloseInv'
    BY <1>3 DEF CallClose, CloseGoto, balancerVars, TypeOK
  <1>4. ASSUME NEW k \in Closers, CloseBalancer(k)
        PROVE  CloseInv'
    BY <1>4 DEF CloseBalancer, StopBalancer, CloseGoto, TypeOK
  <1>5. ASSUME NEW k \in Closers, FinishClose(k) \/ AwaitClose(k)
        PROVE  CloseInv'
    BY <1>5 DEF FinishClose, Complete, AwaitClose, CloseGoto, balancerVars, TypeOK
  <1> QED
    BY <1>1, <1>2, <1>3, <1>4, <1>5, CloseFrame

LEMMA SnapshotStep == TypeOK /\ CloseInv /\ SnapshotInv /\ [Next]_vars => SnapshotInv'
  <1> SUFFICES ASSUME TypeOK, CloseInv, SnapshotInv, [Next]_vars
               PROVE  SnapshotInv'
    OBVIOUS
  <1> USE DEF SnapshotInv, connVars, leafVars, publishVars, pickerVars, requestVars, balancerVars,
              closeVars, warmVars
  <1>1. CASE UNCHANGED << created, conns, closing, closed, snapshot, balancerVars >>
    BY <1>1
  <1>2. ASSUME NEW c \in Conn, NewConn(c)
        PROVE  SnapshotInv'
    BY <1>2 DEF NewConn, Accepting, Balancer!Create, CloseInv
  <1>3. ASSUME NEW c \in Conn, RemoveConn(c)
        PROVE  SnapshotInv'
    BY <1>3 DEF RemoveConn, Balancer!Remove, TypeOK, CloseCalls
  <1>4. ASSUME NEW usable \in SUBSET conns, NEW warm \in WarmReports, StorePicker(usable, warm)
        PROVE  UNCHANGED << created, conns, closing, closed, snapshot, balancerVars >>
    BY <1>4 DEF StorePicker, Balancer!Publish
  <1>5. ASSUME NEW c \in Conn, NEW call \in CloseCalls, CloseConnStep(c, call)
        PROVE  SnapshotInv'
    <2>1. /\ UNCHANGED << created, conns, closed, snapshot, balancerVars >>
          /\ closing[c][call] \notin { "none", "done" }
          /\ \E to \in Stages \ { "none" } : closing' = [closing EXCEPT ![c][call] = to]
      BY <1>5 DEF CloseConnStep, MarkClosing, Drain, TearDown, ConnClosed, Advance, Stages
    <2> QED
      BY <2>1 DEF TypeOK, CloseCalls
  <1>6. ASSUME NEW k \in Closers, CallClose(k)
        PROVE  SnapshotInv'
    BY <1>6 DEF CallClose, CloseInv
  <1>7. ASSUME NEW k \in Closers, CloseBalancer(k)
        PROVE  SnapshotInv'
    <2>1. ~closeComplete /\ closeComplete' = closeComplete
      BY <1>7 DEF CloseBalancer, CloseGoto, CloseInv, Active
    <2>2. \A c \in Conn : closing'[c]["RemoveConn"] = closing[c]["RemoveConn"]
      BY <1>7 DEF CloseBalancer, TypeOK, CloseCalls
    <2> QED
      BY <1>7, <2>1, <2>2 DEF CloseBalancer, StopBalancer
  <1>8. ASSUME NEW k \in Closers, FinishClose(k) \/ AwaitClose(k)
        PROVE  SnapshotInv'
    BY <1>8 DEF FinishClose, Complete, AwaitClose
  <1>9. ASSUME NEW r \in Requests, Enter(r) \/ CancelRequest(r) \/ RequestStep(r)
        PROVE  UNCHANGED << created, conns, closing, closed, snapshot, balancerVars >>
    BY <1>9 DEF Enter, CancelRequest, RequestStep, GetConnection, AwaitPicker, Pick, StartRequest,
                TryAgain, FinishRequest, RequestGoto
  <1>10. ASSUME NEW p \in Prewarmers, Prewarm(p) \/ CancelPrewarm(p) \/ PrewarmStep(p)
         PROVE  UNCHANGED << created, conns, closing, closed, snapshot, balancerVars >>
    BY <1>10 DEF Prewarm, CancelPrewarm, PrewarmStep, PrewarmLoop, WakeCancelled
  <1>11. CASE UNCHANGED vars \/ Unlink \/ UpdatePickerStep
    BY <1>1, <1>11 DEF vars, Unlink, UpdatePickerStep, InitializePicker, UpdateWarm
  <1> QED
    BY <1>1, <1>2, <1>3, <1>4, <1>5, <1>6, <1>7, <1>8, <1>9, <1>10, <1>11
    DEF Next, BalancerNext, CloseStep

\* The steps that do not close a leaf leave the leaves alone, but for the
\* requests on them.
LEMMA LeafFrame ==
    ASSUME [Next]_vars
    PROVE  \/ UNCHANGED leafVars
           \/ \E c \in Conn : RemoveConn(c)
           \/ \E c \in Conn, call \in CloseCalls : CloseConnStep(c, call)
           \/ \E k \in Closers : CloseBalancer(k)
  <1> USE DEF connVars
  <1>1. ASSUME NEW c \in Conn, NewConn(c)
        PROVE  UNCHANGED leafVars
    BY <1>1 DEF NewConn
  <1>2. ASSUME NEW usable, NEW warm, StorePicker(usable, warm)
        PROVE  UNCHANGED leafVars
    BY <1>2 DEF StorePicker
  <1>3. ASSUME NEW r \in Requests, Enter(r) \/ CancelRequest(r) \/ RequestStep(r)
        PROVE  UNCHANGED leafVars
    BY <1>3 DEF Enter, CancelRequest, RequestStep, GetConnection, AwaitPicker, Pick, StartRequest,
                TryAgain, FinishRequest, RequestGoto
  <1>4. ASSUME NEW k \in Closers, CallClose(k) \/ CloseStep(k)
        PROVE  UNCHANGED leafVars
    BY <1>4 DEF CallClose, CloseStep, FinishClose, AwaitClose
  <1>5. ASSUME NEW p \in Prewarmers, Prewarm(p) \/ CancelPrewarm(p) \/ PrewarmStep(p)
        PROVE  UNCHANGED leafVars
    BY <1>5 DEF Prewarm, CancelPrewarm, PrewarmStep, PrewarmLoop, WakeCancelled
  <1>6. CASE UNCHANGED vars \/ Unlink \/ UpdatePickerStep
    BY <1>6 DEF vars, Unlink, UpdatePickerStep, InitializePicker, UpdateWarm
  <1> QED
    BY <1>1, <1>2, <1>3, <1>4, <1>5, <1>6 DEF Next, BalancerNext

LEMMA LeafStep == TypeOK /\ LeafInv /\ [Next]_vars => LeafInv'
  <1> SUFFICES ASSUME TypeOK, LeafInv, [Next]_vars
               PROVE  LeafInv'
    OBVIOUS
  <1> USE DEF LeafInv, TypeOK
  <1>1. CASE UNCHANGED leafVars
    BY <1>1 DEF leafVars
  <1>2. ASSUME NEW c \in Conn, RemoveConn(c)
        PROVE  LeafInv'
    BY <1>2 DEF RemoveConn, CloseCalls
  <1>3. ASSUME NEW c \in Conn, NEW call \in CloseCalls, CloseConnStep(c, call)
        PROVE  LeafInv'
    <2>1. CASE MarkClosing(c, call)
      BY <2>1 DEF MarkClosing, Advance
    <2>2. CASE Drain(c, call)
      BY <2>2 DEF Drain, Advance
    <2>3. CASE TearDown(c, call)
      BY <2>3 DEF TearDown, Advance
    <2>4. CASE ConnClosed(c, call)
      BY <2>4 DEF ConnClosed, Advance
    <2> QED
      BY <1>3, <2>1, <2>2, <2>3, <2>4 DEF CloseConnStep
  <1>4. ASSUME NEW k \in Closers, CloseBalancer(k)
        PROVE  LeafInv'
    BY <1>4 DEF CloseBalancer, CloseCalls
  <1> QED
    BY <1>1, <1>2, <1>3, <1>4, LeafFrame

LEMMA NextIInv == IInv /\ [Next]_vars => IInv'
  BY TypeStep, PickerStep, SleepStep, ClosingStep, SnapshotStep, LeafStep DEF IInv

LEMMA IInvAlways == Spec => []IInv
  BY InitIInv, NextIInv, PTL DEF Spec

-----------------------------------------------------------------------------
(* The theorems.                                                           *)

\* Every variable keeps its type.
THEOREM TypeCorrect == Spec => []TypeOK
  <1>1. IInv => TypeOK
    BY DEF IInv
  <1> QED
    BY <1>1, IInvAlways, PTL

\* A request that waited for the first picker always finds one.
THEOREM PickerNeverMissing == Spec => []PickerNotMissing
  <1>1. IInv => PickerNotMissing
    BY DEF IInv, PickerInv
  <1> QED
    BY <1>1, IInvAlways, PTL

\* No call of prewarm sleeps on after the last wake-up it could get.
THEOREM NoWakeupLost == Spec => []NoLostWakeup
  <1>1. IInv => NoLostWakeup
    BY DEF IInv
  <1> QED
    BY <1>1, IInvAlways, PTL

\* What a retry finds in the picker is open, unless the pool is being closed.
THEOREM RetriesFindOpenConns == Spec => []PickerOffersOpenConns
  <1>1. ASSUME IInv, NEW c \in picker, gate[c] # "open"
        PROVE  ~linked /\ balancerClosed
    <2>1. c \in Conn /\ c \in conns
      BY <1>1 DEF IInv, TypeOK, PickerInv
    <2>2. closing[c]["RemoveConn"] = "none"
      BY <1>1, <2>1 DEF IInv, SnapshotInv
    <2>3. closing[c]["close"] # "none"
      BY <1>1, <2>1, <2>2 DEF IInv, LeafInv, CloseCalls
    <2> QED
      BY <1>1, <2>1, <2>3 DEF IInv, SnapshotInv, CloseInv
  <1>2. IInv => PickerOffersOpenConns
    BY <1>1 DEF PickerOffersOpenConns
  <1> QED
    BY <1>2, IInvAlways, PTL

\* When close returns, every active connection is torn down.
THEOREM CloseLeavesNoneOpen == Spec => []NoConnLeftOpen
  <1>1. ASSUME IInv, closeComplete, NEW c \in conns
        PROVE  c \in tornDown
    <2>1. c \in Conn /\ c \in snapshot
      BY <1>1 DEF IInv, TypeOK, CloseInv, SnapshotInv
    <2>2. closing[c]["close"] = "done"
      BY <1>1, <2>1 DEF IInv, SnapshotInv
    <2> QED
      BY <1>1, <2>1, <2>2 DEF IInv, LeafInv, CloseCalls
  <1>2. IInv => NoConnLeftOpen
    BY <1>1 DEF NoConnLeftOpen
  <1> QED
    BY <1>2, IInvAlways, PTL

\* A step of a request in terms of the leaf it uses: it begins, or ends, or
\* changes nothing there.
LEMMA RequestOnLeaf ==
    ASSUME TypeOK, NEW r \in Requests, Enter(r) \/ CancelRequest(r) \/ RequestStep(r),
           NEW c \in Conn
    PROVE  /\ UNCHANGED leafVars
           /\ \/ gate[c] = "open" /\ r \notin InFlightOn(c) /\ InFlightOn(c)' = InFlightOn(c) \cup {r}
              \/ r \in InFlightOn(c) /\ InFlightOn(c)' = InFlightOn(c) \ {r}
              \/ InFlightOn(c)' = InFlightOn(c)
  <1> USE DEF TypeOK, InFlightOn, connVars, leafVars
  <1>1. ASSUME NEW from \in { "new", "entered", "waiting", "tryAgain" },
               NEW to \in { "entered", "waiting", "notInitialized", "picked", "elsewhere", "failed" },
               RequestGoto(r, from, to),
               UNCHANGED chosen \/ \E d \in Conn : chosen' = [chosen EXCEPT ![r] = d]
        PROVE  UNCHANGED leafVars /\ InFlightOn(c)' = InFlightOn(c)
    BY <1>1 DEF RequestGoto
  <1>2. CASE Enter(r) \/ CancelRequest(r) \/ TryAgain(r)
    BY <1>1, <1>2 DEF Enter, CancelRequest, TryAgain, Again
  <1>3. CASE GetConnection(r) \/ AwaitPicker(r)
    BY <1>1, <1>3 DEF GetConnection, AwaitPicker, Pick
  <1>4. CASE StartRequest(r)
    BY <1>4 DEF StartRequest, RequestGoto
  <1>5. CASE FinishRequest(r)
    BY <1>5 DEF FinishRequest, RequestGoto
  <1> QED
    BY <1>2, <1>3, <1>4, <1>5 DEF RequestStep

\* A step of a goroutine that closes one leaf, in terms of any leaf.
LEMMA CloseOnLeaf ==
    ASSUME IInv, NEW d \in Conn, NEW call \in CloseCalls, CloseConnStep(d, call), NEW c \in Conn
    PROVE  /\ UNCHANGED requestVars
           /\ \/ gate[c] = "open" /\ gate'[c] = "closing" /\ (c \in tornDown' <=> c \in tornDown)
              \/ /\ gate[c] = "closing" /\ gate'[c] = "drained" /\ InFlightOn(c) = {}
                 /\ c \in tornDown' <=> c \in tornDown
              \/ gate[c] = "drained" /\ gate'[c] = gate[c] /\ c \in tornDown'
              \/ gate'[c] = gate[c] /\ (c \in tornDown' <=> c \in tornDown)
  <1> USE DEF IInv, TypeOK, LeafInv, Advance
  <1>1. CASE MarkClosing(d, call)
    BY <1>1 DEF MarkClosing
  <1>2. CASE Drain(d, call)
    BY <1>2 DEF Drain, Acquiesced
  <1>3. CASE TearDown(d, call)
    BY <1>3 DEF TearDown
  <1>4. CASE ConnClosed(d, call)
    BY <1>4 DEF ConnClosed
  <1> QED
    BY <1>1, <1>2, <1>3, <1>4 DEF CloseConnStep

\* All other steps leave every leaf as it is.
LEMMA OtherOnLeaf ==
    ASSUME [Next]_vars
    PROVE  \/ UNCHANGED << gate, tornDown, requestVars >>
           \/ \E r \in Requests : Enter(r) \/ CancelRequest(r) \/ RequestStep(r)
           \/ \E c \in Conn, call \in CloseCalls : CloseConnStep(c, call)
  <1> USE DEF connVars, leafVars
  <1>1. ASSUME NEW c \in Conn, NewConn(c) \/ RemoveConn(c)
        PROVE  UNCHANGED << gate, tornDown, requestVars >>
    BY <1>1 DEF NewConn, RemoveConn
  <1>2. ASSUME NEW usable, NEW warm, StorePicker(usable, warm)
        PROVE  UNCHANGED << gate, tornDown, requestVars >>
    BY <1>2 DEF StorePicker
  <1>3. ASSUME NEW k \in Closers, CallClose(k) \/ CloseBalancer(k) \/ CloseStep(k)
        PROVE  UNCHANGED << gate, tornDown, requestVars >>
    BY <1>3 DEF CallClose, CloseBalancer, CloseStep, FinishClose, AwaitClose, CloseGoto
  <1>4. ASSUME NEW p \in Prewarmers, Prewarm(p) \/ CancelPrewarm(p) \/ PrewarmStep(p)
        PROVE  UNCHANGED << gate, tornDown, requestVars >>
    BY <1>4 DEF Prewarm, CancelPrewarm, PrewarmStep, PrewarmLoop, WakeCancelled
  <1>5. CASE UNCHANGED vars \/ Unlink \/ UpdatePickerStep
    BY <1>5 DEF vars, Unlink, UpdatePickerStep, InitializePicker, UpdateWarm
  <1> QED
    BY <1>1, <1>2, <1>3, <1>4, <1>5 DEF Next, BalancerNext

\* The pool and its requests drive each leaf as ConnectionContract allows,
\* one step at a time.
THEOREM LeavesKeepContract == Spec => LeafContracts
  <1>1. ASSUME IInv, [Next]_vars, NEW c \in Conn
        PROVE  Leaf(c)!Next \/ UNCHANGED Leaf(c)!vars
    <2> USE DEF Leaf!Next, Leaf!vars
    <2>1. CASE UNCHANGED << gate, tornDown, requestVars >>
      BY <2>1 DEF requestVars, InFlightOn
    <2>2. ASSUME NEW r \in Requests, Enter(r) \/ CancelRequest(r) \/ RequestStep(r)
          PROVE  Leaf(c)!Next \/ UNCHANGED Leaf(c)!vars
      BY <1>1, <2>2, RequestOnLeaf DEF IInv, leafVars, Leaf!Begin, Leaf!End
    <2>3. ASSUME NEW d \in Conn, NEW call \in CloseCalls, CloseConnStep(d, call)
          PROVE  Leaf(c)!Next \/ UNCHANGED Leaf(c)!vars
      BY <1>1, <2>3, CloseOnLeaf DEF requestVars, InFlightOn, Leaf!StartClosing, Leaf!Drain, Leaf!TearDown
    <2> QED
      BY <1>1, <2>1, <2>2, <2>3, OtherOnLeaf
  <1>2. IInv /\ [Next]_vars => [\A c \in Conn : Leaf(c)!Next \/ UNCHANGED Leaf(c)!vars]_vars
    BY <1>1
  <1> QED
    BY <1>2, IInvAlways, PTL DEF Spec, LeafContracts

=============================================================================
