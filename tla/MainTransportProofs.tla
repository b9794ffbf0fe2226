-------------------------- MODULE MainTransportProofs --------------------------
(***************************************************************************)
(* Proofs about the main transport, for any targets, pools, requests and   *)
(* callers of close: the map and the pools' goroutines agree, no pool in   *)
(* use is closed for idleness, and once a call of close has returned there *)
(* is no pool and never will be.                                           *)
(***************************************************************************)
EXTENDS MainTransport, FiniteSetTheorems, TLAPS

Step == [Next]_<< vars, configVars >>

\* The pools that the wait group counts.
Running == { p \in Pools : poolPc[p] \notin { "none", "closed" } }

\* A pool is in the map under its own target only, and while it is open.
LinkInv ==
    /\ \A d \in Targets : pools[d] # NoPool => dest[pools[d]] = d
    /\ OpenIffLinked

\* A pool looked up since its timer expired either has a signal waiting, or the
\* signal was taken and the timer started again.
TouchInv ==
    \A p \in Pools : touched[p] =>
        activity[p] \/ (timer[p] = "armed" /\ poolPc[p] # "ticked")

CountInv == runningPools = Cardinality(Running)

\* The transport is closed before a call of close gets anywhere.
ClosedInv == \A k \in Closers : closePc[k] # "idle" => closed

\* The inductive invariant.
IInv ==
    /\ TypeOK
    /\ LinkInv
    /\ TouchInv
    /\ CountInv
    /\ ClosedInv
    /\ CloseWaitsForPools

-----------------------------------------------------------------------------
(* Each part of the invariant is preserved.                                *)

\* The cases of a step.
LEMMA StepCases ==
    ASSUME Step
    PROVE  /\ UNCHANGED configVars
           /\ \/ UNCHANGED vars
              \/ \E r \in Requests : RequestStep(r) \/ GiveUp(r)
              \/ \E p \in Pools : UpdatePicker(p) \/ TimerExpires(p) \/ SelectDone(p) \/ PoolStep(p)
              \/ CancelRoot
              \/ \E k \in Closers : CallClose(k) \/ CloseStep(k)
  BY DEF Step, Next

\* What looking a pool up does to its signal.
LEMMA TouchType ==
    ASSUME TypeOK, NEW p \in Pools, Touch(p)
    PROVE  /\ activity' \in [Pools -> BOOLEAN]
           /\ touched' \in [Pools -> BOOLEAN]
           /\ UNCHANGED << poolVars, timer >>
  <1> DEFINE signal == poolPc[p] # "warm"
  <1>1. signal \in BOOLEAN
    OBVIOUS
  <1>2. /\ activity' = [activity EXCEPT ![p] = signal]
        /\ touched' = [touched EXCEPT ![p] = signal]
        /\ UNCHANGED << poolVars, timer >>
    BY DEF Touch
  <1> HIDE DEF signal
  <1> QED
    BY <1>1, <1>2 DEF TypeOK

LEMMA TypeStep == TypeOK /\ Step => TypeOK'
  <1> SUFFICES ASSUME TypeOK, Step
               PROVE  TypeOK'
    OBVIOUS
  <1> USE MainAssumption DEF TypeOK, OpenStates
  <1>0. UNCHANGED configVars
    BY StepCases
  <1> USE <1>0 DEF configVars
  <1>1. CASE UNCHANGED vars
    BY <1>1 DEF vars, rootVars, poolVars, idleVars, requestVars, closeVars
  <1>2. ASSUME NEW r \in Requests, RequestStep(r) \/ GiveUp(r)
        PROVE  TypeOK'
    <2>1. CASE LookUp(r)
      <3> DEFINE p == pools[target[r]]
      <3>1. CASE p # NoPool /\ Touch(p)
        <4>1. p \in Pools
          BY <3>1
        <4>2. /\ used' \in [Requests -> Pools \cup { NoPool }]
              /\ req' \in [Requests -> { "new", "again", "upgrading", "entered",
                                        "waiting", "inFlight", "failed", "finished" }]
          BY <2>1, <4>1 DEF LookUp, Fail, Goto, UsePool
        <4> QED
          BY <2>1, <3>1, <4>1, <4>2, TouchType DEF LookUp, rootVars, poolVars, closeVars
      <3>2. CASE UNCHANGED << poolVars, idleVars, used >>
        BY <2>1, <3>2 DEF LookUp, Fail, Goto, UsePool, rootVars, poolVars, idleVars, closeVars
      <3> QED
        BY <2>1, <3>1, <3>2 DEF LookUp, Fail, UsePool
    <2>2. CASE GetOrCreatePool(r)
      <3>1. CASE \E p \in Pools : CreatePool(r, p)
        <4>1. PICK p \in Pools : CreatePool(r, p)
          BY <3>1
        <4>2. runningPools' \in Int /\ UNCHANGED << rootVars, closeVars >>
          BY <2>2, <4>1 DEF GetOrCreatePool, CreatePool
        <4>3. /\ pools' \in [Targets -> Pools \cup { NoPool }]
              /\ dest' \in [Pools -> Targets \cup { NoTarget }]
              /\ poolPc' \in [Pools -> OpenStates \cup { "none", "closing", "closed" }]
              /\ picker' \in [Pools -> { "none", "cold", "warm" }]
          BY <4>1 DEF CreatePool
        <4>4. /\ activity' \in [Pools -> BOOLEAN]
              /\ timer' \in [Pools -> { "armed", "expired" }]
              /\ touched' \in [Pools -> BOOLEAN]
          BY <4>1 DEF CreatePool
        <4>5. /\ req' \in [Requests -> { "new", "again", "upgrading", "entered",
                                        "waiting", "inFlight", "failed", "finished" }]
              /\ used' \in [Requests -> Pools \cup { NoPool }]
          BY <4>1 DEF CreatePool, Goto
        <4> QED
          BY <4>2, <4>3, <4>4, <4>5 DEF rootVars, closeVars
      <3>2. CASE Fail(r)
        BY <2>2, <3>2 DEF GetOrCreatePool, Fail, Goto, rootVars, poolVars, idleVars, closeVars
      <3>3. CASE ~NoneYet(target[r]) /\ ~closed /\ UsePool(r, pools[target[r]])
        <4>1. pools[target[r]] \in Pools
          BY <3>3 DEF NoneYet
        <4> QED
          BY <2>2, <3>3, <4>1, TouchType DEF GetOrCreatePool, UsePool, Goto, rootVars, poolVars, closeVars
      <3> QED
        BY <2>2, <3>1, <3>2, <3>3 DEF GetOrCreatePool
    <2>3. ASSUME NEW there \in { "again", "failed", "finished" }, LeavePool(r, there)
          PROVE  TypeOK'
      BY <2>3 DEF LeavePool, Goto, rootVars, poolVars, idleVars, closeVars
    <2>4. CASE Serve(r)
      BY <2>4 DEF Serve, Goto, rootVars, poolVars, idleVars, closeVars
    <2>5. CASE Prewarm(r)
      <3>1. CASE Goto(r, "waiting") /\ UNCHANGED << rootVars, poolVars, idleVars, used, closeVars >>
        BY <3>1 DEF Goto, rootVars, poolVars, idleVars, closeVars
      <3> QED
        BY <2>3, <2>5, <3>1 DEF Prewarm
    <2>6. CASE PickFails(r) \/ TryAgain(r) \/ Finish(r) \/ GiveUp(r)
      BY <2>3, <2>6 DEF PickFails, TryAgain, Finish, GiveUp
    <2> QED
      BY <1>2, <2>1, <2>2, <2>4, <2>5, <2>6 DEF RequestStep
  <1>3. ASSUME NEW p \in Pools,
               UpdatePicker(p) \/ TimerExpires(p) \/ SelectDone(p) \/ PoolStep(p)
        PROVE  TypeOK'
    <2> USE DEF Move, rootVars, poolVars, idleVars, requestVars, closeVars
    <2>1. CASE TimerExpires(p) \/ SelectDone(p) \/ SelectTimer(p)
      BY <2>1 DEF TimerExpires, SelectDone, SelectTimer
    <2>2. ASSUME Rearm(p)
          PROVE  activity' \in [Pools -> BOOLEAN] /\ timer' \in [Pools -> { "armed", "expired" }]
      BY <2>2 DEF Rearm
    <2>3. CASE SelectActivity(p)
      BY <2>2, <2>3 DEF SelectActivity
    <2>4. ASSUME Unlink(p), Forget(p), NEW from, Move(p, from, "closing")
          PROVE  /\ pools' \in [Targets -> Pools \cup { NoPool }]
                 /\ poolPc' \in [Pools -> OpenStates \cup { "none", "closing", "closed" }]
                 /\ touched' \in [Pools -> BOOLEAN]
                 /\ Rearm(p)
      BY <2>4 DEF Unlink, Forget
    <2>5. CASE TryRemovePool(p)
      <3>1. CASE Move(p, "ticked", "select") /\ Rearm(p) /\ UNCHANGED << touched, pools >>
        <4>1. poolPc' \in [Pools -> OpenStates \cup { "none", "closing", "closed" }]
          BY <3>1
        <4> QED
          BY <2>2, <2>5, <3>1, <4>1 DEF TryRemovePool
      <3>2. CASE Move(p, "ticked", "closing") /\ Unlink(p) /\ Forget(p)
        BY <2>2, <2>4, <2>5, <3>2 DEF TryRemovePool
      <3> QED
        BY <2>5, <3>1, <3>2 DEF TryRemovePool
    <2>6. CASE RemovePool(p)
      BY <2>2, <2>4, <2>6 DEF RemovePool
    <2>7. CASE PoolClosed(p)
      <3>1. runningPools' \in Int
        BY <2>7 DEF PoolClosed
      <3>2. poolPc' \in [Pools -> OpenStates \cup { "none", "closing", "closed" }]
        BY <2>7 DEF PoolClosed
      <3> QED
        BY <2>7, <3>1, <3>2 DEF PoolClosed
    <2>8. CASE UpdatePicker(p)
      BY <2>8 DEF UpdatePicker
    <2> QED
      BY <1>3, <2>1, <2>3, <2>5, <2>6, <2>7, <2>8 DEF PoolStep
  <1>4. CASE CancelRoot
    BY <1>4 DEF CancelRoot, poolVars, idleVars, requestVars, closeVars
  <1>5. ASSUME NEW k \in Closers, CallClose(k) \/ CloseStep(k)
        PROVE  TypeOK'
    <2> USE DEF CloseGoto, rootVars, poolVars, idleVars, requestVars
    <2>1. CASE CallClose(k) \/ Cancel(k)
      BY <2>1 DEF CallClose, Cancel
    <2>2. CASE CollectPools(k)
      BY <2>2 DEF CollectPools, WarmPools
    <2>3. CASE AwaitCollected(k) \/ AwaitPools(k)
      BY <2>3 DEF AwaitCollected, AwaitPools
    <2> QED
      BY <1>5, <2>1, <2>2, <2>3 DEF CloseStep
  <1> QED
    BY <1>1, <1>2, <1>3, <1>4, <1>5, StepCases

LEMMA TouchStep == TypeOK /\ TouchInv /\ Step => TouchInv'
  <1> SUFFICES ASSUME TypeOK, TouchInv, Step
               PROVE  TouchInv'
    OBVIOUS
  <1> USE MainAssumption DEF TypeOK, TouchInv, OpenStates
  <1>1. CASE UNCHANGED vars
    BY <1>1 DEF vars, poolVars, idleVars
  <1>2. ASSUME NEW r \in Requests, RequestStep(r) \/ GiveUp(r)
        PROVE  TouchInv'
    <2>1. CASE UNCHANGED << poolPc, idleVars >>
      BY <2>1 DEF idleVars
    <2>2. ASSUME NEW p \in Pools, Touch(p)
          PROVE  TouchInv'
      BY <2>2 DEF Touch, poolVars
    <2>3. CASE \E p \in Pools : CreatePool(r, p)
      BY <2>3 DEF CreatePool
    <2>4. UNCHANGED << poolPc, idleVars >> \/ (\E p \in Pools : Touch(p) \/ CreatePool(r, p))
      BY <1>2 DEF RequestStep, LookUp, GetOrCreatePool, NoneYet, UsePool, Fail, Serve, PickFails,
                  TryAgain, Prewarm, Finish, GiveUp, LeavePool, poolVars
    <2> QED
      BY <2>1, <2>2, <2>3, <2>4
  <1>3. ASSUME NEW p \in Pools,
               UpdatePicker(p) \/ TimerExpires(p) \/ SelectDone(p) \/ PoolStep(p)
        PROVE  TouchInv'
    <2> USE DEF Move, poolVars, idleVars
    <2>1. CASE UpdatePicker(p) \/ TimerExpires(p) \/ SelectDone(p) \/ SelectTimer(p)
      BY <2>1 DEF UpdatePicker, TimerExpires, SelectDone, SelectTimer
    <2>2. CASE SelectActivity(p) \/ TryRemovePool(p)
      BY <2>2 DEF SelectActivity, TryRemovePool, InUse, Rearm, Forget
    <2>3. CASE RemovePool(p) \/ PoolClosed(p)
      BY <2>3 DEF RemovePool, PoolClosed, Rearm, Forget
    <2> QED
      BY <1>3, <2>1, <2>2, <2>3 DEF PoolStep
  <1>4. CASE CancelRoot
    BY <1>4 DEF CancelRoot, poolVars, idleVars
  <1>5. ASSUME NEW k \in Closers, CallClose(k) \/ CloseStep(k)
        PROVE  TouchInv'
    BY <1>5 DEF CallClose, CloseStep, Cancel, CollectPools, AwaitCollected, AwaitPools, poolVars,
                idleVars
  <1> QED
    BY <1>1, <1>2, <1>3, <1>4, <1>5, StepCases

-----------------------------------------------------------------------------
(* What a step may do to the pools: nothing that matters to the map or to  *)
(* the wait group, or one of four things.                                  *)

Open(p) == poolPc[p] \in OpenStates
Over(p) == poolPc[p] \in { "none", "closed" }

Quiet ==
    /\ UNCHANGED << pools, runningPools, dest >>
    /\ \A p \in Pools : (Open(p)' <=> Open(p)) /\ (Over(p)' <=> Over(p))

Created(r, p) == ~closed /\ pools[target[r]] = NoPool /\ CreatePool(r, p)

Dropped(p) ==
    /\ \/ Move(p, "ticked", "closing") /\ ~InUse(p)
       \/ Move(p, "cancelled", "closing")
    /\ Unlink(p)
    /\ UNCHANGED << runningPools, dest >>

LEMMA StepEffect ==
    ASSUME TypeOK, Step
    PROVE  \/ Quiet
           \/ \E r \in Requests, p \in Pools : Created(r, p)
           \/ \E p \in Pools : Dropped(p) \/ PoolClosed(p)
           \/ \E k \in Closers : CollectPools(k)
  <1>1. ASSUME UNCHANGED poolVars
        PROVE  Quiet
    BY <1>1 DEF poolVars, Quiet, Open, Over
  <1>2. ASSUME NEW r \in Requests, RequestStep(r) \/ GiveUp(r)
        PROVE  UNCHANGED poolVars \/ \E p \in Pools : Created(r, p)
    BY <1>2 DEF RequestStep, LookUp, GetOrCreatePool, NoneYet, UsePool, Touch, Fail, Serve, PickFails,
                TryAgain, Prewarm, Finish, GiveUp, LeavePool, Created
  <1>3. ASSUME NEW p \in Pools, NEW from \in OpenStates, NEW to \in OpenStates, Move(p, from, to),
               UNCHANGED << pools, runningPools, dest >>
        PROVE  Quiet
    BY <1>3 DEF Move, Quiet, Open, Over, OpenStates, TypeOK
  <1>4. ASSUME NEW p \in Pools,
               UpdatePicker(p) \/ TimerExpires(p) \/ SelectDone(p) \/ PoolStep(p)
        PROVE  UNCHANGED poolVars \/ Quiet \/ Dropped(p) \/ PoolClosed(p)
    <2>1. CASE TimerExpires(p) \/ SelectActivity(p)
      BY <2>1 DEF TimerExpires, SelectActivity
    <2>2. CASE SelectDone(p) \/ SelectTimer(p)
      BY <1>3, <2>2 DEF SelectDone, SelectTimer, OpenStates
    <2>3. CASE TryRemovePool(p)
      BY <1>3, <2>3 DEF TryRemovePool, OpenStates, Dropped
    <2>4. CASE RemovePool(p)
      BY <2>4 DEF RemovePool, Dropped
    <2>5. CASE UpdatePicker(p)
      BY <2>5 DEF UpdatePicker, Quiet, Open, Over
    <2> QED
      BY <1>4, <2>1, <2>2, <2>3, <2>4, <2>5 DEF PoolStep
  <1>5. ASSUME NEW k \in Closers, CallClose(k) \/ CloseStep(k)
        PROVE  UNCHANGED poolVars \/ CollectPools(k)
    BY <1>5 DEF CallClose, CloseStep, Cancel, AwaitCollected, AwaitPools
  <1>6. CASE UNCHANGED vars \/ CancelRoot
    BY <1>1, <1>6 DEF vars, CancelRoot
  <1> QED
    BY <1>1, <1>2, <1>4, <1>5, <1>6, StepCases

LEMMA LinkStep == TypeOK /\ LinkInv /\ Step => LinkInv'
  <1> SUFFICES ASSUME TypeOK, LinkInv, Step
               PROVE  LinkInv'
    OBVIOUS
  <1> USE MainAssumption DEF TypeOK, LinkInv, OpenIffLinked
  <1>1. CASE Quiet
    BY <1>1 DEF Quiet, Open
  <1>2. ASSUME NEW r \in Requests, NEW p \in Pools, Created(r, p)
        PROVE  LinkInv'
    <2> DEFINE d == target[r]
    <2>1. /\ d \in Targets
          /\ pools[d] = NoPool
          /\ pools' = [pools EXCEPT ![d] = p]
          /\ dest' = [dest EXCEPT ![p] = d]
          /\ poolPc'[p] \in OpenStates
          /\ \A q \in Pools \ { p } : poolPc'[q] = poolPc[q]
      BY <1>2 DEF Created, CreatePool, OpenStates
    <2>2. \A e \in Targets : pools[e] # p
      BY <1>2 DEF Created, CreatePool, Unused, OpenStates
    <2> HIDE DEF d
    <2> QED
      BY <2>1, <2>2
  <1>3. ASSUME NEW p \in Pools, Dropped(p)
        PROVE  LinkInv'
    <2>1. /\ Open(p) /\ ~Open(p)'
          /\ \A q \in Pools \ { p } : poolPc'[q] = poolPc[q]
          /\ dest' = dest
          /\ pools' = [pools EXCEPT ![dest[p]] = NoPool]
      BY <1>3 DEF Dropped, Move, Unlink, Open, OpenStates
    <2>2. PICK d \in Targets : pools[d] = p
      BY <2>1 DEF Open
    <2>3. dest[p] = d
      BY <2>2
    <2>4. \A e \in Targets \ { d } : pools[e] # p
      BY <2>3
    <2> QED
      BY <2>1, <2>2, <2>3, <2>4 DEF Open
  <1>4. ASSUME NEW p \in Pools, PoolClosed(p)
        PROVE  LinkInv'
    BY <1>4 DEF PoolClosed, Move, OpenStates
  <1>5. ASSUME NEW k \in Closers, CollectPools(k)
        PROVE  LinkInv'
    <2>1. \A p \in Pools : poolPc'[p] \in OpenStates <=> poolPc[p] \in OpenStates /\ p \notin WarmPools
      BY <1>5 DEF CollectPools, OpenStates
    <2>2. /\ dest' = dest
          /\ \A d \in Targets : pools'[d] = IF pools[d] \in WarmPools THEN NoPool ELSE pools[d]
      BY <1>5 DEF CollectPools
    <2> QED
      BY <2>1, <2>2 DEF WarmPools
  <1> QED
    BY <1>1, <1>2, <1>3, <1>4, <1>5, StepEffect

LEMMA CountStep == TypeOK /\ LinkInv /\ CountInv /\ Step => CountInv'
  <1> SUFFICES ASSUME TypeOK, LinkInv, CountInv, Step
               PROVE  CountInv'
    OBVIOUS
  <1> USE DEF CountInv
  <1>1. IsFiniteSet(Running)
    BY MainAssumption, FS_Subset DEF Running
  <1>2. CASE Quiet
    <2>1. Running' = Running
      BY <1>2 DEF Quiet, Over, Running
    <2> QED
      BY <1>2, <2>1 DEF Quiet
  <1>3. ASSUME NEW r \in Requests, NEW p \in Pools, Created(r, p)
        PROVE  CountInv'
    <2>1. Running' = Running \cup { p } /\ p \notin Running
      BY <1>3 DEF Created, CreatePool, Unused, Running, TypeOK
    <2>2. Cardinality(Running') = Cardinality(Running) + 1
      BY <1>1, <2>1, FS_AddElement
    <2> QED
      BY <1>3, <2>2 DEF Created, CreatePool
  <1>4. ASSUME NEW p \in Pools, Dropped(p)
        PROVE  CountInv'
    <2>1. Running' = Running
      BY <1>4 DEF Dropped, Move, Running, TypeOK
    <2> QED
      BY <1>4, <2>1 DEF Dropped
  <1>5. ASSUME NEW p \in Pools, PoolClosed(p)
        PROVE  CountInv'
    <2>1. Running' = Running \ { p } /\ p \in Running
      BY <1>5 DEF PoolClosed, Move, Running, TypeOK
    <2>2. Cardinality(Running') = Cardinality(Running) - 1
      BY <1>1, <2>1, FS_RemoveElement
    <2> QED
      BY <1>5, <2>2 DEF PoolClosed
  <1>6. ASSUME NEW k \in Closers, CollectPools(k)
        PROVE  CountInv'
    <2>1. Running' = Running
      BY <1>6 DEF CollectPools, WarmPools, Running, TypeOK
    <2> QED
      BY <1>6, <2>1 DEF CollectPools
  <1> QED
    BY <1>2, <1>3, <1>4, <1>5, <1>6, StepEffect

\* Only close itself gets a call of close anywhere, and never reopens.
LEMMA ClosedStep == TypeOK /\ ClosedInv /\ Step => ClosedInv' /\ (closed => closed')
  <1> SUFFICES ASSUME TypeOK, ClosedInv, Step
               PROVE  ClosedInv' /\ (closed => closed')
    OBVIOUS
  <1> USE DEF ClosedInv, TypeOK
  <1>1. CASE UNCHANGED << closed, closePc >>
    BY <1>1
  <1>2. ASSUME NEW r \in Requests, RequestStep(r) \/ GiveUp(r)
        PROVE  UNCHANGED << closed, closePc >>
    BY <1>2 DEF RequestStep, LookUp, GetOrCreatePool, Serve, PickFails, TryAgain, Prewarm, Finish,
                GiveUp, LeavePool, rootVars, closeVars
  <1>3. ASSUME NEW p \in Pools,
               UpdatePicker(p) \/ TimerExpires(p) \/ SelectDone(p) \/ PoolStep(p)
        PROVE  UNCHANGED << closed, closePc >>
    BY <1>3 DEF UpdatePicker, TimerExpires, SelectDone, PoolStep, SelectTimer, SelectActivity,
                TryRemovePool, RemovePool, PoolClosed, rootVars, closeVars
  <1>4. CASE UNCHANGED vars \/ CancelRoot
    BY <1>1, <1>4 DEF vars, CancelRoot, rootVars, closeVars
  <1>5. ASSUME NEW k \in Closers, CallClose(k)
        PROVE  ClosedInv' /\ closed'
    BY <1>5 DEF CallClose, CloseGoto
  <1>6. ASSUME NEW k \in Closers, CloseStep(k)
        PROVE  closed' = closed /\ ClosedInv'
    BY <1>6 DEF CloseStep, CloseGoto, Cancel, CollectPools, AwaitCollected, AwaitPools, rootVars
  <1> QED
    BY <1>1, <1>2, <1>3, <1>4, <1>5, <1>6, StepCases

AllOver == /\ \A p \in Pools : Over(p)
           /\ \A d \in Targets : pools[d] = NoPool

\* Once the transport is closed and empty it stays empty.
LEMMA StaysOver == TypeOK /\ closed /\ AllOver /\ Step => AllOver'
  <1> SUFFICES ASSUME TypeOK, closed, AllOver, Step
               PROVE  AllOver'
    OBVIOUS
  <1>1. \A p \in Pools : ~Dropped(p) /\ ~PoolClosed(p)
    BY DEF AllOver, Over, Dropped, PoolClosed, Move
  <1>2. CASE Quiet
    BY <1>2 DEF Quiet, AllOver
  <1>3. ASSUME NEW k \in Closers, CollectPools(k)
        PROVE  AllOver'
    BY <1>3 DEF CollectPools, WarmPools, AllOver, Over
  <1> QED
    BY <1>1, <1>2, <1>3, StepEffect DEF Created

LEMMA ReturnStep ==
    TypeOK /\ LinkInv /\ CountInv /\ ClosedInv /\ CloseWaitsForPools /\ Step
        => CloseWaitsForPools'
  <1> SUFFICES ASSUME TypeOK, LinkInv, CountInv, ClosedInv, CloseWaitsForPools, Step,
                      NEW k \in Closers, closePc'[k] = "returned"
               PROVE  AllOver'
    BY DEF CloseWaitsForPools, AllOver, Over
  <1>1. CASE closePc[k] = "returned"
    BY <1>1, StaysOver DEF CloseWaitsForPools, ClosedInv, AllOver, Over
  <1>2. CASE AwaitPools(k)
    <2>1. Cardinality(Running) = 0
      BY <1>2 DEF AwaitPools, CountInv
    <2>2. Running = {}
      BY <2>1, MainAssumption, FS_Subset, FS_EmptySet DEF Running
    <2>3. \A p \in Pools : Over(p)
      BY <2>2 DEF Running, Over
    <2>4. \A d \in Targets : pools[d] = NoPool
      BY <2>3 DEF Over, LinkInv, OpenIffLinked, OpenStates, TypeOK
    <2> QED
      BY <1>2, <2>3, <2>4 DEF AwaitPools, poolVars, AllOver, Over
  <1>3. closePc[k] = "returned" \/ AwaitPools(k)
    <2>1. ASSUME NEW r \in Requests, RequestStep(r) \/ GiveUp(r)
          PROVE  closePc' = closePc
      BY <2>1 DEF RequestStep, LookUp, GetOrCreatePool, Serve, PickFails, TryAgain, Prewarm, Finish,
                  GiveUp, LeavePool, closeVars
    <2>2. ASSUME NEW p \in Pools,
               UpdatePicker(p) \/ TimerExpires(p) \/ SelectDone(p) \/ PoolStep(p)
          PROVE  closePc' = closePc
      BY <2>2 DEF UpdatePicker, TimerExpires, SelectDone, PoolStep, SelectTimer, SelectActivity,
                  TryRemovePool, RemovePool, PoolClosed, closeVars
    <2>3. ASSUME UNCHANGED vars \/ CancelRoot
          PROVE  closePc' = closePc
      BY <2>3 DEF vars, CancelRoot, closeVars
    <2>4. ASSUME NEW j \in Closers, CallClose(j) \/ CloseStep(j)
          PROVE  closePc[k] = "returned" \/ AwaitPools(k)
      BY <2>4 DEF CallClose, CloseStep, CloseGoto, Cancel, CollectPools, AwaitCollected, AwaitPools,
                  TypeOK
    <2> QED
      BY <2>1, <2>2, <2>3, <2>4, StepCases
  <1> QED
    BY <1>1, <1>2, <1>3

-----------------------------------------------------------------------------
(* The theorems.                                                           *)

LEMMA InitIInv == Init => IInv
  <1> SUFFICES ASSUME Init
               PROVE  IInv
    OBVIOUS
  <1>1. TypeOK
    <2>1. runningPools \in Int
      BY DEF Init
    <2>2. /\ activity \in [Pools -> BOOLEAN] /\ touched \in [Pools -> BOOLEAN]
          /\ closed \in BOOLEAN /\ ctxDone \in BOOLEAN /\ keepWarm \in BOOLEAN
      BY MainAssumption DEF Init
    <2>3. /\ pools \in [Targets -> Pools \cup { NoPool }]
          /\ dest \in [Pools -> Targets \cup { NoTarget }]
          /\ poolPc \in [Pools -> OpenStates \cup { "none", "closing", "closed" }]
          /\ timer \in [Pools -> { "armed", "expired" }]
      BY DEF Init
    <2> QED
      BY <2>1, <2>2, <2>3 DEF Init, TypeOK
  <1>2. LinkInv
    BY MainAssumption DEF Init, LinkInv, OpenIffLinked, OpenStates
  <1>3. TouchInv /\ ClosedInv /\ CloseWaitsForPools
    BY DEF Init, TouchInv, ClosedInv, CloseWaitsForPools
  <1>4. Running = {}
    BY DEF Init, Running
  <1>5. CountInv
    BY <1>4, FS_EmptySet DEF Init, CountInv
  <1> QED
    BY <1>1, <1>2, <1>3, <1>5 DEF IInv

LEMMA NextIInv == IInv /\ Step => IInv'
  BY TypeStep, LinkStep, TouchStep, CountStep, ClosedStep, ReturnStep DEF IInv

LEMMA IInvAlways == Spec => []IInv
  BY InitIInv, NextIInv, PTL DEF Spec, Step

\* Every variable keeps its type.
THEOREM TypeCorrect == Spec => []TypeOK
  <1>1. IInv => TypeOK
    BY DEF IInv
  <1> QED
    BY <1>1, IInvAlways, PTL

\* The map and the pools' goroutines always agree, for any targets, pools,
\* requests and callers of close.
THEOREM MapAlwaysAgrees == Spec => []OpenIffLinked
  <1>1. IInv => OpenIffLinked
    BY DEF IInv, LinkInv
  <1> QED
    BY <1>1, IInvAlways, PTL

\* When a call of close has returned there is no pool, and there will be none.
THEOREM ClosedMeansEmpty == Spec => []CloseWaitsForPools
  <1>1. IInv => CloseWaitsForPools
    BY DEF IInv
  <1> QED
    BY <1>1, IInvAlways, PTL

\* The idle timeout never closes a pool looked up after its timer expired.
THEOREM TouchedPoolsStay == Spec => TouchedPoolStays
  <1>1. ASSUME IInv, Step, NEW p \in Pools, poolPc[p] = "ticked", poolPc'[p] = "closing"
        PROVE  ~touched[p]
    <2> USE DEF IInv, TypeOK
    <2>1. ~Quiet
      BY <1>1 DEF Quiet, Open, OpenStates
    <2>2. ASSUME NEW r \in Requests, NEW q \in Pools, Created(r, q)
          PROVE  FALSE
      BY <1>1, <2>2 DEF Created, CreatePool, Unused
    <2>3. ASSUME NEW q \in Pools, Dropped(q) \/ PoolClosed(q)
          PROVE  Dropped(p)
      BY <1>1, <2>3 DEF Dropped, PoolClosed, Move
    <2>4. ASSUME NEW k \in Closers, CollectPools(k)
          PROVE  FALSE
      BY <1>1, <2>4 DEF CollectPools, WarmPools
    <2>5. Dropped(p)
      BY <1>1, <2>1, <2>2, <2>3, <2>4, StepEffect
    <2> QED
      BY <1>1, <2>5 DEF Dropped, Move, InUse, TouchInv
  <1>2. IInv /\ Step => [\A p \in Pools : poolPc[p] = "ticked" /\ poolPc'[p] = "closing"
                                           => ~touched[p]]_vars
    BY <1>1
  <1> QED
    BY <1>2, IInvAlways, PTL DEF Spec, Step, TouchedPoolStays

=============================================================================
