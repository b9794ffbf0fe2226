---------------------------- MODULE BalancerProofs ----------------------------
(***************************************************************************)
(* Proofs that the balancer keeps its books, for any set of addresses, any *)
(* bounds and any health reports: its records of the connections agree,    *)
(* the published picker is current and stays within the pool, nothing runs *)
(* on after it closed, to its pool it behaves as BalancerContract, every   *)
(* address has its number of connections, and unhealthy backends keep the  *)
(* resolver asked.                                                         *)
(***************************************************************************)
EXTENDS Balancer, FiniteSetTheorems, TLAPS

Updating == pc \in { "adding", "removing" }

\* The records of the connections, also while an update is under way.
BooksInv ==
    /\ ~Updating =>
           /\ connsByAddr = conns
           /\ poolConns = conns
           /\ addConns = {}
           /\ removeConns = {}
    /\ pc = "adding" =>
           /\ conns = connsByAddr \cup removeConns
           /\ poolConns = conns \cup addConns
           /\ connsByAddr \cap removeConns = {}
    /\ pc = "removing" =>
           /\ conns = connsByAddr \cup addConns
           /\ poolConns = conns \cup removeConns
           /\ removeConns \cap conns = {}

\* New connections are really new.
FreshInv == pc = "adding" => addConns \cap conns = {}

InfoInv == DOMAIN connInfo = IF pc \in { "stopping", "closed" } THEN {} ELSE conns

\* What runs for a connection belongs to one the balancer has information on,
\* or is about to be closed.
RunnersInv ==
    /\ checkers \subseteq DOMAIN connInfo \cup checkClosers
    /\ timers \subseteq DOMAIN connInfo
    /\ pc \notin { "removing", "stopping" } => checkClosers = {}

\* The number of a connection is at most the number of those created.
IdInv ==
    /\ IsFiniteSet(created)
    /\ \A c \in created : c[2] <= Cardinality(created)
    /\ poolConns \subseteq created

UnresolvedInv == latestAddrs = Unresolved => conns = {} /\ ~Updating

\* The inductive invariant.
IInv ==
    /\ TypeOK
    /\ BooksInv
    /\ FreshInv
    /\ InfoInv
    /\ RunnersInv
    /\ IdInv
    /\ UnresolvedInv
    /\ poolPicker \subseteq conns
    /\ PickerCurrent

-----------------------------------------------------------------------------
(* The pure part.                                                          *)

\* Only connections of the view are usable.
LEMMA UsableSubset ==
    ASSUME NEW view
    PROVE  Usable(view) \subseteq DOMAIN view
  BY DEF Usable, CollectUsable, InState

\* What publishing a picker establishes.
LEMMA Published ==
    ASSUME NEW cs, NEW info
    PROVE  /\ Usable(View(cs, info)) \subseteq cs
           /\ IsWarm(Usable(View(cs, info)), info) \in BOOLEAN
           /\ NeedsReresolve(View(cs, info)) \in BOOLEAN
           /\ cs = {} => Usable(View(cs, info)) = {}
  <1>1. DOMAIN View(cs, info) = cs
    BY DEF View
  <1>2. Usable(View(cs, info)) \subseteq cs
    BY <1>1, UsableSubset
  <1> QED
    BY <1>2 DEF IsWarm, NeedsReresolve

\* No result of the resolver is mistaken for the lack of one.
LEMMA ResolvedIsNotUnresolved == Unresolved \notin Addresses
  <1>1. SUFFICES ASSUME Unresolved \in Addresses PROVE FALSE
    OBVIOUS
  <1>2. DOMAIN Unresolved = HostPorts
    BY <1>1 DEF Addresses
  <1>3. DOMAIN Unresolved = {}
    BY DEF Unresolved
  <1> QED
    BY <1>2, <1>3, BalancerAssumption

LEMMA NoAddressesType == NoAddresses \in Addresses
  BY BalancerAssumption DEF NoAddresses, Addresses

\* The managed connections are among those created, and so are finitely many.
LEMMA ManagedFinite ==
    ASSUME IInv, NEW S \in SUBSET connsByAddr
    PROVE  Cardinality(S) \in Nat
  <1>1. S \subseteq created
    BY DEF IInv, BooksInv, IdInv, Updating
  <1> QED
    BY <1>1, FS_Subset, FS_CardinalityType DEF IInv, IdInv

\* What a step that publishes a picker does, in the terms of the invariant.
LEMMA PublishStep ==
    ASSUME NEW cs \in SUBSET Conn, NEW info, NewPicker(cs, info), TypeOK
    PROVE  /\ poolPicker' = Usable(View(cs, info))
           /\ poolPicker' \subseteq cs
           /\ poolPicker' \subseteq Conn
           /\ poolWarm' = IsWarm(Usable(View(cs, info)), info)
           /\ poolWarm' \in BOOLEAN
           /\ latestUsableConns' \subseteq Conn
           /\ reresolve' \in BOOLEAN
           /\ ignored' \in BOOLEAN
  <1>1. Usable(View(cs, info)) \subseteq cs
    BY Published
  <1>2. poolPicker' = Usable(View(cs, info)) /\ poolWarm' = IsWarm(Usable(View(cs, info)), info)
    BY DEF NewPicker
  <1>3. poolWarm' \in BOOLEAN
    BY <1>2, Published
  <1>4. latestUsableConns' \subseteq Conn
    BY <1>1 DEF NewPicker, TypeOK
  <1>5. reresolve' \in BOOLEAN /\ ignored' \in BOOLEAN
    BY DEF NewPicker, NeedsReresolve, TypeOK
  <1> QED
    BY <1>1, <1>2, <1>3, <1>4, <1>5

-----------------------------------------------------------------------------
(* The invariant is inductive.                                             *)

LEMMA InitIInv == Init => IInv
  <1> SUFFICES ASSUME Init PROVE IInv
    OBVIOUS
  <1> USE DEF Init
  <1>1. TypeOK
    <2>1. NoAddresses \in [HostPorts -> Nat]
      BY DEF NoAddresses
    <2>2. connInfo \in [DOMAIN connInfo -> ConnInfo] /\ DOMAIN connInfo = {}
      OBVIOUS
    <2>3. resolves \in 0..MaxResolves /\ recycles \in 0..MaxRecycles
      BY BalancerAssumption
    <2> QED
      BY <2>1, <2>2, <2>3, NoAddressesType DEF TypeOK
  <1>2. IdInv
    BY FS_EmptySet DEF IdInv
  <1>3. PickerCurrent
    BY Published DEF PickerCurrent, IsWarm
  <1> QED
    BY <1>1, <1>2, <1>3
       DEF IInv, BooksInv, FreshInv, InfoInv, RunnersInv, UnresolvedInv, Updating

LEMMA NextIInv == IInv /\ [Next]_vars => IInv'
  <1> SUFFICES ASSUME IInv, [Next]_vars PROVE IInv'
    OBVIOUS
  <1> USE DEF resolverVars, viewVars, pickerVars, recycleVars, loopVars, connVars,
              poolVars
  <1>1. CASE StartResolve
    <2> USE <1>1 DEF StartResolve
    <2>1. TypeOK'
      <3>1. resolves' \in 0..MaxResolves
        BY BalancerAssumption DEF IInv, TypeOK
      <3>2. reresolve' \in BOOLEAN
        BY DEF IInv, TypeOK
      <3> QED
        BY <3>1, <3>2 DEF IInv, TypeOK
    <2>2. BooksInv' /\ FreshInv'
      BY DEF IInv, BooksInv, FreshInv, Updating
    <2>3. InfoInv' /\ RunnersInv'
      BY DEF IInv, BooksInv, InfoInv, RunnersInv, Updating
    <2>4. IdInv'
      BY DEF IInv, IdInv
    <2>5. UnresolvedInv'
      BY DEF IInv, UnresolvedInv, Updating
    <2>6. (poolPicker \subseteq conns)' /\ PickerCurrent'
      BY DEF IInv, PickerCurrent
    <2> QED
      BY <2>1, <2>2, <2>3, <2>4, <2>5, <2>6 DEF IInv
  <1>2. ASSUME NEW addresses \in Addresses, OnResolve(addresses) PROVE IInv'
    <2> USE <1>2 DEF OnResolve
    <2>1. TypeOK'
      BY DEF IInv, TypeOK
    <2>2. BooksInv' /\ FreshInv'
      BY DEF IInv, BooksInv, FreshInv, Updating
    <2>3. InfoInv' /\ RunnersInv'
      BY DEF IInv, BooksInv, InfoInv, RunnersInv, Updating
    <2>4. IdInv'
      BY DEF IInv, IdInv
    <2>5. UnresolvedInv'
      BY ResolvedIsNotUnresolved DEF UnresolvedInv
    <2>6. (poolPicker \subseteq conns)' /\ PickerCurrent'
      BY DEF IInv, PickerCurrent
    <2> QED
      BY <2>1, <2>2, <2>3, <2>4, <2>5, <2>6 DEF IInv
  <1>3. CASE OnResolveError
    <2> USE <1>3 DEF OnResolveError
    <2>1. TypeOK'
      BY DEF IInv, TypeOK
    <2>2. BooksInv' /\ FreshInv'
      BY DEF IInv, BooksInv, FreshInv, Updating
    <2>3. InfoInv' /\ RunnersInv'
      BY DEF IInv, BooksInv, InfoInv, RunnersInv, Updating
    <2>4. IdInv'
      BY DEF IInv, IdInv
    <2>5. UnresolvedInv'
      BY DEF IInv, UnresolvedInv, Updating
    <2>6. (poolPicker \subseteq conns)' /\ PickerCurrent'
      BY DEF IInv, PickerCurrent
    <2> QED
      BY <2>1, <2>2, <2>3, <2>4, <2>5, <2>6 DEF IInv
  <1>4. CASE SignalUpdate
    <2> USE <1>4 DEF SignalUpdate
    <2>1. TypeOK'
      BY DEF IInv, TypeOK
    <2>2. BooksInv' /\ FreshInv'
      BY DEF IInv, BooksInv, FreshInv, Updating
    <2>3. InfoInv' /\ RunnersInv'
      BY DEF IInv, BooksInv, InfoInv, RunnersInv, Updating
    <2>4. IdInv'
      BY DEF IInv, IdInv
    <2>5. UnresolvedInv'
      BY DEF IInv, UnresolvedInv, Updating
    <2>6. (poolPicker \subseteq conns)' /\ PickerCurrent'
      BY DEF IInv, PickerCurrent
    <2> QED
      BY <2>1, <2>2, <2>3, <2>4, <2>5, <2>6 DEF IInv
  <1>5. ASSUME NEW c \in Conn, NEW state \in Reports, UpdateHealthState(c, state) PROVE IInv'
    <2> USE <1>5 DEF UpdateHealthState
    <2>a. /\ poolPicker' = Usable(View(conns, connInfo'))
          /\ poolPicker' \subseteq conns
          /\ poolPicker' \subseteq Conn
          /\ poolWarm' = IsWarm(Usable(View(conns, connInfo')), connInfo')
          /\ poolWarm' \in BOOLEAN
          /\ latestUsableConns' \subseteq Conn
          /\ reresolve' \in BOOLEAN
          /\ ignored' \in BOOLEAN
      BY PublishStep DEF IInv, TypeOK
    <2>1. TypeOK'
      <3>1. state \in States
        BY BalancerAssumption
      <3>2. connInfo' \in [DOMAIN connInfo' -> ConnInfo] /\ DOMAIN connInfo' = DOMAIN connInfo
        BY <3>1 DEF IInv, TypeOK, ConnInfo
      <3> QED
        BY <2>a, <3>2 DEF IInv, TypeOK
    <2>2. BooksInv' /\ FreshInv'
      BY DEF IInv, BooksInv, FreshInv, Updating
    <2>3. InfoInv' /\ RunnersInv'
      BY DEF IInv, BooksInv, InfoInv, RunnersInv, Updating
    <2>4. IdInv'
      BY DEF IInv, IdInv
    <2>5. UnresolvedInv'
      BY DEF IInv, UnresolvedInv, Updating
    <2>6. (poolPicker \subseteq conns)' /\ PickerCurrent'
      BY <2>a DEF PickerCurrent
    <2> QED
      BY <2>1, <2>2, <2>3, <2>4, <2>5, <2>6 DEF IInv
  <1>6. ASSUME NEW c \in Conn, WarmedUp(c) PROVE IInv'
    <2> USE <1>6 DEF WarmedUp
    <2>a. ASSUME c \in DOMAIN connInfo
          PROVE  /\ poolPicker' = Usable(View(conns, connInfo'))
                 /\ poolPicker' \subseteq conns
                 /\ poolPicker' \subseteq Conn
                 /\ poolWarm' = IsWarm(Usable(View(conns, connInfo')), connInfo')
                 /\ poolWarm' \in BOOLEAN
                 /\ latestUsableConns' \subseteq Conn
                 /\ reresolve' \in BOOLEAN
                 /\ ignored' \in BOOLEAN
      BY <2>a, PublishStep DEF IInv, TypeOK
    <2>1. TypeOK'
      <3>1. CASE c \in DOMAIN connInfo
        <4>1. connInfo' \in [DOMAIN connInfo' -> ConnInfo] /\ DOMAIN connInfo' = DOMAIN connInfo
          <5>1. connInfo' = [connInfo EXCEPT ![c].warm = TRUE]
            BY <3>1
          <5>2. connInfo \in [DOMAIN connInfo -> ConnInfo]
            BY DEF IInv, TypeOK
          <5>3. [connInfo[c] EXCEPT !.warm = TRUE] \in ConnInfo
            BY <3>1, <5>2 DEF ConnInfo
          <5> QED
            BY <5>1, <5>2, <5>3
        <4> QED
          BY <2>a, <3>1, <4>1 DEF IInv, TypeOK
      <3>2. CASE c \notin DOMAIN connInfo
        BY <3>2 DEF IInv, TypeOK
      <3> QED
        BY <3>1, <3>2
    <2>2. BooksInv' /\ FreshInv'
      BY DEF IInv, BooksInv, FreshInv, Updating
    <2>3. InfoInv' /\ RunnersInv'
      BY DEF IInv, BooksInv, InfoInv, RunnersInv, Updating
    <2>4. IdInv'
      BY DEF IInv, IdInv
    <2>5. UnresolvedInv'
      BY DEF IInv, UnresolvedInv, Updating
    <2>6. (poolPicker \subseteq conns)' /\ PickerCurrent'
      <3>1. CASE c \in DOMAIN connInfo
        BY <2>a, <3>1 DEF PickerCurrent
      <3>2. CASE c \notin DOMAIN connInfo
        BY <3>2 DEF IInv, PickerCurrent
      <3> QED
        BY <3>1, <3>2
    <2> QED
      BY <2>1, <2>2, <2>3, <2>4, <2>5, <2>6 DEF IInv
  <1>7. ASSUME NEW c \in Conn, TimerFires(c) PROVE IInv'
    <2> USE <1>7 DEF TimerFires
    <2>1. TypeOK'
      <3>1. recycles' \in 0..MaxRecycles
        BY BalancerAssumption DEF IInv, TypeOK
      <3> QED
        BY <3>1 DEF IInv, TypeOK
    <2>2. BooksInv' /\ FreshInv'
      BY DEF IInv, BooksInv, FreshInv, Updating
    <2>3. InfoInv' /\ RunnersInv'
      BY DEF IInv, BooksInv, InfoInv, RunnersInv, Updating
    <2>4. IdInv'
      BY DEF IInv, IdInv
    <2>5. UnresolvedInv'
      BY DEF IInv, UnresolvedInv, Updating
    <2>6. (poolPicker \subseteq conns)' /\ PickerCurrent'
      BY DEF IInv, PickerCurrent
    <2> QED
      BY <2>1, <2>2, <2>3, <2>4, <2>5, <2>6 DEF IInv
  <1>8. ASSUME NEW c \in Conn, Recycle(c) PROVE IInv'
    <2> USE <1>8 DEF Recycle
    <2>1. TypeOK'
      BY DEF IInv, TypeOK
    <2>2. BooksInv' /\ FreshInv'
      BY DEF IInv, BooksInv, FreshInv, Updating
    <2>3. InfoInv' /\ RunnersInv'
      BY DEF IInv, BooksInv, InfoInv, RunnersInv, Updating
    <2>4. IdInv'
      BY DEF IInv, IdInv
    <2>5. UnresolvedInv'
      BY DEF IInv, UnresolvedInv, Updating
    <2>6. (poolPicker \subseteq conns)' /\ PickerCurrent'
      BY DEF IInv, PickerCurrent
    <2> QED
      BY <2>1, <2>2, <2>3, <2>4, <2>5, <2>6 DEF IInv
  <1>9. CASE SelectDone
    <2> USE <1>9 DEF SelectDone
    <2>1. TypeOK'
      BY DEF IInv, TypeOK
    <2>2. BooksInv' /\ FreshInv'
      BY DEF IInv, BooksInv, FreshInv, Updating
    <2>3. InfoInv' /\ RunnersInv'
      BY DEF IInv, BooksInv, InfoInv, RunnersInv, Updating
    <2>4. IdInv'
      BY DEF IInv, IdInv
    <2>5. UnresolvedInv'
      BY DEF IInv, UnresolvedInv, Updating
    <2>6. (poolPicker \subseteq conns)' /\ PickerCurrent'
      BY DEF IInv, PickerCurrent
    <2> QED
      BY <2>1, <2>2, <2>3, <2>4, <2>5, <2>6 DEF IInv
  <1>10. CASE SelectRecycle
    <2> USE <1>10 DEF SelectRecycle
    <2>1. TypeOK'
      BY DEF IInv, TypeOK
    <2>2. BooksInv' /\ FreshInv'
      BY DEF IInv, BooksInv, FreshInv, Updating
    <2>3. InfoInv' /\ RunnersInv'
      BY DEF IInv, BooksInv, InfoInv, RunnersInv, Updating
    <2>4. IdInv'
      BY DEF IInv, IdInv
    <2>5. UnresolvedInv'
      BY DEF IInv, UnresolvedInv, Updating
    <2>6. (poolPicker \subseteq conns)' /\ PickerCurrent'
      BY DEF IInv, PickerCurrent
    <2> QED
      BY <2>1, <2>2, <2>3, <2>4, <2>5, <2>6 DEF IInv
  <1>11. CASE SelectUpdate
    <2> USE <1>11 DEF SelectUpdate
    <2>1. TypeOK'
      BY DEF IInv, TypeOK
    <2>2. BooksInv' /\ FreshInv'
      BY DEF IInv, BooksInv, FreshInv, Updating
    <2>3. InfoInv' /\ RunnersInv'
      BY DEF IInv, BooksInv, InfoInv, RunnersInv, Updating
    <2>4. IdInv'
      BY DEF IInv, IdInv
    <2>5. UnresolvedInv'
      BY DEF IInv, UnresolvedInv, Updating
    <2>6. (poolPicker \subseteq conns)' /\ PickerCurrent'
      BY DEF IInv, PickerCurrent
    <2> QED
      BY <2>1, <2>2, <2>3, <2>4, <2>5, <2>6 DEF IInv
  <1>12. CASE LoadAddrs
    <2> USE <1>12 DEF LoadAddrs
    <2>a. Unresolved # NoAddresses
      BY ResolvedIsNotUnresolved, NoAddressesType
    <2>b. ASSUME NEW want \in Addresses
          PROVE  Missing(want) \in [HostPorts -> Nat] /\ Remaining(want) \subseteq connsByAddr
      <3>1. ASSUME NEW h \in HostPorts
            PROVE  Cardinality(ConnsAt(h)) \in Nat
        BY ManagedFinite DEF ConnsAt
      <3>2. ASSUME NEW h \in HostPorts
            PROVE  want[h] \in Nat
        BY BalancerAssumption DEF Addresses
      <3> QED
        BY <3>1, <3>2 DEF Missing, Remaining
    <2>1. TypeOK'
      <3>1. CASE latestAddrs = Unresolved
        <4>1. poolPicker' \subseteq Conn /\ poolWarm' \in BOOLEAN
              /\ latestUsableConns' \subseteq Conn /\ reresolve' \in BOOLEAN /\ ignored' \in BOOLEAN
          BY <2>a, <3>1 DEF IInv, TypeOK, SetErrorPicker
        <4> QED
          BY <2>a, <3>1, <4>1 DEF IInv, TypeOK
      <3>2. CASE latestAddrs = NoAddresses
        BY <2>a, <3>2 DEF IInv, TypeOK
      <3>3. CASE latestAddrs \notin { Unresolved, NoAddresses }
        <4>1. latestAddrs \in Addresses
          BY <3>3 DEF IInv, TypeOK
        <4>2. /\ newAddrs' \in [HostPorts -> Nat]
              /\ connsByAddr' \subseteq Conn
              /\ removeConns' \subseteq Conn
              /\ applied' \in Addresses
          BY <2>b, <3>3, <4>1 DEF IInv, TypeOK
        <4> QED
          BY <3>3, <4>2 DEF IInv, TypeOK
      <3> QED
        BY <3>1, <3>2, <3>3
    <2>2. BooksInv' /\ FreshInv'
      <3>1. CASE latestAddrs = Unresolved
        BY <2>a, <3>1 DEF IInv, BooksInv, FreshInv, Updating
      <3>2. CASE latestAddrs = NoAddresses
        BY <2>a, <3>2 DEF IInv, BooksInv, FreshInv, Updating
      <3>3. CASE latestAddrs \notin { Unresolved, NoAddresses }
        <4>1. connsByAddr' \subseteq connsByAddr
          BY <2>b, <3>3 DEF IInv, TypeOK
        <4> QED
          BY <3>3, <4>1 DEF IInv, BooksInv, FreshInv, Updating
      <3> QED
        BY <3>1, <3>2, <3>3
    <2>3. InfoInv' /\ RunnersInv'
      BY DEF IInv, BooksInv, InfoInv, RunnersInv, Updating
    <2>4. IdInv'
      BY DEF IInv, IdInv
    <2>5. UnresolvedInv'
      BY DEF IInv, UnresolvedInv, Updating
    <2>6. (poolPicker \subseteq conns)' /\ PickerCurrent'
      <3>1. CASE latestAddrs = Unresolved
        <4>1. conns = {} /\ Usable(View(conns, connInfo)) = {}
          BY <3>1, Published DEF IInv, UnresolvedInv
        <4>2. poolPicker' = {} /\ poolWarm' = FALSE
          BY <2>a, <3>1, <4>1 DEF IInv, PickerCurrent, SetErrorPicker, IsWarm
        <4> QED
          BY <4>1, <4>2 DEF PickerCurrent, IsWarm
      <3>2. CASE latestAddrs = NoAddresses
        BY <2>a, <3>2 DEF IInv, PickerCurrent
      <3>3. CASE latestAddrs \notin { Unresolved, NoAddresses }
        BY <3>3 DEF IInv, PickerCurrent
      <3> QED
        BY <3>1, <3>2, <3>3
    <2> QED
      BY <2>1, <2>2, <2>3, <2>4, <2>5, <2>6 DEF IInv
  <1>13. CASE RecycleConns
    <2> USE <1>13 DEF RecycleConns
    <2>1. TypeOK'
      <3>1. CASE connsToRecycle \cap connsByAddr = {}
        BY <3>1 DEF IInv, TypeOK
      <3>2. CASE connsToRecycle \cap connsByAddr # {}
        <4>1. ASSUME NEW h \in HostPorts
              PROVE  Cardinality({ c \in connsToRecycle \cap connsByAddr : HostPort(c) = h }) \in Nat
          BY ManagedFinite
        <4>2. newAddrs' \in [HostPorts -> Nat]
          BY <3>2, <4>1
        <4>3. removeConns' \subseteq Conn /\ connsByAddr' \subseteq Conn /\ addConns' \subseteq Conn
          BY <3>2 DEF IInv, TypeOK
        <4> QED
          BY <3>2, <4>2, <4>3 DEF IInv, TypeOK
      <3> QED
        BY <3>1, <3>2
    <2>2. BooksInv' /\ FreshInv'
      BY DEF IInv, BooksInv, FreshInv, Updating
    <2>3. InfoInv' /\ RunnersInv'
      BY DEF IInv, BooksInv, InfoInv, RunnersInv, Updating
    <2>4. IdInv'
      BY DEF IInv, IdInv
    <2>5. UnresolvedInv'
      <3>1. CASE connsToRecycle \cap connsByAddr = {}
        BY <3>1 DEF IInv, UnresolvedInv, Updating
      <3>2. CASE connsToRecycle \cap connsByAddr # {}
        BY <3>2 DEF IInv, BooksInv, UnresolvedInv, Updating
      <3> QED
        BY <3>1, <3>2
    <2>6. (poolPicker \subseteq conns)' /\ PickerCurrent'
      BY DEF IInv, PickerCurrent
    <2> QED
      BY <2>1, <2>2, <2>3, <2>4, <2>5, <2>6 DEF IInv
  <1>14. ASSUME NEW c \in Conn, NewConn(c) PROVE IInv'
    <2> USE <1>14 DEF NewConn
    <2>a. c \notin created
      BY FS_CardinalityType DEF IInv, IdInv
    <2>b. IsFiniteSet(created') /\ Cardinality(created') = Cardinality(created) + 1
      BY <2>a, FS_AddElement DEF IInv, IdInv
    <2>1. TypeOK'
      <3>1. HostPort(c) \in HostPorts
        BY DEF Conn, HostPort
      <3>2. newAddrs' \in [HostPorts -> Nat]
        BY <3>1 DEF IInv, TypeOK
      <3> QED
        BY <3>2 DEF IInv, TypeOK
    <2>2. BooksInv' /\ FreshInv'
      <3>1. c \notin poolConns
        BY <2>a DEF IInv, IdInv
      <3> QED
        BY <3>1 DEF IInv, BooksInv, FreshInv, Updating
    <2>3. InfoInv' /\ RunnersInv'
      BY DEF IInv, BooksInv, InfoInv, RunnersInv, Updating
    <2>4. IdInv'
      <3>1. Cardinality(created) \in Nat
        BY FS_CardinalityType DEF IInv, IdInv
      <3>2. ASSUME NEW d \in created'
            PROVE  d[2] <= Cardinality(created')
        <4>1. d[2] \in Nat
          BY DEF IInv, TypeOK, Conn
        <4> QED
          BY <2>b, <3>1, <4>1 DEF IInv, IdInv
      <3> QED
        BY <2>b, <3>2 DEF IInv, IdInv
    <2>5. UnresolvedInv'
      BY DEF IInv, UnresolvedInv, Updating
    <2>6. (poolPicker \subseteq conns)' /\ PickerCurrent'
      BY DEF IInv, PickerCurrent
    <2> QED
      BY <2>1, <2>2, <2>3, <2>4, <2>5, <2>6 DEF IInv
  <1>15. ASSUME NEW h \in HostPorts, NewConnRefused(h) PROVE IInv'
    <2> USE <1>15 DEF NewConnRefused
    <2>1. TypeOK'
      BY DEF IInv, TypeOK
    <2>2. BooksInv' /\ FreshInv'
      BY DEF IInv, BooksInv, FreshInv, Updating
    <2>3. InfoInv' /\ RunnersInv'
      BY DEF IInv, BooksInv, InfoInv, RunnersInv, Updating
    <2>4. IdInv'
      BY DEF IInv, IdInv
    <2>5. UnresolvedInv'
      BY DEF IInv, UnresolvedInv, Updating
    <2>6. (poolPicker \subseteq conns)' /\ PickerCurrent'
      BY DEF IInv, PickerCurrent
    <2> QED
      BY <2>1, <2>2, <2>3, <2>4, <2>5, <2>6 DEF IInv
  <1>16. CASE UpdateConns
    <2> USE <1>16 DEF UpdateConns
    <2>a. conns' \in SUBSET Conn
      BY DEF IInv, TypeOK
    <2>b. /\ poolPicker' = Usable(View(conns', connInfo'))
          /\ poolPicker' \subseteq conns'
          /\ poolPicker' \subseteq Conn
          /\ poolWarm' = IsWarm(Usable(View(conns', connInfo')), connInfo')
          /\ poolWarm' \in BOOLEAN
          /\ latestUsableConns' \subseteq Conn
          /\ reresolve' \in BOOLEAN
          /\ ignored' \in BOOLEAN
      BY <2>a, PublishStep DEF IInv
    <2>1. TypeOK'
      <3>1. NewInfo \in ConnInfo
        BY DEF NewInfo, ConnInfo, States
      <3>2. /\ DOMAIN connInfo' = (DOMAIN connInfo \ (conns \cap removeConns)) \cup addConns
            /\ connInfo' \in [DOMAIN connInfo' -> ConnInfo]
        BY <3>1 DEF IInv, TypeOK
      <3>3. DOMAIN connInfo' \subseteq Conn
        BY <3>2 DEF IInv, TypeOK
      <3> HIDE DEF UpdateConns
      <3>4. /\ checkers' \subseteq Conn
            /\ warming' \subseteq Conn
            /\ timers' \subseteq Conn
            /\ checkClosers' \subseteq Conn
            /\ pc' = "removing"
            /\ UNCHANGED << resolverVars, recycleVars, loopVars, firing, recycles,
                            poolVars, ctxDone >>
        BY DEF UpdateConns, IInv, TypeOK
      <3> QED
        BY <2>a, <2>b, <3>2, <3>3, <3>4 DEF IInv, TypeOK
    <2>2. BooksInv' /\ FreshInv'
      BY DEF IInv, BooksInv, FreshInv, Updating
    <2>3. InfoInv' /\ RunnersInv'
      BY DEF IInv, BooksInv, InfoInv, RunnersInv, Updating
    <2>4. IdInv'
      BY DEF IInv, IdInv
    <2>5. UnresolvedInv'
      BY DEF IInv, UnresolvedInv, Updating
    <2>6. (poolPicker \subseteq conns)' /\ PickerCurrent'
      BY <2>b DEF PickerCurrent
    <2> QED
      BY <2>1, <2>2, <2>3, <2>4, <2>5, <2>6 DEF IInv
  <1>17. ASSUME NEW c \in Conn, CloseChecker(c) PROVE IInv'
    <2> USE <1>17 DEF CloseChecker
    <2>1. TypeOK'
      BY DEF IInv, TypeOK
    <2>2. BooksInv' /\ FreshInv'
      BY DEF IInv, BooksInv, FreshInv, Updating
    <2>3. InfoInv' /\ RunnersInv'
      BY DEF IInv, BooksInv, InfoInv, RunnersInv, Updating
    <2>4. IdInv'
      BY DEF IInv, IdInv
    <2>5. UnresolvedInv'
      BY DEF IInv, UnresolvedInv, Updating
    <2>6. (poolPicker \subseteq conns)' /\ PickerCurrent'
      BY DEF IInv, PickerCurrent
    <2> QED
      BY <2>1, <2>2, <2>3, <2>4, <2>5, <2>6 DEF IInv
  <1>18. ASSUME NEW c \in Conn, RemoveConn(c) PROVE IInv'
    <2> USE <1>18 DEF RemoveConn
    <2>1. TypeOK'
      BY DEF IInv, TypeOK
    <2>2. BooksInv' /\ FreshInv'
      BY DEF IInv, BooksInv, FreshInv, Updating
    <2>3. InfoInv' /\ RunnersInv'
      BY DEF IInv, BooksInv, InfoInv, RunnersInv, Updating
    <2>4. IdInv'
      BY DEF IInv, IdInv
    <2>5. UnresolvedInv'
      BY DEF IInv, UnresolvedInv, Updating
    <2>6. (poolPicker \subseteq conns)' /\ PickerCurrent'
      BY DEF IInv, PickerCurrent
    <2> QED
      BY <2>1, <2>2, <2>3, <2>4, <2>5, <2>6 DEF IInv
  <1>19. CASE FinishUpdate
    <2> USE <1>19 DEF FinishUpdate
    <2>1. TypeOK'
      BY DEF IInv, TypeOK
    <2>2. BooksInv' /\ FreshInv'
      BY DEF IInv, BooksInv, FreshInv, Updating
    <2>3. InfoInv' /\ RunnersInv'
      BY DEF IInv, BooksInv, InfoInv, RunnersInv, Updating
    <2>4. IdInv'
      BY DEF IInv, IdInv
    <2>5. UnresolvedInv'
      BY DEF IInv, UnresolvedInv, Updating
    <2>6. (poolPicker \subseteq conns)' /\ PickerCurrent'
      BY DEF IInv, PickerCurrent
    <2> QED
      BY <2>1, <2>2, <2>3, <2>4, <2>5, <2>6 DEF IInv
  <1>20. CASE Shutdown
    <2> USE <1>20 DEF Shutdown
    <2>1. TypeOK'
      BY DEF IInv, TypeOK
    <2>2. BooksInv' /\ FreshInv'
      BY DEF IInv, BooksInv, FreshInv, Updating
    <2>3. InfoInv' /\ RunnersInv'
      BY DEF IInv, BooksInv, InfoInv, RunnersInv, Updating
    <2>4. IdInv'
      BY DEF IInv, IdInv
    <2>5. UnresolvedInv'
      BY DEF IInv, UnresolvedInv, Updating
    <2>6. (poolPicker \subseteq conns)' /\ PickerCurrent'
      BY DEF IInv, PickerCurrent
    <2> QED
      BY <2>1, <2>2, <2>3, <2>4, <2>5, <2>6 DEF IInv
  <1>21. CASE FinishClose
    <2> USE <1>21 DEF FinishClose
    <2>1. TypeOK'
      BY DEF IInv, TypeOK
    <2>2. BooksInv' /\ FreshInv'
      BY DEF IInv, BooksInv, FreshInv, Updating
    <2>3. InfoInv' /\ RunnersInv'
      BY DEF IInv, BooksInv, InfoInv, RunnersInv, Updating
    <2>4. IdInv'
      BY DEF IInv, IdInv
    <2>5. UnresolvedInv'
      BY DEF IInv, UnresolvedInv, Updating
    <2>6. (poolPicker \subseteq conns)' /\ PickerCurrent'
      BY DEF IInv, PickerCurrent
    <2> QED
      BY <2>1, <2>2, <2>3, <2>4, <2>5, <2>6 DEF IInv
  <1>22. CASE ClosePool
    <2> USE <1>22 DEF ClosePool
    <2>1. TypeOK'
      BY DEF IInv, TypeOK
    <2>2. BooksInv' /\ FreshInv'
      BY DEF IInv, BooksInv, FreshInv, Updating
    <2>3. InfoInv' /\ RunnersInv'
      BY DEF IInv, BooksInv, InfoInv, RunnersInv, Updating
    <2>4. IdInv'
      BY DEF IInv, IdInv
    <2>5. UnresolvedInv'
      BY DEF IInv, UnresolvedInv, Updating
    <2>6. (poolPicker \subseteq conns)' /\ PickerCurrent'
      BY DEF IInv, PickerCurrent
    <2> QED
      BY <2>1, <2>2, <2>3, <2>4, <2>5, <2>6 DEF IInv
  <1>23. CASE Cancel
    <2> USE <1>23 DEF Cancel
    <2>1. TypeOK'
      BY DEF IInv, TypeOK
    <2>2. BooksInv' /\ FreshInv'
      BY DEF IInv, BooksInv, FreshInv, Updating
    <2>3. InfoInv' /\ RunnersInv'
      BY DEF IInv, BooksInv, InfoInv, RunnersInv, Updating
    <2>4. IdInv'
      BY DEF IInv, IdInv
    <2>5. UnresolvedInv'
      BY DEF IInv, UnresolvedInv, Updating
    <2>6. (poolPicker \subseteq conns)' /\ PickerCurrent'
      BY DEF IInv, PickerCurrent
    <2> QED
      BY <2>1, <2>2, <2>3, <2>4, <2>5, <2>6 DEF IInv
  <1>24. CASE UNCHANGED vars
    BY <1>24 DEF vars, IInv, TypeOK, BooksInv, FreshInv, InfoInv, RunnersInv, IdInv,
                  UnresolvedInv, PickerCurrent, Updating
  <1> QED
    BY <1>1, <1>2, <1>3, <1>4, <1>5, <1>6, <1>7, <1>8, <1>9, <1>10, <1>11, <1>12,
       <1>13, <1>14, <1>15, <1>16, <1>17, <1>18, <1>19, <1>20, <1>21, <1>22, <1>23, <1>24
       DEF Next, ResolverNext, ConnNext, Work, Select

LEMMA IInvAlways == Spec => []IInv
  BY InitIInv, NextIInv, PTL DEF Spec

-----------------------------------------------------------------------------
(* What follows from it.                                                   *)

\* Every variable keeps its type.
THEOREM TypeCorrect == Spec => []TypeOK
  <1>1. IInv => TypeOK
    BY DEF IInv
  <1> QED
    BY <1>1, IInvAlways, PTL

\* The picker the pool holds is that of the connections' current states, until
\* the balancer shuts down.
THEOREM PickerAlwaysCurrent == Spec => []PickerCurrent
  <1>1. IInv => PickerCurrent
    BY DEF IInv
  <1> QED
    BY <1>1, IInvAlways, PTL

\* The published picker only chooses connections the pool still has.
THEOREM PickerStaysWithinPool == Spec => []PickerWithinPool
  <1>1. IInv => PickerWithinPool
    BY DEF IInv, BooksInv, Updating, TypeOK, PickerWithinPool
  <1> QED
    BY <1>1, IInvAlways, PTL

\* Between two updates the four records of the connections agree.
THEOREM BooksAlwaysAgree == Spec => []BooksAgree
  <1>1. IInv => BooksAgree
    BY DEF IInv, BooksInv, InfoInv, Updating, BooksAgree
  <1> QED
    BY <1>1, IInvAlways, PTL

\* A closed balancer leaves no checker running and no timer armed.
THEOREM NothingRunsOn == Spec => []StoppedWhenClosed
  <1>1. IInv => StoppedWhenClosed
    BY DEF IInv, InfoInv, RunnersInv, StoppedWhenClosed
  <1> QED
    BY <1>1, IInvAlways, PTL

\* Every step of the balancer is one that its pool's contract allows, or one
\* that the pool does not see.
LEMMA ContractStep == IInv /\ [Next]_vars => [Contract!ContractNext]_(Contract!contractVars)
  <1> SUFFICES ASSUME IInv, [Next]_vars
               PROVE  [Contract!ContractNext]_(Contract!contractVars)
    OBVIOUS
  <1> USE DEF Contract!contractVars, Contract!ContractNext, poolVars, pickerVars
  <1>1. IInv'
    BY NextIInv
  <1>2. poolPicker \subseteq poolConns
    BY DEF IInv, BooksInv, Updating, TypeOK
  <1>3. poolPicker' \subseteq poolConns'
    BY <1>1 DEF IInv, BooksInv, Updating, TypeOK
  <1>4. ASSUME NEW c \in Conn, NewConn(c)
        PROVE  Contract!Create(c)
    <2>1. c \notin created
      BY <1>4, FS_CardinalityType DEF NewConn, IInv, IdInv
    <2> QED
      BY <1>4, <2>1 DEF NewConn, Contract!Create
  <1>5. ASSUME NEW c \in Conn, RemoveConn(c)
        PROVE  Contract!Remove(c)
    BY <1>5 DEF RemoveConn, Contract!Remove, IInv, BooksInv, Updating
  <1>6. ASSUME UNCHANGED << created, poolConns >>
        PROVE  \E usable \in SUBSET poolConns : Contract!Publish(usable)
    BY <1>3, <1>6 DEF Contract!Publish
  <1>7. \/ \E c \in Conn : NewConn(c) \/ RemoveConn(c)
        \/ UNCHANGED << created, poolConns >>
    BY DEF Next, ResolverNext, ConnNext, Select, Work, vars, StartResolve, OnResolve,
           OnResolveError, SignalUpdate, UpdateHealthState, WarmedUp, TimerFires,
           Recycle, SelectDone, SelectRecycle, SelectUpdate, RecycleConns, LoadAddrs,
           CloseChecker, NewConnRefused, UpdateConns, FinishUpdate, Shutdown,
           FinishClose, ClosePool, Cancel
  <1> QED
    BY <1>4, <1>5, <1>6, <1>7

\* To its pool the balancer behaves as BalancerContract says: it implements it.
THEOREM MeetsContract == Spec => ImplementsContract
  <1>1. Init => Contract!ContractInit
    BY DEF Init, Contract!ContractInit
  <1> QED
    BY <1>1, ContractStep, IInvAlways, PTL
       DEF Spec, ImplementsContract, Contract!ContractSpec

-----------------------------------------------------------------------------
(* The request for new addresses.                                          *)

\* Whatever published a picker for the current states has also asked, and
\* only the resolver takes the request away: then a result is under way that
\* leads to another picker, unless it is ignored.
AskInv ==
    \/ latestAddrs = Unresolved
    \/ ignored
    \/ resolver # "idle"
    \/ resolverUpdates
    \/ pc \in { "loading", "adding", "shutdown", "stopping", "closed" }
    \/ NeedsReresolve(View(conns, connInfo)) => reresolve

LEMMA NextAskInv == AskInv /\ [Next]_vars => AskInv'
  <1> SUFFICES ASSUME AskInv, [Next]_vars PROVE AskInv'
    OBVIOUS
  <1> USE DEF AskInv, resolverVars, viewVars, pickerVars, recycleVars, loopVars,
              connVars, poolVars
  <1>1. CASE ResolverNext
    <2>1. CASE StartResolve \/ OnResolveError
      BY <2>1 DEF StartResolve, OnResolveError
    <2>2. ASSUME NEW addresses \in Addresses, OnResolve(addresses) PROVE AskInv'
      BY <2>2 DEF OnResolve
    <2>3. CASE SignalUpdate
      BY <2>3 DEF SignalUpdate
    <2> QED
      BY <1>1, <2>1, <2>2, <2>3 DEF ResolverNext
  <1>2. ASSUME NEW c \in Conn, NEW state \in Reports, UpdateHealthState(c, state) PROVE AskInv'
    <2>1. reresolve' = (reresolve \/ NeedsReresolve(View(conns, connInfo'))) /\ conns' = conns
      BY <1>2 DEF UpdateHealthState, NewPicker
    <2> QED
      BY <2>1
  <1>3. ASSUME NEW c \in Conn, WarmedUp(c) PROVE AskInv'
    <2>1. CASE c \in DOMAIN connInfo
      <3>1. reresolve' = (reresolve \/ NeedsReresolve(View(conns, connInfo'))) /\ conns' = conns
        BY <1>3, <2>1 DEF WarmedUp, NewPicker
      <3> QED
        BY <3>1
    <2>2. CASE c \notin DOMAIN connInfo
      BY <1>3, <2>2 DEF WarmedUp
    <2> QED
      BY <2>1, <2>2
  <1>4. ASSUME NEW c \in Conn, TimerFires(c) \/ Recycle(c) PROVE AskInv'
    BY <1>4 DEF TimerFires, Recycle
  <1>5. CASE Select
    BY <1>5 DEF Select, SelectDone, SelectRecycle, SelectUpdate
  <1>6. CASE RecycleConns
    BY <1>6 DEF RecycleConns
  <1>7. CASE LoadAddrs
    BY <1>7 DEF LoadAddrs
  <1>8. ASSUME NEW c \in Conn, NewConn(c) \/ CloseChecker(c) \/ RemoveConn(c) PROVE AskInv'
    BY <1>8 DEF NewConn, CloseChecker, RemoveConn
  <1>9. ASSUME NEW h \in HostPorts, NewConnRefused(h) PROVE AskInv'
    BY <1>9 DEF NewConnRefused
  <1>10. CASE UpdateConns
    <2>1. reresolve' = (reresolve \/ NeedsReresolve(View(conns', connInfo')))
      BY <1>10 DEF UpdateConns, NewPicker
    <2> QED
      BY <2>1
  <1>11. CASE FinishUpdate \/ Shutdown \/ FinishClose
    BY <1>11 DEF FinishUpdate, Shutdown, FinishClose
  <1>12. CASE ClosePool \/ Cancel \/ UNCHANGED vars
    BY <1>12 DEF ClosePool, Cancel, vars
  <1> QED
    BY <1>1, <1>2, <1>3, <1>4, <1>5, <1>6, <1>7, <1>8, <1>9, <1>10, <1>11, <1>12
       DEF Next, ConnNext, Work

\* While the backends stay unhealthy a balancer at rest has a request for new
\* addresses pending, unless a result without addresses was ignored since the
\* last picker: no other result, and no error after one, uses the request up.
THEOREM AsksAgainWhileUnhealthy == Spec => []UnhealthyAsksAgain
  <1>1. Init => AskInv
    BY DEF Init, AskInv
  <1>2. AskInv => UnhealthyAsksAgain
    BY DEF AskInv, UnhealthyAsksAgain
  <1> QED
    BY <1>1, <1>2, NextAskInv, PTL DEF Spec

-----------------------------------------------------------------------------
(* The number of connections of each address.                              *)

At(S, h) == { c \in S : HostPort(c) = h }

\* How many connections of S, all of one address, are older than c.
Rank(S, c) == Cardinality({ d \in S : Older(d, c) })

\* Keeping those of rank less than k keeps k connections, or all of them.
LEMMA OldestKept ==
    ASSUME NEW S \in SUBSET Conn, IsFiniteSet(S), NEW h, \A c \in S : HostPort(c) = h,
           NEW k \in Nat
    PROVE  Cardinality({ c \in S : Rank(S, c) < k })
               = IF k < Cardinality(S) THEN k ELSE Cardinality(S)
  <1> DEFINE n == Cardinality(S)
             rank == [c \in S |-> Rank(S, c)]
             kept == { c \in S : Rank(S, c) < k }
             keptRank == [c \in kept |-> rank[c]]
  <1>1. n \in Nat
    BY FS_CardinalityType
  <1>2. ASSUME NEW c \in S PROVE Rank(S, c) \in 0..n-1
    <2> DEFINE older == { d \in S : Older(d, c) }
    <2>1. c[2] \in Nat
      BY DEF Conn
    <2>2. older \subseteq S /\ c \notin older
      BY <2>1 DEF Older
    <2>3. IsFiniteSet(older) /\ Cardinality(older) \in Nat /\ Cardinality(older) <= n
      BY <2>2, FS_Subset, FS_CardinalityType
    <2>4. Cardinality(older) # n
      BY <2>2, FS_Subset
    <2> QED
      BY <1>1, <2>3, <2>4 DEF Rank
  <1>3. ASSUME NEW c \in S, NEW d \in S, c # d PROVE Rank(S, c) # Rank(S, d)
    <2>1. ASSUME NEW a \in S, NEW b \in S, a[2] < b[2] PROVE Rank(S, a) # Rank(S, b)
      <3> DEFINE olderA == { e \in S : Older(e, a) }
                 olderB == { e \in S : Older(e, b) }
      <3>1. \A e \in S : e[2] \in Nat
        BY DEF Conn
      <3>2. olderA \subseteq olderB /\ a \in olderB /\ a \notin olderA
        BY <2>1, <3>1 DEF Older
      <3>3. IsFiniteSet(olderB)
        BY FS_Subset
      <3>4. Cardinality(olderA) # Cardinality(olderB)
        BY <3>2, <3>3, FS_Subset
      <3> QED
        BY <3>4 DEF Rank
    <2>2. c[1] = d[1]
      BY DEF HostPort
    <2>3. c[2] \in Nat /\ d[2] \in Nat /\ c[2] # d[2]
      BY <1>3, <2>2 DEF Conn
    <2>4. c[2] < d[2] \/ d[2] < c[2]
      BY <2>3
    <2> QED
      BY <2>1, <2>4
  <1>4. rank \in Injection(S, 0..n-1)
    BY <1>2, <1>3 DEF Injection, IsInjective
  <1>5. rank \in Surjection(S, 0..n-1)
    BY <1>1, <1>4, FS_Interval, FS_Injection
  <1>6. CASE k < n
    <2>1. keptRank \in [kept -> 0..k-1]
      BY <1>1, <1>2
    <2>2. keptRank \in Injection(kept, 0..k-1)
      BY <1>3, <2>1 DEF Injection, IsInjective
    <2>3. ASSUME NEW i \in 0..k-1 PROVE \E c \in kept : keptRank[c] = i
      <3>1. i \in 0..n-1
        BY <1>1, <1>6
      <3>2. PICK c \in S : rank[c] = i
        BY <1>5, <3>1 DEF Surjection
      <3> QED
        BY <3>2
    <2>4. keptRank \in Surjection(kept, 0..k-1)
      BY <2>1, <2>3 DEF Surjection
    <2>5. Cardinality(kept) = Cardinality(0..k-1)
      BY <2>2, <2>4, FS_Interval, FS_Injection
    <2>6. Cardinality(0..k-1) = k
      BY FS_Interval
    <2> QED
      BY <1>6, <2>5, <2>6
  <1>7. CASE ~(k < n)
    <2>1. kept = S
      BY <1>1, <1>2, <1>7
    <2> QED
      BY <1>7, <2>1
  <1> QED
    BY <1>6, <1>7

\* The books of one address: the connections it has, those it is about to get
\* and those just created make up what the last result asks for.
CountInv ==
    /\ addConns \cap connsByAddr = {}
    /\ ~poolClosed => \A h \in HostPorts :
           Cardinality(At(connsByAddr, h)) + Cardinality(At(addConns, h))
             + (IF pc = "adding" THEN newAddrs[h] ELSE 0) = applied[h]

\* The connections in the records are finitely many.
LEMMA BooksFinite ==
    ASSUME IInv
    PROVE  /\ IsFiniteSet(connsByAddr) /\ IsFiniteSet(addConns)
           /\ \A h : /\ IsFiniteSet(At(connsByAddr, h)) /\ IsFiniteSet(At(addConns, h))
                     /\ Cardinality(At(connsByAddr, h)) \in Nat
                     /\ Cardinality(At(addConns, h)) \in Nat
  <1>1. connsByAddr \subseteq created /\ addConns \subseteq created /\ IsFiniteSet(created)
    BY DEF IInv, BooksInv, IdInv, Updating
  <1>2. \A S : S \in SUBSET created => IsFiniteSet(S) /\ Cardinality(S) \in Nat
    BY <1>1, FS_Subset, FS_CardinalityType
  <1>3. \A h : At(connsByAddr, h) \in SUBSET created /\ At(addConns, h) \in SUBSET created
    BY <1>1 DEF At
  <1> QED
    BY <1>1, <1>2, <1>3

\* A step that leaves the connections alone keeps the count.
LEMMA CountsUntouched ==
    ASSUME CountInv, UNCHANGED << connsByAddr, addConns, applied >>, poolClosed => poolClosed',
           (pc' = "adding") <=> (pc = "adding"), newAddrs' = newAddrs
    PROVE  CountInv'
  <1>1. \A h : At(connsByAddr, h)' = At(connsByAddr, h) /\ At(addConns, h)' = At(addConns, h)
    BY DEF At
  <1> QED
    BY <1>1 DEF CountInv

\* Disjoint sets add up.
LEMMA DisjointUnion ==
    ASSUME NEW S, NEW T, IsFiniteSet(S), IsFiniteSet(T), S \cap T = {}
    PROVE  Cardinality(S \cup T) = Cardinality(S) + Cardinality(T)
  <1>1. Cardinality(S \cap T) = 0
    BY FS_EmptySet
  <1>2. Cardinality(S) \in Nat /\ Cardinality(T) \in Nat
    BY FS_CardinalityType
  <1>3. Cardinality(S \cup T) = Cardinality(S) + Cardinality(T) - Cardinality(S \cap T)
    BY FS_Union
  <1> QED
    BY <1>1, <1>2, <1>3

LEMMA LoadCounts == IInv /\ IInv' /\ CountInv /\ LoadAddrs => CountInv'
  <1> SUFFICES ASSUME IInv, IInv', CountInv, LoadAddrs PROVE CountInv'
    OBVIOUS
  <1>1. CASE latestAddrs \in { Unresolved, NoAddresses }
    BY <1>1, CountsUntouched DEF LoadAddrs, loopVars, poolVars
  <1>2. CASE latestAddrs \notin { Unresolved, NoAddresses }
    <2>1. /\ connsByAddr' = Remaining(latestAddrs) /\ newAddrs' = Missing(latestAddrs)
          /\ addConns' = {} /\ applied' = latestAddrs /\ pc' = "adding"
      BY <1>2 DEF LoadAddrs
    <2>2. latestAddrs \in [HostPorts -> Nat]
      BY <1>2 DEF IInv, TypeOK, Addresses
    <2>3. ASSUME NEW h \in HostPorts
          PROVE  Cardinality(At(connsByAddr', h)) + Cardinality(At(addConns', h)) + newAddrs'[h]
                   = applied'[h]
      <3> DEFINE S == ConnsAt(h)
                 want == latestAddrs[h]
      <3>1. S \in SUBSET Conn /\ IsFiniteSet(S) /\ Cardinality(S) \in Nat
        BY BooksFinite DEF IInv, TypeOK, ConnsAt, At
      <3>2. want \in Nat
        BY <2>2
      <3>3. \A c \in S : HostPort(c) = h
        BY DEF ConnsAt
      <3>4. At(connsByAddr', h) = { c \in S : Rank(S, c) < want }
        BY <2>1 DEF At, Remaining, ConnsAt, Rank
      <3>5. Cardinality(At(connsByAddr', h)) = IF want < Cardinality(S) THEN want ELSE Cardinality(S)
        BY <3>1, <3>2, <3>3, <3>4, OldestKept
      <3>6. newAddrs'[h] = IF want > Cardinality(S) THEN want - Cardinality(S) ELSE 0
        BY <2>1 DEF Missing
      <3>7. At(addConns', h) = {}
        BY <2>1 DEF At
      <3>8. Cardinality(At(addConns', h)) = 0
        BY <3>7, FS_EmptySet
      <3> QED
        BY <2>1, <3>1, <3>2, <3>5, <3>6, <3>8
    <2> QED
      BY <2>1, <2>3 DEF CountInv, At
  <1> QED
    BY <1>1, <1>2

LEMMA RecycleCounts == IInv /\ IInv' /\ CountInv /\ RecycleConns => CountInv'
  <1> SUFFICES ASSUME IInv, IInv', CountInv, RecycleConns PROVE CountInv'
    OBVIOUS
  <1> DEFINE expired == connsToRecycle \cap connsByAddr
  <1>1. CASE expired = {}
    BY <1>1, CountsUntouched DEF RecycleConns, loopVars, poolVars
  <1>2. CASE expired # {}
    <2>1. /\ connsByAddr' = connsByAddr \ expired /\ addConns' = {} /\ applied' = applied
          /\ newAddrs' = [h \in HostPorts |-> Cardinality(At(expired, h))]
          /\ pc = "recycling" /\ pc' = "adding" /\ poolClosed' = poolClosed
      BY <1>2 DEF RecycleConns, At, poolVars
    <2>2. ASSUME NEW h \in HostPorts, ~poolClosed
          PROVE  Cardinality(At(connsByAddr', h)) + Cardinality(At(addConns', h)) + newAddrs'[h]
                   = applied'[h]
      <3>1. addConns = {}
        BY <2>1 DEF IInv, BooksInv, Updating
      <3>2. At(addConns, h) = {} /\ At(addConns', h) = {}
        BY <2>1, <3>1 DEF At
      <3>3. Cardinality(At(addConns, h)) = 0 /\ Cardinality(At(addConns', h)) = 0
        BY <3>2, FS_EmptySet
      <3>4. Cardinality(At(connsByAddr, h)) = applied[h]
        BY <2>1, <2>2, <3>3, BooksFinite DEF CountInv
      <3>5. /\ IsFiniteSet(At(expired, h)) /\ IsFiniteSet(At(connsByAddr', h))
            /\ Cardinality(At(expired, h)) \in Nat /\ Cardinality(At(connsByAddr', h)) \in Nat
        <4>1. /\ At(expired, h) \in SUBSET At(connsByAddr, h)
              /\ At(connsByAddr', h) \in SUBSET At(connsByAddr, h)
          BY <2>1 DEF At
        <4> QED
          BY <4>1, BooksFinite, FS_Subset, FS_CardinalityType
      <3>6. /\ At(connsByAddr, h) = At(connsByAddr', h) \cup At(expired, h)
            /\ At(connsByAddr', h) \cap At(expired, h) = {}
        BY <2>1 DEF At
      <3>7. Cardinality(At(connsByAddr, h))
              = Cardinality(At(connsByAddr', h)) + Cardinality(At(expired, h))
        BY <3>5, <3>6, DisjointUnion
      <3> QED
        BY <2>1, <3>3, <3>4, <3>5, <3>7
    <2> QED
      BY <2>1, <2>2 DEF CountInv
  <1> QED
    BY <1>1, <1>2

LEMMA NewConnCounts ==
    ASSUME IInv, CountInv, NEW c \in Conn, NewConn(c)
    PROVE  CountInv'
  <1>1. c \notin created
    BY FS_CardinalityType DEF NewConn, IInv, IdInv
  <1>2. c \notin addConns /\ c \notin connsByAddr
    BY <1>1 DEF NewConn, IInv, BooksInv, IdInv, Updating
  <1>3. /\ connsByAddr' = connsByAddr /\ addConns' = addConns \cup {c} /\ applied' = applied
        /\ newAddrs' = [newAddrs EXCEPT ![HostPort(c)] = @ - 1]
        /\ newAddrs \in [HostPorts -> Nat] /\ pc = "adding" /\ pc' = "adding" /\ ~poolClosed
    BY DEF NewConn, IInv, TypeOK
  <1>4. ASSUME NEW h \in HostPorts
        PROVE  Cardinality(At(connsByAddr', h)) + Cardinality(At(addConns', h)) + newAddrs'[h]
                 = applied'[h]
    <2>1. Cardinality(At(connsByAddr, h)) + Cardinality(At(addConns, h)) + newAddrs[h] = applied[h]
      BY <1>3 DEF CountInv
    <2>2. At(connsByAddr', h) = At(connsByAddr, h)
      BY <1>3
    <2>3. /\ IsFiniteSet(At(addConns, h)) /\ Cardinality(At(addConns, h)) \in Nat
          /\ Cardinality(At(connsByAddr, h)) \in Nat /\ newAddrs[h] \in Nat
      BY <1>3, BooksFinite
    <2>4. CASE HostPort(c) = h
      <3>1. At(addConns', h) = At(addConns, h) \cup {c} /\ c \notin At(addConns, h)
        BY <1>2, <1>3, <2>4 DEF At
      <3>2. Cardinality(At(addConns', h)) = Cardinality(At(addConns, h)) + 1
        BY <2>3, <3>1, FS_AddElement
      <3>3. newAddrs'[h] = newAddrs[h] - 1
        BY <1>3, <2>4
      <3> QED
        BY <1>3, <2>1, <2>2, <2>3, <3>2, <3>3
    <2>5. CASE HostPort(c) # h
      <3>1. At(addConns', h) = At(addConns, h)
        BY <1>3, <2>5 DEF At
      <3>2. newAddrs'[h] = newAddrs[h]
        BY <1>3, <2>5
      <3> QED
        BY <1>3, <2>1, <2>2, <3>1, <3>2
    <2> QED
      BY <2>4, <2>5
  <1> QED
    BY <1>2, <1>3, <1>4 DEF CountInv

LEMMA FinishCounts == IInv /\ CountInv /\ FinishUpdate => CountInv'
  <1> SUFFICES ASSUME IInv, CountInv, FinishUpdate PROVE CountInv'
    OBVIOUS
  <1>1. /\ connsByAddr' = connsByAddr \cup addConns /\ addConns' = {} /\ applied' = applied
        /\ pc = "removing" /\ pc' = "select" /\ poolClosed' = poolClosed
    BY DEF FinishUpdate, poolVars
  <1>2. ASSUME NEW h \in HostPorts, ~poolClosed
        PROVE  Cardinality(At(connsByAddr', h)) + Cardinality(At(addConns', h)) = applied'[h]
    <2>1. Cardinality(At(connsByAddr, h)) + Cardinality(At(addConns, h)) = applied[h]
      BY <1>1, <1>2, BooksFinite DEF CountInv
    <2>2. /\ At(connsByAddr', h) = At(connsByAddr, h) \cup At(addConns, h)
          /\ At(connsByAddr, h) \cap At(addConns, h) = {}
          /\ At(addConns', h) = {}
      BY <1>1 DEF At, CountInv
    <2>3. /\ IsFiniteSet(At(connsByAddr, h)) /\ Cardinality(At(connsByAddr, h)) \in Nat
          /\ IsFiniteSet(At(addConns, h)) /\ Cardinality(At(addConns, h)) \in Nat
      BY BooksFinite
    <2>4. Cardinality(At(connsByAddr', h))
            = Cardinality(At(connsByAddr, h)) + Cardinality(At(addConns, h))
      BY <2>2, <2>3, DisjointUnion
    <2>5. Cardinality(At(addConns', h)) = 0
      BY <2>2, FS_EmptySet
    <2> QED
      BY <1>1, <2>1, <2>3, <2>4, <2>5
  <1>3. ASSUME NEW h \in HostPorts
        PROVE  /\ Cardinality(At(connsByAddr', h)) \in Nat
               /\ Cardinality(At(addConns', h)) \in Nat
    <2>1. /\ At(connsByAddr', h) = At(connsByAddr, h) \cup At(addConns, h)
          /\ At(addConns', h) = {}
      BY <1>1 DEF At
    <2> QED
      BY <2>1, BooksFinite, FS_Union, FS_EmptySet, FS_CardinalityType
  <1> QED
    BY <1>1, <1>2, <1>3 DEF CountInv

LEMMA NextCountInv == IInv /\ IInv' /\ CountInv /\ [Next]_vars => CountInv'
  <1> SUFFICES ASSUME IInv, IInv', CountInv, [Next]_vars PROVE CountInv'
    OBVIOUS
  <1>1. CASE LoadAddrs
    BY <1>1, LoadCounts
  <1>2. CASE RecycleConns
    BY <1>2, RecycleCounts
  <1>3. ASSUME NEW c \in Conn, NewConn(c) PROVE CountInv'
    BY <1>3, NewConnCounts
  <1>4. CASE FinishUpdate
    BY <1>4, FinishCounts
  <1>5. ASSUME NEW h \in HostPorts, NewConnRefused(h) PROVE CountInv'
    BY <1>5 DEF NewConnRefused, CountInv, poolVars
  <1>6. CASE UpdateConns
    <2>1. /\ pc = "adding" /\ pc' = "removing" /\ poolClosed' = poolClosed /\ applied' = applied
          /\ connsByAddr' = connsByAddr /\ addConns' = addConns
          /\ \A h \in HostPorts : newAddrs[h] = 0
      BY <1>6 DEF UpdateConns, NoAddresses, loopVars, poolVars
    <2>2. \A h : At(connsByAddr, h)' = At(connsByAddr, h) /\ At(addConns, h)' = At(addConns, h)
      BY <2>1 DEF At
    <2> QED
      BY <2>1, <2>2, BooksFinite DEF CountInv
  <1>7. ASSUME NEW c \in Conn, CloseChecker(c) \/ RemoveConn(c) PROVE CountInv'
    BY <1>7, CountsUntouched DEF CloseChecker, RemoveConn, loopVars, poolVars
  <1>8. CASE Select \/ Shutdown \/ FinishClose
    BY <1>8, CountsUntouched
       DEF Select, SelectDone, SelectRecycle, SelectUpdate, Shutdown, FinishClose,
           loopVars, poolVars
  <1>9. CASE ResolverNext
    <2>1. UNCHANGED << loopVars, poolVars, pc >>
      BY <1>9 DEF ResolverNext, StartResolve, OnResolve, OnResolveError, SignalUpdate
    <2> QED
      BY <2>1, CountsUntouched DEF loopVars, poolVars
  <1>10. CASE ConnNext
    BY <1>10, CountsUntouched
       DEF ConnNext, UpdateHealthState, WarmedUp, TimerFires, Recycle, loopVars, poolVars
  <1>11. CASE ClosePool \/ Cancel \/ UNCHANGED vars
    BY <1>11, CountsUntouched DEF ClosePool, Cancel, vars, loopVars, poolVars
  <1> QED
    BY <1>1, <1>2, <1>3, <1>4, <1>5, <1>6, <1>7, <1>8, <1>9, <1>10, <1>11 DEF Next, Work

\* Growing, shrinking and recycling, in any order, leave every address with as
\* many connections as the last result names it.
THEOREM CountsAlwaysMatch == Spec => []CountsMatch
  <1>1. Init => CountInv
    <2> SUFFICES ASSUME Init PROVE CountInv
      OBVIOUS
    <2>1. \A h : At(connsByAddr, h) = {} /\ At(addConns, h) = {}
      BY DEF Init, At
    <2>2. \A h : Cardinality(At(connsByAddr, h)) = 0 /\ Cardinality(At(addConns, h)) = 0
      BY <2>1, FS_EmptySet
    <2>3. addConns = {} /\ pc = "select" /\ \A h \in HostPorts : applied[h] = 0
      BY DEF Init, NoAddresses
    <2> QED
      BY <2>2, <2>3 DEF CountInv
  <1>2. IInv /\ CountInv => CountsMatch
    <2> SUFFICES ASSUME IInv, CountInv, pc = "select", ~poolClosed, NEW h \in HostPorts
                 PROVE  Cardinality(ConnsAt(h)) = applied[h]
      BY DEF CountsMatch
    <2>1. addConns = {}
      BY DEF IInv, BooksInv, Updating
    <2>2. At(addConns, h) = {}
      BY <2>1 DEF At
    <2>3. Cardinality(At(addConns, h)) = 0
      BY <2>2, FS_EmptySet
    <2>4. At(connsByAddr, h) = ConnsAt(h)
      BY DEF At, ConnsAt
    <2> QED
      BY <2>3, <2>4, BooksFinite DEF CountInv
  <1> QED
    BY <1>1, <1>2, InitIInv, NextIInv, NextCountInv, PTL DEF Spec

=============================================================================
