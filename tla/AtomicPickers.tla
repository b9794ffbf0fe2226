----------------------------- MODULE AtomicPickers -----------------------------
(***************************************************************************)
(* The pickers that work without a lock: power-of-two                      *)
(* (picker/poweroftwo.go) and round-robin (picker/roundrobin.go).  A new   *)
(* one replaces the old one whenever the usable connections change; a      *)
(* request that fetched the old one before may still pick with it.  When   *)
(* no connection is usable, the pool gets an error picker, but the         *)
(* balancer keeps the old one (latestPicker in balancer.go): to be         *)
(* published again when the same connections become usable again, or to be *)
(* the previous one of the next.  Every atomic operation is an action.     *)
(* The two pickers share no state.                                         *)
(***************************************************************************)
EXTENDS Integers, FiniteSets, SequencesExt

CONSTANTS
    Backends,   \* the connections that may become usable
    Callers,   \* the requests; bounds how many are in flight at once
    Tags,      \* numbers that tell apart the items one connection has had
    NoEntry,   \* not an item
    MaxInt     \* the largest value of an int64, small here

ASSUME AtomicAssumption ==
    /\ IsFiniteSet(Callers)
    /\ IsFiniteSet(Backends)
    /\ NoEntry \notin Backends \X Tags
    /\ NoEntry \notin (Backends \X Tags) \X Nat
    /\ MaxInt \in Nat

VARIABLES
    \* power of two
    entries,   \* the items of the balancer's latest picker: a tag for each connection
    published, \* the pool uses that picker, and not an error picker
    loads,     \* the load of each item
    view,      \* the items of the picker that a request fetched
    drawn,     \* the item it drew first, with the load it read of it
    entry,     \* the item it decided on
    taken,     \* the item it uses
    absent,    \* history: connections that a later picker was without
    \* round robin
    order,     \* the shuffled connections
    turn,      \* the counter
    turns      \* history: how often each connection was picked

powerVars == << entries, published, loads, view, drawn, entry, taken, absent >>
turnVars == << order, turn, turns >>

-----------------------------------------------------------------------------
(* Power of two.                                                           *)

PowerItem == Backends \X Tags

NoEntries == [c \in {} |-> c]   \* no connection has an item

PowerInit ==
    /\ entries = NoEntries
    /\ published = FALSE
    /\ loads = [i \in PowerItem |-> 0]
    /\ view = [u \in Callers |-> NoEntries]
    /\ drawn = [u \in Callers |-> NoEntry]
    /\ entry = [u \in Callers |-> NoEntry]
    /\ taken = [u \in Callers |-> NoEntry]
    /\ absent = [u \in Callers |-> {}]

Idle(u) == view[u] = NoEntries /\ entry[u] = NoEntry /\ taken[u] = NoEntry

\* A new item: nobody refers to it.
IsNew(c, tag) ==
    \A u \in Callers :
        /\ << c, tag >> \notin { entry[u], taken[u] }
        /\ c \in DOMAIN view[u] => view[u][c] # tag

\* The item of a connection in a new picker: that of the previous picker, if
\* it has one.
ItemFor(c, tag) ==
    IF c \in DOMAIN entries THEN tag = entries[c] ELSE IsNew(c, tag)

\* There are usable connections, and others than those of the latest picker.
NewPowerOfTwo(conns) ==
    /\ conns \notin { {}, DOMAIN entries }
    /\ \E new \in [conns -> Tags] :
         /\ \A c \in conns : ItemFor(c, new[c])
         /\ entries' = new
    /\ published' = TRUE
    /\ absent' = [u \in Callers |->
           IF Idle(u) THEN {} ELSE absent[u] \cup (Backends \ conns)]
    /\ UNCHANGED << loads, view, drawn, entry, taken >>

\* Mutant of ErrorPicker: the error picker becomes the latest one.
ErrorPickerForgets ==
    /\ published
    /\ published' = FALSE
    /\ entries' = NoEntries
    /\ UNCHANGED << loads, view, drawn, entry, taken, absent >>

\* There is no usable connection: the pool gets an error picker.
ErrorPicker ==
    /\ published
    /\ published' = FALSE
    /\ UNCHANGED << entries, loads, view, drawn, entry, taken, absent >>

\* The connections of the latest picker are usable again.
Republish ==
    /\ entries # NoEntries
    /\ ~published
    /\ published' = TRUE
    /\ UNCHANGED << entries, loads, view, drawn, entry, taken, absent >>

\* A request fetches the pool's picker ...
GetPicker(u) ==
    /\ published
    /\ Idle(u)
    /\ view' = [view EXCEPT ![u] = entries]
    /\ UNCHANGED << entries, published, loads, drawn, entry, taken, absent >>

\* ... and calls its Pick: it reads the load of an item drawn at random,
LoadFirst(u) ==
    /\ view[u] # NoEntries
    /\ drawn[u] = NoEntry
    /\ \E c \in DOMAIN view[u] :
         LET i == << c, view[u][c] >>
         IN  drawn' = [drawn EXCEPT ![u] = << i, loads[i] >>]
    /\ UNCHANGED << entries, published, loads, view, entry, taken, absent >>

\* then that of another, which it may have drawn twice, and decides;
LoadSecond(u) ==
    /\ drawn[u] # NoEntry
    /\ \E c \in DOMAIN view[u] :
         LET i == << c, view[u][c] >>
         IN  entry' = [entry EXCEPT ![u] = IF drawn[u][2] < loads[i] THEN drawn[u][1] ELSE i]
    /\ view' = [view EXCEPT ![u] = NoEntries]
    /\ drawn' = [drawn EXCEPT ![u] = NoEntry]
    /\ UNCHANGED << entries, published, loads, taken, absent >>

\* it adds one to the lighter, which may have become the heavier meanwhile.
Add(u) ==
    /\ entry[u] # NoEntry
    /\ loads' = [loads EXCEPT ![entry[u]] = @ + 1]
    /\ taken' = [taken EXCEPT ![u] = entry[u]]
    /\ entry' = [entry EXCEPT ![u] = NoEntry]
    /\ UNCHANGED << entries, published, view, drawn, absent >>

\* whenDone.
Subtract(u) ==
    /\ taken[u] # NoEntry
    /\ loads' = [loads EXCEPT ![taken[u]] = @ - 1]
    /\ taken' = [taken EXCEPT ![u] = NoEntry]
    /\ absent' = [absent EXCEPT ![u] = {}]
    /\ UNCHANGED << entries, published, view, drawn, entry >>

PowerNext ==
    \/ \E conns \in SUBSET Backends : NewPowerOfTwo(conns)
    \/ ErrorPicker
    \/ Republish
    \/ \E u \in Callers : GetPicker(u) \/ LoadFirst(u) \/ LoadSecond(u) \/ Add(u) \/ Subtract(u)

PowerSpec == PowerInit /\ [][PowerNext]_powerVars

-----------------------------------------------------------------------------
(* Round robin.                                                            *)

\* An int64 as a uint64.
Unsigned(n) == IF n < 0 THEN n + 2 * (MaxInt + 1) ELSE n

\* Mutant of NextConn: no conversion to an unsigned number.
NextSigned(n) == order[1 + (n % Len(order))]

NextConn(n) == order[1 + (Unsigned(n) % Len(order))]

TurnInit ==
    /\ order = << >>
    /\ turn = -1
    /\ turns = [c \in Backends |-> 0]

NewRoundRobin(conns) ==
    /\ conns \notin { {}, ToSet(order) }
    /\ order' \in SetToSeqs(conns)
    /\ turn' = -1
    /\ turns' = [c \in Backends |-> 0]

\* Bound: once through the values of the counter.  (With 64 bits that takes
\* longer than any client lives.)
PickTurn ==
    /\ order # << >>
    /\ turn # -1 \/ \A c \in Backends : turns[c] = 0
    /\ turn' = IF turn = MaxInt THEN -MaxInt - 1 ELSE turn + 1
    /\ turns' = [turns EXCEPT ![NextConn(turn')] = @ + 1]
    /\ UNCHANGED order

TurnNext ==
    \/ \E conns \in SUBSET Backends : NewRoundRobin(conns)
    \/ PickTurn

TurnSpec == TurnInit /\ [][TurnNext]_turnVars

-----------------------------------------------------------------------------
(* Properties.                                                             *)

\* The items of some connections, one for each.
ItemTables == UNION { [conns -> Tags] : conns \in SUBSET Backends }

PowerTypeOK ==
    /\ entries \in ItemTables
    /\ published \in BOOLEAN
    /\ loads \in [PowerItem -> Nat]
    /\ view \in [Callers -> ItemTables]
    /\ drawn \in [Callers -> (PowerItem \X Nat) \cup { NoEntry }]
    /\ entry \in [Callers -> PowerItem \cup { NoEntry }]
    /\ taken \in [Callers -> PowerItem \cup { NoEntry }]
    /\ absent \in [Callers -> SUBSET Backends]

TurnTypeOK ==
    /\ order \in Seq(Backends) /\ IsInjective(order)
    /\ turn \in (-MaxInt - 1)..MaxInt
    /\ turns \in [Backends -> Nat]

\* However pickers are replaced under running picks, with outages between them
\* or not, the load that the latest picker sees of a connection is the number
\* of requests in flight on it, but for those that a picker for other
\* connections, without it, has come between.
LoadsShared ==
    \A c \in DOMAIN entries :
        loads[<< c, entries[c] >>] =
            Cardinality({ u \in Callers : /\ taken[u] \in { << c, tag >> : tag \in Tags }
                                        /\ c \notin absent[u] })

\* Every connection gets its turn: at any time each has been picked as often
\* as any other, give or take one, also after the counter became negative.
TurnsEven ==
    \A c, d \in ToSet(order) : turns[c] <= turns[d] + 1

=============================================================================
