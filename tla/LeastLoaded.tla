------------------------------ MODULE LeastLoaded ------------------------------
(***************************************************************************)
(* The least-loaded pickers (picker/leastloaded.go).  The connections are  *)
(* the items of a binary heap, ordered by load and then by tie-break; a    *)
(* pick takes the root, and the end of a request sifts its item into place *)
(* again.  When the usable connections change, the picker is not replaced: *)
(* its heap is updated under requests that are in flight.  An outage makes *)
(* no difference to it: the balancer has the pool use an error picker as   *)
(* long as no connection is usable, but keeps this one, to have it used    *)
(* again or updated afterwards (newPickerLocked in balancer.go); requests  *)
(* that fetched it before go on picking with it.                           *)
(*                                                                         *)
(* Everything runs under the picker's mutex, so that a call is one action. *)
(* Positions count from 1, as in a sequence; the index -1 of an item that  *)
(* has been evicted is 0 here.                                             *)
(***************************************************************************)
EXTENDS FiniteSets, SequencesExt, Lists

CONSTANTS
    Conns,       \* the connections that may become usable
    Users,       \* the requests; bounds how many are in flight at once
    TieBreaks,   \* the random tie-breaks
    MaxPicks,    \* bound: picks of a round-robin picker
    NoItem       \* not an item

ASSUME LeastLoadedAssumption ==
    /\ IsFiniteSet(Conns)
    /\ IsFiniteSet(Users)
    /\ NoItem \notin Conns \X Nat
    /\ TieBreaks \subseteq Nat
    /\ MaxPicks \in Nat

VARIABLES
    kind,          \* "roundRobin" or "random"
    pickCounter,   \* the counter of a round-robin picker
    heap,          \* a sequence of items
    load, tieBreak, index,   \* the fields of each item
    held,          \* the item each request uses
    missed,        \* history: connections evicted while the request used its item
    sifted         \* history: every item of the heap was sifted into place

heapVars == << heap, load, tieBreak, index >>

leastLoadedVars == << kind, pickCounter, heapVars, held, missed, sifted >>

-----------------------------------------------------------------------------

\* An item is its connection and a number: a connection that was evicted and
\* came back has another item, while requests may still hold the old one.
Item == Conns \X (0..Cardinality(Users))

ConnOf(i) == i[1]

InHeap == ToSet(heap)

UsedBy(u) == { held[u] } \ { NoItem }

\* A new item for connection c: the first that nobody refers to.
Fresh(c) ==
    LET free == { n \in 0..Cardinality(Users) : \A u \in Users : held[u] # << c, n >> }
    IN  << c, CHOOSE n \in free : \A m \in free : n <= m >>

\* The heap with its items' fields, as the operators below rebuild it.
Heap == [heap |-> heap, load |-> load, tieBreak |-> tieBreak, index |-> index]

HeapRecord ==
    [heap : Seq(Item), load : [Item -> Int], tieBreak : [Item -> Int], index : [Item -> Nat]]

Positions(h) ==
    [i \in Item |-> IF i \in ToSet(h) THEN CHOOSE p \in DOMAIN h : h[p] = i ELSE 0]

\* An item nobody refers to any more is garbage, and as good as new.
Becomes(h) ==
    LET live == ToSet(h.heap) \cup { held'[u] : u \in Users }
        Keep(field) == [i \in Item |-> IF i \in live THEN field[i] ELSE 0]
    IN  /\ heap' = h.heap
        /\ load' = Keep(h.load)
        /\ tieBreak' = Keep(h.tieBreak)
        /\ index' = h.index

Less(h, p, q) ==
    LET a == h.heap[p]
        b == h.heap[q]
    IN  \/ h.load[a] < h.load[b]
        \/ h.load[a] = h.load[b] /\ h.tieBreak[a] < h.tieBreak[b]

Swap(h, p, q) ==
    LET a == h.heap[p]
        b == h.heap[q]
    IN  [h EXCEPT !.heap = [@ EXCEPT ![p] = b, ![q] = a],
                  !.index = [@ EXCEPT ![b] = p, ![a] = q]]

\* container/heap: one level down or up.  at is << heap, position >>, and
\* stays the same once the item is in place.
DownOnce(at) ==
    LET h == at[1]
        left == 2 * at[2]
        child == IF left < Len(h.heap) /\ Less(h, left + 1, left) THEN left + 1 ELSE left
    IN  IF left <= Len(h.heap) /\ Less(h, child, at[2])
        THEN << Swap(h, child, at[2]), child >>
        ELSE at

UpOnce(at) ==
    LET h == at[1]
        parent == at[2] \div 2
    IN  IF parent > 0 /\ Less(h, at[2], parent)
        THEN << Swap(h, parent, at[2]), parent >>
        ELSE at

\* No item moves more often than there are levels, let alone items.
Down(h, p) ==
    LET at[n \in 0..Len(h.heap)] == IF n = 0 THEN << h, p >> ELSE DownOnce(at[n - 1])
    IN  at[Len(h.heap)][1]

Up(h, p) ==
    LET at[n \in 0..Len(h.heap)] == IF n = 0 THEN << h, p >> ELSE UpOnce(at[n - 1])
    IN  at[Len(h.heap)][1]

Fix(h, p) ==
    LET sunk == Down(h, p)
    IN  IF sunk # h THEN sunk ELSE Up(h, p)

\* Down from every position that has a child, the last one first.
Heapify(h) ==
    LET half == Len(h.heap) \div 2
        after[n \in 0..half] == IF n = 0 THEN h ELSE Down(after[n - 1], half + 1 - n)
    IN  after[half]

\* The slice's own Push, which only appends, for each of the connections.
PushAll(h, conns) ==
    LET all == h.heap \o [n \in DOMAIN conns |-> Fresh(conns[n])]
    IN  [h EXCEPT !.heap = all, !.index = Positions(all)]

-----------------------------------------------------------------------------

HeapInit ==
    /\ kind \in { "roundRobin", "random" }
    /\ pickCounter = 0
    /\ heap = << >>
    /\ load = [i \in Item |-> 0]
    /\ tieBreak = [i \in Item |-> 0]
    /\ index = [i \in Item |-> 0]
    /\ held = [u \in Users |-> NoItem]
    /\ missed = [u \in Users |-> {}]
    /\ sifted = TRUE

\* NewLeastLoaded..., newConnHeap: for the balancer's first picker only.
NewHeap(conns) ==
    /\ heap = << >>
    /\ conns # {}
    /\ pickCounter' = 0
    /\ sifted' = TRUE
    /\ UNCHANGED << kind, held, missed >>
    /\ \E order \in SetToSeqs(conns) : Becomes(PushAll(Heap, order))

\* How many connections are pushed one by one and not by a new heapify:
\* at most n / log n.  (BitsLen is bits.Len.)
BitsLen(n) == CHOOSE k \in 1..n : 2^(k - 1) <= n /\ n < 2^k

FewEnough(added, newLen) == added <= newLen \div BitsLen(newLen)

\* Mutant of Kept: update starts over with new items.
KeptNone(conns) == << >>

Kept(conns) == Only(heap, { i \in InHeap : ConnOf(i) \in conns })

\* update: evicts the items whose connections are gone, compacting the slice;
\* then adds the new connections, in any order.  The balancer calls it only if
\* the usable connections are others than those of the last call.
Update(conns) ==
    LET kept == Kept(conns)
        added == conns \ { ConnOf(i) : i \in ToSet(kept) }
        compact == [Heap EXCEPT !.heap = kept, !.index = Positions(kept)]
        push == kept = heap /\ FewEnough(Cardinality(added), Len(kept) + Cardinality(added))
    IN  /\ heap # << >>
        /\ conns \notin { {}, { ConnOf(i) : i \in InHeap } }
        /\ UNCHANGED << kind, pickCounter, held >>
        /\ \E order \in SetToSeqs(added) :
             Becomes(IF push THEN PushAll(compact, order)
                             ELSE Heapify(PushAll(compact, order)))
        /\ sifted' = ~push
        /\ missed' = [u \in Users |-> missed[u] \cup
               ({ ConnOf(i) : i \in UsedBy(u) } \ conns)]

\* Pick: acquire takes the root.
Acquire(u, nextTieBreak) ==
    LET entry == Head(heap)
        h == [Heap EXCEPT !.load[entry] = @ + 1, !.tieBreak[entry] = nextTieBreak]
    IN  /\ heap # << >>
        /\ held[u] = NoItem
        /\ held' = [held EXCEPT ![u] = entry]
        /\ Becomes(Fix(h, index[entry]))
        /\ UNCHANGED << kind, missed, sifted >>

PickRoundRobin(u) ==
    /\ kind = "roundRobin"
    /\ pickCounter < MaxPicks
    /\ pickCounter' = pickCounter + 1
    /\ Acquire(u, pickCounter + 1)

PickRandom(u) ==
    /\ kind = "random"
    /\ \E tie \in TieBreaks : Acquire(u, tie)
    /\ UNCHANGED pickCounter

\* Mutant of Release: does not sift the item up.
ReleaseInPlace(u) ==
    /\ held[u] # NoItem
    /\ held' = [held EXCEPT ![u] = NoItem]
    /\ missed' = [missed EXCEPT ![u] = {}]
    /\ Becomes([Heap EXCEPT !.load[held[u]] = @ - 1])
    /\ UNCHANGED << kind, pickCounter, sifted >>

\* whenDone: release.  An evicted item is in no heap any more.
Release(u) ==
    LET entry == held[u]
        h == [Heap EXCEPT !.load[entry] = @ - 1]
    IN  /\ entry # NoItem
        /\ held' = [held EXCEPT ![u] = NoItem]
        /\ missed' = [missed EXCEPT ![u] = {}]
        /\ Becomes(IF index[entry] # 0 THEN Fix(h, index[entry]) ELSE h)
        /\ UNCHANGED << kind, pickCounter, sifted >>

HeapNext ==
    \/ \E conns \in SUBSET Conns : NewHeap(conns) \/ Update(conns)
    \/ \E u \in Users : PickRoundRobin(u) \/ PickRandom(u) \/ Release(u)

HeapSpec == HeapInit /\ [][HeapNext]_leastLoadedVars

-----------------------------------------------------------------------------
(* Properties.                                                             *)

\* The variables keep their types (the fields of pickLocked and update).
HeapTypeOK ==
    /\ kind \in { "roundRobin", "random" }
    /\ pickCounter \in Nat
    /\ Heap \in HeapRecord
    /\ held \in [Users -> Item \cup { NoItem }]
    /\ missed \in [Users -> SUBSET Conns]
    /\ sifted \in BOOLEAN

\* The load of a connection is the number of its requests in flight: updates,
\* those after an outage too, lose none of them, but for those during which
\* the connection was evicted by an update that was without it.
LoadsCarriedOver ==
    \A i \in InHeap :
        load[i] = Cardinality({ u \in Users : /\ held[u] # NoItem
                                              /\ ConnOf(held[u]) = ConnOf(i)
                                              /\ ConnOf(i) \notin missed[u] })

InFlightAt(c) == { u \in Users : held[u] # NoItem /\ ConnOf(held[u]) = c }

Picked(u) == held[u] = NoItem /\ held'[u] # NoItem

\* As long as no connection was pushed unsifted, a pick takes a connection
\* with the least load and, of those, the one picked longest ago.
LeastLoadedOnceSifted ==
    [][\A u \in Users : Picked(u) /\ sifted =>
         \A i \in InHeap \ { held'[u] } :
             LET chosen == held'[u]
             IN  \/ load[chosen] < load[i]
                 \/ load[chosen] = load[i] /\ tieBreak[chosen] <= tieBreak[i]
      ]_leastLoadedVars

\* "pick the connection with the fewest in-flight requests", at least as long
\* as no connection was evicted under a request.  (The code does not satisfy
\* this: see the README.)
FewestInFlightPicked ==
    [][\A u \in Users : Picked(u) /\ (\A w \in Users : missed[w] = {}) =>
         \A i \in InHeap :
             Cardinality(InFlightAt(ConnOf(held'[u])))
                 <= Cardinality(InFlightAt(ConnOf(i)))]_leastLoadedVars

=============================================================================
