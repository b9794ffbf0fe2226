# A TLA+ verification of httplb

`httplb` is a Go HTTP client library with client-side load balancing: it
resolves the names of its targets, keeps connections ("leaf transports") to the
addresses, follows their health and spreads requests over them. Almost all of
its logic is concurrent: requests, resolver tasks, health checkers, timers and
the closing client meet in `transport.go` and `balancer.go`. This directory
holds TLA+ models of that logic, the TLC configurations that check them, and
proofs checked by TLAPS.

## 1. Inventory

| Component | Source | State it keeps | Operations | What makes it correct | Module |
|---|---|---|---|---|---|
| connection (leaf) | `transport.go:788-941` | one `atomic.Int64` that counts requests and, negative, says "closing"; channel `closed`; hooks on response bodies | RoundTrip, startRequest, endRequest, close | no round tripper closed under a request; channel closed once; close returns; callbacks once | `Connection` |
| transportPool | `transport.go:442-786` | active and removed connections, picker pointer, warm flag, closed flag, three channels, a condition variable | NewConn, RemoveConn, connClosed, UpdatePicker, RoundTrip, prewarm, close | requests find a picker and open connections; close waits and leaves nothing open; no lost wake-up | `TransportPool` |
| mainTransport | `transport.go:147-440` | map of pools, wait group, root context, an activity channel per pool | RoundTrip, getOrCreatePool, closeWhenIdle, close | one pool per target, none lost, none in use timed out; retries end | `MainTransport` |
| balancer, connManager | `balancer.go` | latest addresses and error, connections with state and warmth, connections by address, connections to recycle, closers of checkers | OnResolve(Error), UpdateHealthState, warmedUp, recycle, receiveAddrs, Close | the picker is always that of the current states; the books agree; latest addresses win | `Balancer`, `Usability` |
| polling resolver | `resolver/resolver.go:181-346` | two timers, time of the last lookup, refresh channel | run, Close | lookups keep their distance, no request for a refresh is lost | `PollingResolver` |
| polling health checker | `health/polling.go` | state, counter | probe loop, Close | a connection changes sides after enough probes in a row, and the balancer hears of it | `PollingChecker` |
| DNS prober, address family policy | `resolver/resolver.go:226-258, 354-387` | none | ResolveOnce, applyAddressFamilyPolicy | only what the policy requires; what it prefers, or else all | `Addresses` |
| MinConnections | `resolver/min_conns.go` | none | OnResolve | at least the minimum, less than twice | `Addresses` |
| rendezvous subset | `resolver/rendezvous.go`, `internal/murmur3.go` | a hash shared by all receivers; a heap per call | OnResolve, rank; Reset, Write, Sum32 | the k best ranks, whatever the order and however the bytes are divided | `Addresses` |
| least-loaded picker | `picker/leastloaded.go` | a heap of connections with loads, a counter | Pick, release, update | the heap's order, loads kept over updates, evicted items left alone | `LeastLoaded` |
| power-of-two, round-robin pickers | `picker/poweroftwo.go`, `picker/roundrobin.go` | atomic loads shared with the next picker; an atomic counter | Pick, release, New | a load counts what is in flight; all get their turn, also after the counter wraps | `AtomicPickers` |
| random picker | `picker/random.go` | a seeded generator | Pick | chooses a given connection | the choice in `TransportPool` |
| client, options, simple and h2c transports, clock, attributes, connection sets, no-op checker, simple prober, test helpers | `client.go`, `h2c_*.go`, `internal/`, `attribute/`, `health/` | configuration | | | not modelled |


### How they interact

```
 Client ── RoundTrip ──> mainTransport ── RoundTrip ──> transportPool ── RoundTrip ──> connection ──> net/http
                  getOrCreatePool, closeWhenIdle    ^  Pick, errTryAgain back up        ^
                                                    |                                   |
     resolver ── OnResolve(Error) ──> balancer ── NewConn / UpdatePicker / RemoveConn   close
        ^                               ^   |
        |                               |   └── ResolveNow ──> pool.reresolve (buffered) ──> resolver
        └───────────────────────────────┘
     health checker ── UpdateHealthState ──> balancer <── warmedUp, recycle (timers)
```

* Calls down: a request passes main transport, pool, picker and connection. A
  connection that is closing answers `errTryAgain`, which the main transport
  alone handles, by looking the pool up again.
* Callbacks up: resolver, checkers, warm-up routines and lifetime timers call
  the balancer, each from a goroutine of its own. Results, signals and requests
  for new addresses travel through one-place channels that coalesce.
* `receiveAddrs` is the only goroutine that adds and removes connections; it
  calls the pool and the checkers without holding the balancer's lock.
* A resolver's result goes from the prober through the decorators
  (MinConnections, rendezvous) to the balancer; the receivers of different
  targets share the rendezvous hash.
* The balancer gives the previous picker to the next: a least-loaded one is
  updated in place, a power-of-two one hands over the loads of its connections.
  Requests hold the old one meanwhile. An error picker in between does not count:
  the balancer keeps its latest picker through an outage.
* Closing goes down the tree: main transport, pools, then in each pool the
  resolver, the balancer (which closes the checkers) and the connections.

### What is hard

The list of hazards, each at its line, is in `PROJECT.json`. In groups: the
lock-free counter of a connection; `receiveAddrs` working in unlocked steps
while health reports publish pickers; callbacks that arrive for connections
dropped meanwhile; coalescing signals; a pool's close against NewConn,
RemoveConn and waiting requests; the idle timeout against a lookup; two closers
everywhere; retries that must end; a condition variable that is to heed a
context; pickers that are updated or replaced under requests; a hash that is
shared without a lock; the divisions and counters of the decorators and pickers
at their limits.

## 2. The modules

| Module | Content |
|---|---|
| `ConnectionContract` | abstract: what a leaf promises to its pool (admit, drain, tear down) |
| `Connection` | the counter protocol, one action per atomic operation; implements the contract |
| `BalancerContract` | abstract: the calls a pool gets from its balancer (create, publish, remove) |
| `Usability` | `computeUsableConnsLocked` as operators, and the health states |
| `Mixes` | connections that come, change their state and go, with a reference definition for `Usability` |
| `Balancer` | `balancer.go`; extends `Usability`, implements the contract |
| `TransportPool` | the pool, composed of `BalancerContract` for its calls and `ConnectionContract` for its leaves |
| `MainTransport` | the map of pools and their idle goroutines |
| `PollingResolver`, `PollingChecker` | the two tasks that drive the balancer |
| `Addresses` | what becomes of a lookup's result: policy, replication, subset, and the shared hash |
| `LeastLoaded` | the least-loaded pickers, with the heap position by position |
| `AtomicPickers` | power-of-two and round-robin, one action per atomic operation |
| `Lists` | filtering a slice, as `LeastLoaded` and `Addresses` use it |
| `ConnectionProofs`, `BalancerProofs`, `TransportPoolProofs`, `MainTransportProofs`, `SelectionProofs`, `LeastLoadedProofs`, `ResolverProofs` | the theorems (section 5) |
| `DataLemmas` | the lemmas about numbers, loops and finite sets on which these rest |
| `MCConnection`, `MCBalancer`, `MCTransportPool`, `MCMainTransport` | values and symmetry for TLC |
| `MCSelection` | how a request comes to its connection: `PollingChecker`, `Mixes`, `LeastLoaded` and `AtomicPickers`, side by side |
| `MCAddresses` | how a name becomes addresses: `PollingResolver` and `Addresses`, side by side |

The last two put parts that share no state into one run; a variable `part` says
of which a behaviour is one, so that their states add up and do not multiply.

`PROJECT.json` ("map") gives the source lines of every definition.

### Correspondence of state and actions

**Connection.** `outstandingRequests` is the counter; `Wrap` makes it as wide as
an int64 of `-MaxInt64 - 1 .. MaxInt64`. `req[r]` is the place of a request
between two atomic operations: admitted (`sent`), refused but its increment not
taken back (`aborting`), answered (`responded`, its hook `armed`), in `onFinish`
(`finishing`, `ending`), about to close the channel (`signalling`). `closer[k]`
is the same for `close`, whose loop is LoadCount, MarkClosing and RetryMark.
`closeCalls` counts `close(c.closed)`. A hook that runs again changes nothing,
so only the first run is an action.

**Balancer.** Connections are pairs of address and number of creation, so that
"the oldest are kept" can be said. `conns`, `connInfo`, `connsByAddr` are the
code's; `checkers`, `warming`, `timers`, `firing` are the goroutines a
connection has; `poolConns`, `poolPicker`, `poolWarm`, `reresolve` what the pool
was told. `pc` is the place of `receiveAddrs`. What the code does under `b.mu`
is one action; `updateConns` is split as its code is into NewConn* (one per
address), UpdateConns (the locked part), CloseChecker*, RemoveConn* and
FinishUpdate, and everybody else may act in between. A report or warm-up for a
connection the balancer no longer knows has no effect; the error carried by a
failing picker is abstracted to the empty set of choices. `applied` and `ignored`
are history: how many connections the last result wants for each address, and
that a result without addresses was ignored since the last new picker.

**TransportPool.** The balancer's calls are the steps of `BalancerContract`,
with `conns` and `picker` for its variables: the pool is checked against every
balancer that keeps the contract. The leaves move as `ConnectionContract`
allows, driven by the two goroutines that may close each: RemoveConn's and the
pool's. `LeafContracts` checks that the composition keeps to it. UpdatePicker is
three actions (store, close the channel, note warmth). `linked` says that the
main transport's map still has the pool; it is unlinked before it is closed.

**MainTransport.** A call of prewarm (`Prewarmers`) takes the way of a request
to its pool and returns when the pool's prewarm does. One of the goroutines that
call close is the `Watcher` that newTransport starts; it calls close once the
root context is cancelled. `poolPc[p]` is the goroutine `closeWhenIdle` of a
pool: `select`, `ticked` (the timer's case chosen, lock not yet taken),
`cancelled`, `closing`, `closed`; a pool that is kept warm has none (`warm`).
Whether the client keeps its pools warm is chosen once, in Init. `LookUp` runs
under the read lock, `GetOrCreatePool` is the second check under the write lock.
`runningPools` is the wait group. A pool is reduced to what `TransportPool`
shows. `picker[p]` is what its balancer gave it: none yet, one that is not warm,
or a warm one. A request waits for a picker (AwaitsPicker) and is then served
(Serve), fails (PickFails) or, once the pool closes, may be told to try again
(TryAgain). A prewarm looks once whether the pool is closed and then waits for
warmth, closed or not (Prewarm, AwaitsWarmth). A request or prewarm that is
Stalled by either wait can give up (GiveUp: its own context ended); the pool's
close does not release it. That close waits for the requests in flight. (The
findings below say where the code's pool falls short of that.) An identity in `Pools` is used again for a new pool when nobody
refers to the closed one.

**PollingResolver.** Time is countdowns: `timer`, `refreshTimer`, and
`sinceResolve`, capped at the minimum interval beyond which nothing depends on
it. `Tick` may happen between any two steps. A reset timer does not leave a
stale value in its channel, which is so for the Go version in `go.mod`.

**Addresses.** A lookup finds any sequence of addresses of the network that the
policy asks for. `Replicate` is MinConnections and works before or after the
subset is chosen (`subsetFirst`), as the options allow. `phase[r]` is where a
receiver is in `addressHeap.rank`: each of Reset, the two Writes and Sum32 is an
action, and the hash is one variable for all receivers. `Write` does what
MurmurHash3.Write does with the bytes, which are numbers: it fills up a word begun before, then
takes whole words, and keeps the rest. How the words are mixed is abstracted:
the sum of an address's bytes after the key's is its score, different for each,
and what has been fed anything else may have any sum. Of the heap of the best k
only its root matters, which is some entry of least rank. `found`, `lookup` are
history.

**LeastLoaded.** `heap` is the slice, with the fields of its items beside it;
Down, Up, Fix and Heapify move them as container/heap does. `PushAll` appends
as the slice's own method `Push` does, which is what `update` calls. An item is
its connection and a number, since a connection that was evicted and came back
has a new item while requests hold the old one; items nobody refers to are used
again. An outage is no event of this module: while no connection is usable the
pool has an error picker, but the balancer keeps its latest picker and the
connections it is for (`balancer.go:371-380`), publishes it again when the same
connections are usable, and has it updated in place when others are. Heap, loads
and order stay, and a request that fetched the picker before still picks with
it. Accordingly only the first picker is made from nothing (NewHeap), and every
later one is an Update. `missed` (connections evicted under a request) and
`sifted` (nothing was appended since the heap was last sorted as a whole) are
history.

**AtomicPickers.** A request fetches the current picker (`view`), reads two
loads, decides and adds one: four actions, between which pickers are replaced.
The new picker takes over the items of the connections that the previous one had
(`ItemFor`). `entries` is the picker that the balancer made last, and `published`
says that the pool has it and not an error picker: ErrorPicker takes it away,
Republish gives it back, NewPowerOfTwo hands its items over, after an outage
too. `absent` is history: the connections that a later picker did not have,
whose items are therefore new when they come back. In round-robin `turn`
is the int64 counter, `Unsigned` the conversion that keeps the index in range.

**PollingChecker.** The counter and the two thresholds, with the ticker ready at
any time. `passed` and `failed` are history: the length of the current run of
results, up to the threshold.

## 3. The runs

| Run | Bounds | Question | Result |
|---|---|---|---|
| `connection_protocol` | 3 requests, 2 closers, width 4 bits, fair | is the counter protocol safe, does it implement the contract, does close complete but for the race below? | holds |
| `connection_hang` | same | does close always complete? | **violated** |
| `selection` | thresholds 3 and 2; up to 18 connections; pickers over 3 connections with 2 requests, 3 round-robin picks, tie-breaks and tags 0 and 1, counter of 4 bits | streaks of probes and their reports; does the loop choose what its definition says; are loads kept and turns even? | holds |
| `fewest` | same | does a least-loaded pick take the connection with the fewest requests? | **violated** |
| `balancer_safety` | 2 addresses, 4 connections, 2 results, 1 recycling | picker, books, requests for addresses, contract | holds |
| `balancer_live` | 1 address named up to twice, 4 connections, 2 results, 2 recyclings, fair | counts of copies, latest addresses, expiry, close | holds |
| `pool_safety` | 2 connections, 2 requests, 1 closer, 1 prewarm | picker, retries, wake-ups, close, leaf contracts | holds |
| `pool_live` | 2 connections, 1 request, 2 closers, fair | retries end, everything torn down, close returns | holds |
| `pool_removed` | 2 connections, 1 request | does close wait for removed connections? | **violated** |
| `main` | 2 targets, 1 of them supported, 2 pools, 2 requests and 1 prewarm, a client's close and the watcher's, kept warm or not, fair | map, idle timeout, close; is no request handed closed pools for ever? | holds |
| `addresses` | times to live 0, 1, 3, default 5, minimum 2; 4 addresses, 2 of each family, k = 2, minimum 3, 1 receiver; fair | distance of lookups, refresh, close; policy, replication and subset in either order | holds |
| `shared_hash` | 2 receivers, 2 addresses, k = 1 | do two targets with the same addresses choose the same? | **violated** |

### Why the bounds are enough

* *Connection*: the known hard cases need one request that ends, one that is
  refused and one more in flight, and two goroutines in the loop of close. The
  counter never needs more than three increments, so a width of four bits wraps
  exactly where 64 bits would; the proofs remove the bound (for any set of
  requests smaller than `MaxInt64`).
* *Mixes*: a quarter of 18 connections, rounded, is 5: the minimum of three is
  passed, and halves (6, 10, 14, 18 connections) are met at both sides. The
  proofs remove the bound.
* *Balancer*: two addresses of which one leaves while the other arrives, two
  results so that one may be coalesced or arrive in mid-update, a recycling that
  meets either. Copies are a question of one address. The proofs remove these
  bounds. Growing, shrinking and recycling of copies need two results and two
  recyclings, one of which may be of a connection that the second result drops.
* *TransportPool*: one connection in the picker while another is removed or
  created late; a request on each. Two closers matter only for who waits for
  whom (`pool_live`), and one call of prewarm suffices for a lost wake-up, since
  a broadcast of another could only add wake-ups.
* *MainTransport*: two identities let a pool close while its successor is in
  use; two requests race for the creation, or one finds the pool the other keeps
  busy; the second may be for a target that the client refuses. Prewarm and the
  watcher add the two ways in which close and the creation of a pool that is
  kept warm can meet. The proofs remove these bounds.
* *LeastLoaded*: with three connections the heap has a root with two children,
  both paths of Down, a heap that is compacted and one that is pushed to; two
  requests make loads differ by two. Three round-robin picks suffice for a
  tie-break to decide and be overtaken. The proofs remove these bounds.
* *AtomicPickers*: one request holds an item over the replacement while another
  draws; a third connection leaves and returns. `MaxInt = 7` lets the counter
  reach the negative numbers within sixteen picks, and 3 does not divide 16. The
  proofs remove these bounds.
* *Addresses*: two addresses of each family let each policy find both, one or
  none; four addresses with k = 2 replace the heap's root; a minimum of 3 is
  below, at and above what is found. The key leaves a byte over, and the
  addresses' bytes do not complete the word, complete it, and go beyond it with
  and without another word. The proofs remove these bounds, but for SubsetBest
  that of the single receiver: it is the case in which the property holds.
* *PollingResolver*: the times to live lie below and above the minimum interval,
  and zero takes the default.

`CHECK_DEADLOCK FALSE` everywhere: all these systems may come to rest, after a
close or when nothing is asked of them. That nothing hangs is what the liveness
properties say.

### Fairness, and why the code justifies it

Weak fairness of every goroutine's own steps: the Go scheduler runs each. A
blocked step (a channel, a wait group, a condition) is a guard. Strong fairness
of a `select` case: Go chooses at random among ready cases, so one that is ready
again and again is chosen in the end. Requests in flight end: servers answer or
time out, bodies are read or closed; this is the caller's duty in `net/http`.
Nothing obliges a client to send a request or to close, a resolver to have a
result, a checker to report, or a balancer to call its pool. `SF(CloseBalancer)`
in `TransportPool` stands for `CloseCompletes` of `Balancer`, checked there. A
property under `<>[]` ("from some time on") is as strong as a leads-to here, as
each request, close and context ends once and results and recyclings are
bounded: what has to follow the last of them has to hold in the end.

In `MainTransport` nothing obliges a balancer to publish a picker or a warm one,
or the context of a request to end: UpdatePicker and GiveUp have no fairness.
RequestsEnd therefore does not say that every request ends, which the code does
not guarantee. It says that a request ends or waits for its pool's first picker,
and that a prewarm ends or finds its pool again and again not warm; which a
pool's close changes in neither case. Its other exception is a request that is
handed one pool after another, each of which times out or is closed in the
moment between the lookup and the request's use of it: the code excludes that by
the idle timeout's length only, which the model leaves out. Retries within one
pool are treated in `TransportPool` without such an exception.

Two assumptions rest on the layer below. The pools' closes are taken to complete
(`MainTransport`), as are those of the leaves (`TransportPool`). Finding 1 below
shows where the code breaks the latter; what the runs `pool_live` and `main` say
of close holds when that race does not occur.

### Mutants

For every property of every passing run, `PROJECT.json` names a mutant: an
operator next to the original in the module (marked "Mutant of") that changes it
as a plausible mistake would. The property fails when the mutant takes the
original's place, so each property depends on the code it is about.

## 4. What the runs found

1. **close of a connection can hang** (`connection_hang`, `transport.go:859`). A
   request is refused by a closing connection: it increments the counter, and
   will take that back. In between the last request ends, and sees `MinInt64 +
   1` instead of `MinInt64`. It does not close the channel; the refused request,
   which reaches `MinInt64`, does not either. The goroutine in `close` waits for
   ever, and so do the pool's and the client's Close. `CloseCompletes`, in
   `connection_hang`, is the property that this race violates.
   `CloseCompletesUnlessMasked`, in `connection_protocol`, leaves out behaviours
   in which the race can occur, and shows that this is the only way.
2. **close of a pool does not wait for removed connections** (`pool_removed`,
   `transport.go:587`). `connClosed` rebuilds `removedConns` from `t.conns`.
   After one removed connection is closed the others are forgotten (and active
   ones listed twice, which is harmless), against the comment at
   `transport.go:767`.
3. **a least-loaded picker does not pick the least loaded** (`fewest`,
   `leastloaded.go:165`). A connection that is added to a picker in use is
   appended to the heap's slice by its method `Push` and not by `heap.Push`, so
   it is not sifted up. The next pick takes the root, although the new
   connection has fewer requests, against the comment at `leastloaded.go:157`
   ("just heap.Push them") and the doc at `leastloaded.go:27`.
   `LeastLoadedOnceSifted`, in `selection`, shows that the order is right
   otherwise.
4. **a hash shared by the resolvers of all targets** (`shared_hash`,
   `rendezvous.go:144`). Two tasks that rank addresses at the same time reset
   and feed one hash; the same addresses then give different subsets, against
   `rendezvous.go:31`. With one receiver `SubsetBest` holds (`addresses`).

Some observations have no run, because no property of the code follows from
them. Half of an odd number of backends is rounded upwards (`balancer.go:421`),
so that a pool with one healthy backend asks for new addresses whenever a picker
is published. A request that waits for the first picker is released by the
picker or by its own context, but not by the pool's close (`transport.go:674`);
and a prewarm does not look at `t.closed` in its loop (`transport.go:724`). Both
are Stalled in `MainTransport`. A result without addresses is ignored, but it may
have overwritten one that was not applied yet (`balancer.go:156`), which is then
lost. And it answers a request for new addresses, but is ignored before a new
picker would ask again (`balancer.go:269`): the backends stay unhealthy, and the
balancer does not ask until a state changes or a connection expires.
UnhealthyAsksAgain excludes just these states, by `ignored`, and holds in all
others; the polling goes on at its own pace in any case.

## 5. The proofs

`tlapm` on `DataLemmas` and on each of the seven modules `*Proofs.tla` checks
them, for every value of the constants.

**ConnectionProofs** assumes only what `Connection` does of its constants: a
finite set of requests with fewer members than `MaxInt64`, so that the counter
cannot reach its limit. The inductive invariant is TypeOK, and CounterEncodes:
the counter is the number of requests in flight and being refused, less 2^63
when marked; a loaded value is never negative where it is to be swapped; who is
about to close the channel is unique; and a channel that is closed or about to
be means that nothing is in flight. CounterEncodes alone is not enough: that the
channel is closed once needs the exclusion between a closer that marked an idle
connection and a request that ended last. The lemmas about finite sets say how
the cardinality of the two sets of requests changes when one request moves. From
the invariant follow DrainedBeforeClose, NoDoubleClose and WhenDoneOnce, the
action property ClosingIsFinal, and that every step is a step of the contract or
leaves its variables alone.

**BalancerProofs** follows the picker and the books through the unlocked parts
of `updateConns`. The invariant says, for each place `pc` of `receiveAddrs`, how
`connsByAddr`, `addConns`, `removeConns`, `conns` and `poolConns` relate
(BooksInv): in mid-update the pool has the new connections already and the old
ones still. FreshInv says that new connections are new, InfoInv and RunnersInv
that every connection with an info has its checker and timer accounted for, so
that shutting down finds all of them; IdInv that creation numbers are never used
twice. With `poolPicker ⊆ conns` the three properties and the contract follow.
The picker's content is only used as `Usable(view) ⊆ DOMAIN view`: the proof
holds for every policy that chooses from what there is. Two more invariants
stand beside it. AskInv says that whatever published the current picker has also
asked for addresses where it should, and that when the resolver took the request
away a result is under way, or one without addresses was ignored since; it needs
nothing else. CountInv adds up, per
address, the connections kept, those just created and those to be created; it
rests on OldestKept, a lemma about ranks: the number of older connections of an
address is an injection into, and so a bijection with, the first naturals, so
that keeping those of rank below k keeps exactly k.

**TransportPoolProofs** assumes of the balancer what `BalancerContract` says.
Its invariant follows the two ways in which a connection is closed: SnapshotInv
says that close knows all active connections, since none is created after
`closed` is set; LeafInv ties the gate of a connection to how far the goroutines
that close it have come. CloseInv says that one goroutine closes the pool, after
it was unlinked. A leaf whose gate is not open is thus one that was removed, or
one of a pool that is unlinked and whose balancer is closed, which is what
retries rely on. Every step then is a step of each leaf's contract or none: the
request in flight that the contract forbids a closed leaf is excluded because
Drain waits for it, and gates never reopen.

**MainTransportProofs** shows that the map and the goroutines agree (LinkInv): a
pool is in the map under its own target only, so that the goroutine which
removes "the pool of my target" removes itself. TouchInv is the reason why the
idle timeout is safe: after a lookup there is a signal waiting, or the timer was
started again after it. CountInv makes the wait group the number of pools that
run; with ClosedInv, the transport closed before anything else, a call of close
that returned leaves no pool, and none is created later.

**SelectionProofs** is about how a request comes to its connection, but for the
heap. *Usability*: whatever the states of any finite set of connections, the loop
chooses a connection exactly when it is not unhealthy and there are not enough
better ones, so that it chooses none only if all are unhealthy. These two are
theorems about operators. UsableIsAlwaysBestEnough carries them over to what the
run checks, against a definition by numbers of connections instead of sets: its
invariant is that the numbers are naturals, and the lemma ViewOfMix says that the
n-th connection's state is the one its position demands, so that a number of
connections is the size of a set of positions.

*PollingChecker*: the one counter that serves both directions is, but for the
time before the first probe, the length of the current run of probes against the
current state (CounterInv), so that a run that is interrupted leaves nothing
behind. That a bad result of a connection that is not healthy is taken at once
(ResultInv) is needed for the threshold in the other direction. Both thresholds
are any positive numbers. *Power-of-two*: a load is the number of requests using
the item (LoadInv), and an item that a request holds or may yet choose is the
latest picker's unless a picker without its connection came between (ShareInv).
An outage changes neither (OutageStep).
*Round-robin*: the number of picks determines each connection's turns: n per
round, one more for those that come first.

**LeastLoadedProofs** first takes the operators of container/heap, for a heap of
any size. A heap is Indexed if no item is in it twice and each item's index is
its place, and Sorted if no item comes before its parent. Down, Up, Fix and
Heapify are loops; what holds before a loop and is kept by a turn holds after it
(by induction over its history, see DataLemmas). While an item sinks, the heap
is sorted but for that item, whose children do not come before its parent
(SortedBut); when it has come to rest, or is at a leaf, the exception is void.
An item that rises is the mirror image (SortedUnder). That the number of turns
allowed, the length of the heap, suffices is part of the proof: every turn that
moves the item moves it to a later place, or to an earlier one. FixRestoresOrder
puts the two together for an item that may have changed in either direction, as
one does whose load and tie-break change at once; its hypothesis SortedAround
says what then is left of the order. HeapifySorts and RootIsLeast complete what
the picker needs. `Rearranged` says of each of them that only the places
changed.

The picker's invariant, HeapInv, is the type of the variables and: the heap is
Indexed, a connection has one item in it (OneItemEach), an item's load is the
number of requests that hold it, in the heap or not (HoldersCounted), a request
holds an item of the heap unless its connection was evicted since
(EvictedWhileHeld), an item nobody refers to is as good as new (UnusedAsNew), and
the heap is Sorted unless something was appended since the last heapify. Each is
needed: LoadsCarriedOver alone says nothing of the items that were evicted, and
a connection that comes back could be given one of them; without Indexed, Fix
would start at another item's place when a request ends. LoadsCarriedOver
follows from HoldersCounted and EvictedWhileHeld, LeastLoadedOnceSifted from
RootIsLeast.

**ResolverProofs** relates the timers to the interval: while the task sleeps,
the time left on the timer and the time since the last lookup add up to at least
the minimum interval, and those of the refresh timer to exactly that
(SpacingInv). A request is in the channel or on its way to a lookup
(RequestInv). Times to live and intervals are any naturals.

Its second part is about what becomes of a result. MultiplierJustEnough is
arithmetic: the multiplier of MinConnections is just large enough.
WriteInPieces says that the hash does not depend on how a text is cut: the words
and the rest that Write leaves spell the whole text (Spells), and a text is
spelled in one way only. So the key followed by an address has one sum, the
score of the address. InsertKeeps is the heap of the best k: it holds entries of
different places of the list, and none of those left out has a higher score;
the root, some entry of least rank, is the one to be replaced. The list may hold
an address several times, each as often as the others (EachTimes), and then the
number of distinct addresses that are among the best k entries has to be counted
(BestOf).

AddressInv gathers, per receiver, the types; RankInv, what the list and the heap
are while it ranks; HashInv, what the hash has been fed at each of the four
steps; and ReportInv, what was reported last. The parts that speak of scores
have the hypothesis `Alone`: no other receiver uses the hash. The others have
not, as the number of entries in the heap and their being different places of
the list do not depend on what the hash returns. So AlwaysReplicatedEnough holds
for any number of receivers, and SubsetAlwaysBest for one. `shared_hash` shows
that this hypothesis cannot be dropped.

**DataLemmas** has induction in a form that the provers can use. The library's
theorems take the property as an operator; here it is the set of the numbers
that have it, and a lemma about every set can be instantiated. From it follow
that a loop has a history (LoopHasHistory) and what filtering a slice keeps
(OnlyKeeps).

Theorems:

| Theorem | Statement |
|---|---|
| `ConnectionProofs!TypeCorrect` | `Spec => []TypeOK` |
| `ConnectionProofs!CounterAlwaysEncodes` | `Spec => []CounterEncodes` |
| `ConnectionProofs!DrainsBeforeClose` | `Spec => []DrainedBeforeClose` |
| `ConnectionProofs!ChannelClosedOnce` | `Spec => []NoDoubleClose` |
| `ConnectionProofs!CallbackOnce` | `Spec => []WhenDoneOnce` |
| `ConnectionProofs!ClosesForGood` | `Spec => ClosingIsFinal` |
| `ConnectionProofs!MeetsContract` | `Spec => ImplementsContract` |
| `BalancerProofs!TypeCorrect` | `Spec => []TypeOK` |
| `BalancerProofs!PickerAlwaysCurrent` | `Spec => []PickerCurrent` |
| `BalancerProofs!PickerStaysWithinPool` | `Spec => []PickerWithinPool` |
| `BalancerProofs!BooksAlwaysAgree` | `Spec => []BooksAgree` |
| `BalancerProofs!NothingRunsOn` | `Spec => []StoppedWhenClosed` |
| `BalancerProofs!MeetsContract` | `Spec => ImplementsContract` |
| `BalancerProofs!AsksAgainWhileUnhealthy` | `Spec => []UnhealthyAsksAgain` |
| `BalancerProofs!CountsAlwaysMatch` | `Spec => []CountsMatch` |
| `SelectionProofs!UsableAreTheBest` | what `Usable` selects, for every view |
| `SelectionProofs!UnusableOnlyIfUnhealthy` | `Usable(view) = {}` only if all are unhealthy |
| `SelectionProofs!UsableIsAlwaysBestEnough` | `MixSpec => []UsableIsBestEnough` |
| `TransportPoolProofs!TypeCorrect` | `Spec => []TypeOK` |
| `TransportPoolProofs!PickerNeverMissing` | `Spec => []PickerNotMissing` |
| `TransportPoolProofs!NoWakeupLost` | `Spec => []NoLostWakeup` |
| `TransportPoolProofs!RetriesFindOpenConns` | `Spec => []PickerOffersOpenConns` |
| `TransportPoolProofs!CloseLeavesNoneOpen` | `Spec => []NoConnLeftOpen` |
| `TransportPoolProofs!LeavesKeepContract` | `Spec => LeafContracts` |
| `MainTransportProofs!TypeCorrect` | `Spec => []TypeOK` |
| `MainTransportProofs!MapAlwaysAgrees` | `Spec => []OpenIffLinked` |
| `MainTransportProofs!ClosedMeansEmpty` | `Spec => []CloseWaitsForPools` |
| `MainTransportProofs!TouchedPoolsStay` | `Spec => TouchedPoolStays` |
| `SelectionProofs!TypeCorrect` | `Spec => []TypeOK` |
| `SelectionProofs!ChangesAlwaysEarned` | `Spec => ChangesEarned` |
| `SelectionProofs!ProbesAlwaysDecide` | `Spec => []EnoughProbesDecide` |
| `SelectionProofs!BalancerAlwaysInformed` | `Spec => []BalancerInformed` |
| `ResolverProofs!LookupsSpacedOut` | `Spec => ResolvesSpacedOut` |
| `ResolverProofs!RequestsAnsweredInTime` | `Spec => []RequestsNotSleptOver` |
| `ResolverProofs!MultiplierJustEnough` | `n * Multiplier(n) ∈ MinConns .. 2 * MinConns - 1` for n below MinConns |
| `ResolverProofs!WriteInPieces` | `Write(HashOf(d), e) = HashOf(d ∘ e)` for all byte sequences |
| `ResolverProofs!AlwaysReplicatedEnough` | `AddressesSpec => []ReplicatedEnough` |
| `ResolverProofs!SubsetAlwaysBest` | `AddressesSpec => []SubsetBest`, for a hash that is not shared |
| `SelectionProofs!PowerTypeCorrect` | `PowerSpec => []PowerTypeOK` |
| `SelectionProofs!LoadsAlwaysShared` | `PowerSpec => []LoadsShared` |
| `SelectionProofs!TurnsAlwaysEven` | `TurnSpec => []TurnsEven` |
| `LeastLoadedProofs!FixRestoresOrder` | `Fix(h, p)` is sorted and has the items of `h`, if only the item at `p` was out of order |
| `LeastLoadedProofs!HeapifySorts` | `Heapify(h)` is sorted and has the items of `h` |
| `LeastLoadedProofs!RootIsLeast` | nothing in a sorted heap comes before its root |
| `LeastLoadedProofs!HeapTypeCorrect` | `HeapSpec => []HeapTypeOK` |
| `LeastLoadedProofs!LoadsAreCarriedOver` | `HeapSpec => []LoadsCarriedOver` |
| `LeastLoadedProofs!LeastLoadedIsPicked` | `HeapSpec => LeastLoadedOnceSifted` |

TypeOK of `Connection`, `Balancer`, `TransportPool`, `MainTransport`,
`PollingChecker`, the power-of-two and the least-loaded picker, CounterEncodes,
DrainedBeforeClose, ClosingIsFinal and PickerWithinPool are proved and need no
run of their own. ConnectionProofs, BalancerProofs and TransportPoolProofs
together carry safety across the components: the pool relies on two contracts,
and each is implemented by the module that stands for it.

**Only model-checked** is liveness, which needs ENABLED, which the prover does
not support. Every invariant and every action property that a passing run checks
is the subject of a theorem. No module declares a RECURSIVE operator: loops over
data are recursive functions, about which one can prove by induction over sets
as described.

## 6. Abstractions and what is not modelled

Left out on purpose in what is modelled:

* the contents of requests and responses and the rewriting of URLs, with the
  pool of request objects; attributes of addresses; TLS and dial configuration;
* which error a failing picker carries: it is a picker over no connection;
* durations but for the resolver's: the health checker's ticker, lifetimes and
  idle timers may expire at any time;
* the mixing of words in the hash, and where in the rendezvous heap an entry
  lies;
* random choices, which are free choices. The random picker is the choice in
  `Pick` of `TransportPool`.
* `CloseIdleConnections`, which passes through to the round trippers and changes
  no state.

Bounds in guards: `MaxConns`, `MaxResolves`, `MaxRecycles` (Balancer),
`MaxPicks` (LeastLoaded), once through the counter (AtomicPickers); the sizes of
the sets elsewhere.

Not modelled:

* `client.go`: assembles options and delegates to the main transport; what it
  starts and closes is in `MainTransport`;
* `conn/`, `internal/conns`, `attribute/`: sets and immutable maps, which TLA+
  has;
* `internal/clock.go` and the fakes of `internal/clocktest`,
  `internal/balancertesting`: a wrapper of package time, and test code;
* simple and h2c transports: configuration of net/http, of which the models use
  RoundTrip and close only;
* the simple prober and the no-op checker: I/O, and a checker that reports once
  that a connection is healthy, which is one behaviour of the checkers in
  `Balancer`.

## 7. Plan

Done: every component with state of its own, their composition through two
contracts, and proofs of the safety of all of them.

What is left:

1. The loop of balancer, ResolveNow and polling resolver as one module:
   `PollingResolver` as the balancer's environment, with the property that
   lasting bad health leads to new lookups. Likewise `PollingChecker` as the
   source of its reports.
2. Pool and connection composed in full, to carry the hang of the connection to
   the pool's close; which error a request gets.
3. The request that waits for its first picker when the pool is closed: once the
   code says what is to become of it, a property of `TransportPool`.
