------------------------------- MODULE Addresses -------------------------------
(***************************************************************************)
(* What becomes of the addresses that a lookup finds, on their way to the  *)
(* balancer: the address family policy of the DNS prober                   *)
(* (resolver/resolver.go), the replication by MinConnections               *)
(* (resolver/min_conns.go) and the subset chosen by rendezvous hashing     *)
(* (resolver/rendezvous.go), with the two decorators in either order.      *)
(*                                                                         *)
(* The receivers of all targets share one hash (internal/murmur3.go) and   *)
(* no lock: every call of its methods is an action.  What a hash has been  *)
(* fed determines its sum; the sum of an address after the key is a score. *)
(***************************************************************************)
EXTENDS FiniteSets, SequencesExt, Lists

CONSTANTS
    Receivers,    \* one for each target
    IPv4, IPv6,   \* addresses
    Key, Text,    \* the bytes of the selection key and of each address
    Score,        \* the sum of each address after the key, unlike any other's
    K,            \* NumBackends
    MinConns      \* minAddresses

Address == IPv4 \cup IPv6

ASSUME AddressesAssumption ==
    /\ IsFiniteSet(Address)
    /\ Key \in Seq(Nat)
    /\ Text \in [Address -> Seq(Nat)] /\ IsInjective(Text)
    /\ Score \in [Address -> Nat] /\ IsInjective(Score)
    /\ K \in Nat \ {0}
    /\ MinConns \in Nat

VARIABLES
    policy,       \* the address family policy
    subsetFirst,  \* whether the subset is chosen before it is replicated
    hash,         \* the shared hash: words hashed, bytes left over, total length
    phase,        \* what the goroutine of each receiver does next
    addrs,        \* the addresses to be ranked
    chosen,       \* the heap: of the addresses ranked so far, the best
    ranked,       \* how many that are
    found,        \* history: the addresses the latest lookup found,
    lookup,       \* and the latest that was reported
    reported      \* how often each address was reported to the balancer

configVars == << policy, subsetFirst >>

taskVars == << phase, found, addrs, chosen, ranked, lookup, reported >>

addressVars == << configVars, hash, taskVars >>

-----------------------------------------------------------------------------
(* The policy.                                                             *)

Policies == { "PreferIPv4", "RequireIPv4", "PreferIPv6", "RequireIPv6", "UseBothIPv4AndIPv6" }

Required == policy \in { "RequireIPv4", "RequireIPv6" }

Matching ==
    CASE policy \in { "PreferIPv4", "RequireIPv4" } -> IPv4
      [] policy \in { "PreferIPv6", "RequireIPv6" } -> IPv6
      [] OTHER -> Address

\* applyAddressFamilyPolicy.
ApplyPolicy(addresses) ==
    LET matching == Only(addresses, Matching)
    IN  IF Required \/ matching # << >> THEN matching ELSE addresses

-----------------------------------------------------------------------------
(* MinConnections.                                                         *)

\* Mutant of Multiplier: the division rounds down.
MultiplierDown(n) == MinConns \div n

Multiplier(n) ==
    LET multiplier == MinConns \div n
    IN  IF n * multiplier < MinConns THEN multiplier + 1 ELSE multiplier

\* The addresses so many times, one copy after the other.
Times(multiplier, addresses) ==
    [n \in 1..(multiplier * Len(addresses)) |-> addresses[1 + ((n - 1) % Len(addresses))]]

\* minConnsReceiver.OnResolve.
Replicate(addresses) ==
    IF Len(addresses) >= MinConns \/ addresses = << >>
    THEN addresses
    ELSE Times(Multiplier(Len(addresses)), addresses)

-----------------------------------------------------------------------------
(* The hash.  Words have four bytes.                                       *)

EmptyHash == [words |-> << >>, rest |-> << >>, len |-> 0]

WordsOf(data) == [n \in 1..(Len(data) \div 4) |-> SubSeq(data, 4 * n - 3, 4 * n)]

RestOf(data) == SubSeq(data, 4 * (Len(data) \div 4) + 1, Len(data))

\* Mutant of Write: hashes the bytes left over by the previous call alone.
WriteApart(h, data) ==
    [words |-> h.words \o (IF h.rest = << >> THEN << >> ELSE << h.rest >>) \o WordsOf(data),
     rest |-> RestOf(data), len |-> h.len + Len(data)]

\* MurmurHash3.Write: first fills up the word begun by the previous call.
Write(h, data) ==
    LET missing == IF h.rest = << >> THEN 0 ELSE 4 - Len(h.rest)
        word == h.rest \o SubSeq(data, 1, missing)
        body == SubSeq(data, missing + 1, Len(data))
    IN  IF Len(data) < missing
        THEN [h EXCEPT !.rest = @ \o data, !.len = @ + Len(data)]
        ELSE [words |-> h.words \o (IF missing = 0 THEN << >> ELSE << word >>) \o WordsOf(body),
              rest |-> RestOf(body), len |-> h.len + Len(data)]

\* The hash of a text, in one piece.
HashOf(data) == [words |-> WordsOf(data), rest |-> RestOf(data), len |-> Len(data)]

\* Sum32: whatever is not the hash of an address may have any sum.
Sums(h) ==
    IF \E a \in Address : h = HashOf(Key \o Text[a])
    THEN { Score[a] : a \in { b \in Address : h = HashOf(Key \o Text[b]) } }
    ELSE { Score[a] : a \in Address }

-----------------------------------------------------------------------------

AddressesInit ==
    /\ policy \in Policies
    /\ subsetFirst \in BOOLEAN
    /\ hash = EmptyHash
    /\ phase = [r \in Receivers |-> "idle"]
    /\ found = [r \in Receivers |-> {}]
    /\ addrs = [r \in Receivers |-> << >>]
    /\ chosen = [r \in Receivers |-> << >>]
    /\ ranked = [r \in Receivers |-> 0]
    /\ lookup = [r \in Receivers |-> {}]
    /\ reported = [r \in Receivers |-> [a \in Address |-> 0]]

Copies(s, a) == Cardinality({ n \in DOMAIN s : s[n] = a })

\* The receiver hands a result on; nothing of the call remains.
Deliver(r, addresses) ==
    /\ LET result == IF subsetFirst THEN Replicate(addresses) ELSE addresses
       IN  reported' = [reported EXCEPT ![r] = [a \in Address |-> Copies(result, a)]]
    /\ lookup' = [lookup EXCEPT ![r] = found'[r]]
    /\ phase' = [phase EXCEPT ![r] = "idle"]
    /\ addrs' = [addrs EXCEPT ![r] = << >>]
    /\ chosen' = [chosen EXCEPT ![r] = << >>]
    /\ ranked' = [ranked EXCEPT ![r] = 0]

\* ResolveOnce: LookupNetIP finds addresses of the network that the policy
\* asks for, and the receiver's OnResolve is called.
ResolveOnce(r, addresses) ==
    LET result == IF subsetFirst THEN ApplyPolicy(addresses)
                                 ELSE Replicate(ApplyPolicy(addresses))
    IN  /\ phase[r] = "idle"
        /\ Required => ToSet(addresses) \subseteq Matching
        /\ found' = [found EXCEPT ![r] = ToSet(addresses)]
        /\ UNCHANGED << configVars, hash >>
        /\ \/ /\ Len(result) <= K
              /\ Deliver(r, result)
           \/ /\ Len(result) > K
              /\ addrs' = [addrs EXCEPT ![r] = result]
              /\ phase' = [phase EXCEPT ![r] = "reset"]
              /\ UNCHANGED << chosen, ranked, lookup, reported >>

\* addressHeap.rank: the calls of the hash's methods.
Feed(r, from, to, h) ==
    /\ phase[r] = from
    /\ phase' = [phase EXCEPT ![r] = to]
    /\ hash' = h
    /\ UNCHANGED << configVars, found, addrs, chosen, ranked, lookup, reported >>

Reset(r) == Feed(r, "reset", "key", EmptyHash)

WriteKey(r) == Feed(r, "key", "address", Write(hash, Key))

WriteAddress(r) == Feed(r, "address", "sum", Write(hash, Text[addrs[r][ranked[r] + 1]]))

\* The first K make up the heap; any other replaces the root, which has a
\* least rank, if its own is higher.
Insert(heap, entry) ==
    LET Least(p) == \A q \in DOMAIN heap : heap[p].rank <= heap[q].rank
    IN  IF Len(heap) < K THEN { Append(heap, entry) }
        ELSE { IF entry.rank > heap[p].rank THEN [heap EXCEPT ![p] = entry] ELSE heap :
                 p \in { p \in DOMAIN heap : Least(p) } }

Addrs(heap) == [p \in DOMAIN heap |-> heap[p].addr]

Sum32(r) ==
    /\ phase[r] = "sum"
    /\ UNCHANGED << configVars, hash, found >>
    /\ \E rank \in Sums(hash) :
         \E heap \in Insert(chosen[r], [addr |-> addrs[r][ranked[r] + 1], rank |-> rank]) :
           \/ /\ ranked[r] + 1 < Len(addrs[r])
              /\ chosen' = [chosen EXCEPT ![r] = heap]
              /\ ranked' = [ranked EXCEPT ![r] = @ + 1]
              /\ phase' = [phase EXCEPT ![r] = "reset"]
              /\ UNCHANGED << addrs, lookup, reported >>
           \/ /\ ranked[r] + 1 = Len(addrs[r])
              /\ Deliver(r, Addrs(heap))

AddressesNext ==
    \E r \in Receivers :
        \/ \E addresses \in SetToAllKPermutations(Address) : ResolveOnce(r, addresses)
        \/ Reset(r)
        \/ WriteKey(r)
        \/ WriteAddress(r)
        \/ Sum32(r)

AddressesSpec == AddressesInit /\ [][AddressesNext]_addressVars

-----------------------------------------------------------------------------
(* Properties.                                                             *)

Reported(r) == { a \in Address : reported[r][a] > 0 }

\* The addresses that the policy accepts: of the required family only; of the
\* preferred one, or all if none of that was found.
Accepted(r) ==
    IF Required \/ lookup[r] \cap Matching # {} THEN lookup[r] \cap Matching ELSE lookup[r]

\* An address is reported exactly when the policy accepts it and it has one of
\* the K highest scores, whatever the order in which they were found: the same
\* addresses always give the same subset.  (Copies made before count as
\* addresses: there is room for all copies of the best, then for those of the
\* next.)
SubsetBest ==
    \A r \in Receivers :
        LET few == Cardinality(Accepted(r)) < MinConns
            copies == IF few /\ ~subsetFirst THEN Multiplier(Cardinality(Accepted(r))) ELSE 1
            Better(a) == { b \in Accepted(r) : Score[b] > Score[a] }
        IN  Reported(r) = { a \in Accepted(r) : copies * Cardinality(Better(a)) < K }

\* At least the minimum of addresses, less than twice the minimum if anything
\* was added, and every address equally often.
ReplicatedEnough ==
    \A r \in Receivers : subsetFirst =>
        \A a \in Reported(r) :
            LET times == reported[r][a]
                distinct == Cardinality(Reported(r))
            IN  /\ \A b \in Reported(r) : reported[r][b] = times
                /\ times * distinct >= MinConns
                /\ times > 1 => times * distinct < 2 * MinConns

\* "When provided the same selection key and k value, it will return the same
\* addresses": also to the resolver of another target.  (The code does not
\* satisfy this when they run at the same time: see the README.)
SameAddresses ==
    \A r, s \in Receivers : lookup[r] = lookup[s] => Reported(r) = Reported(s)

=============================================================================
